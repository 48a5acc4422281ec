-------------------------- MODULE SnssaiMatching --------------------------
(***************************************************************************)
(* How the NSSF compares network slices (src/nssf_app/                     *)
(* nssf_slice_selection.cpp).  An S-NSSAI is a Slice/Service Type and an   *)
(* optional Slice Differentiator.  Lists of S-NSSAIs are sets here: every  *)
(* loop of the code over such a list only asks whether some or all of its  *)
(* members match, so neither order nor repetition can be told apart.       *)
(***************************************************************************)
EXTENDS Integers

CONSTANTS
  Sst,                          \* Slice/Service Types in use
  Sd,                           \* values of a Slice Differentiator
  NoSd,                         \* an sd that is not set
  SST_MAX_STANDARDIZED_VALUE    \* from 3gpp_23.003.h of the common submodule

ASSUME SstAssumption == /\ Sst \subseteq Int
                        /\ SST_MAX_STANDARDIZED_VALUE \in Int
ASSUME SdAssumption == NoSd \notin Sd

Snssai == [sst : Sst, sd : Sd \cup {NoSd}]

sdIsSet(s) == s.sd # NoSd

(***************************************************************************)
(* compare_snssai: SSTs are equal and, from the last standardized SST on,  *)
(* SDs are equal when one of them is set.  getSd() of an unset SD returns  *)
(* a default string that no set SD holds: NoSd differs from every value.   *)
(***************************************************************************)
compare_snssai(a, b) ==
  /\ a.sst = b.sst
  /\ \/ ~(sdIsSet(a) \/ sdIsSet(b))
     \/ a.sst < SST_MAX_STANDARDIZED_VALUE
     \/ a.sd = b.sd

MatchesSome(s, list) == \E t \in list : compare_snssai(s, t)

(***************************************************************************)
(* The requested S-NSSAIs that some subscribed one matches: the            *)
(* matched_snssai that validate_rnssai_in_plmn collects.                   *)
(***************************************************************************)
MatchedSnssai(requested, subscribed) ==
  {r \in requested : MatchesSome(r, subscribed)}

\* get_valid_amf: no requested S-NSSAI is left without a supported match.
get_valid_amf(e_snssai_list, r_nssai) ==
  \A r \in r_nssai : MatchesSome(r, e_snssai_list)
=============================================================================
