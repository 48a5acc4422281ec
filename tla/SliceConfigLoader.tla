------------------------- MODULE SliceConfigLoader -------------------------
(***************************************************************************)
(* nssf_config::parse_config: the three sections of the slice              *)
(* configuration file are read one after the other, item by item, into the *)
(* lists that the handlers use.  An item that cannot be parsed ends its    *)
(* section with an exception that the section's own function catches.      *)
(***************************************************************************)
EXTENDS Naturals, Sequences, SequencesExt

CONSTANTS
  Files,      \* the configuration files to read
  Missing,    \* a section that a file does not have
  NoFile,     \* the path names no file
  Malformed   \* the file is not YAML

(***************************************************************************)
(* An item of nsiInfoList or taInfoList can be parsed ("good") or not      *)
(* ("bad").  An AMF can be parsed, has a bad nssai ("partial"), which is   *)
(* logged, or a bad nfId ("bad").  An item of amfInfoList has its own      *)
(* keys, good or bad, and a list of AMFs.                                  *)
(***************************************************************************)
Parsed == {"good", "bad"}
Amf    == {"good", "partial", "bad"}

ASSUME FilesAssumption ==
  \A f \in Files \ {NoFile, Malformed} :
    /\ f.nsi = Missing \/ f.nsi \in Seq(Parsed)
    /\ f.ta = Missing \/ f.ta \in Seq(Parsed)
    /\ f.amf = Missing \/ f.amf \in Seq([keys : Parsed, amfs : Seq(Amf)])

VARIABLES
  file,      \* the file that is read
  section,   \* the section that is read, or how parse_config has returned
  item,      \* the items of the section that have been read
  amf_list,  \* amf_info.amf_List of the item that parse_amf_info is in
  nsi_info_list, ta_info_list, amf_info_list

loader_vars == <<file, section, item, amf_list,
                 nsi_info_list, ta_info_list, amf_info_list>>

LoaderInit ==
  /\ file = NoFile
  /\ section = "file"
  /\ item = 0
  /\ amf_list = <<>>
  /\ nsi_info_list = <<>> /\ ta_info_list = <<>> /\ amf_info_list = <<>>

(***************************************************************************)
(* YAML::LoadFile: only BadFile is caught; the ParserException of a file   *)
(* that is not YAML leaves parse_config and ends the process.              *)
(***************************************************************************)
LoadFile ==
  /\ section = "file"
  /\ file' \in Files
  /\ section' = CASE file' = NoFile    -> "false"
                  [] file' = Malformed -> "thrown"
                  [] OTHER             -> "nsi"
  /\ UNCHANGED <<item, amf_list, nsi_info_list, ta_info_list, amf_info_list>>

After(s) == CASE s = "nsi" -> "ta" [] s = "ta" -> "amf" [] s = "amf" -> "true"

\* The section ends, and nobody looks at what its function returns.
EndSection ==
  /\ section' = After(section)
  /\ item' = 0
  /\ amf_list' = <<>>
  /\ UNCHANGED <<file, nsi_info_list, ta_info_list, amf_info_list>>

Reading == section \in {"nsi", "ta", "amf"}

\* parse_config returns false: the section is not in the file.
SectionMissing ==
  /\ Reading /\ file[section] = Missing
  /\ section' = "false"
  /\ UNCHANGED <<file, item, amf_list, nsi_info_list, ta_info_list, amf_info_list>>

AtItem == Reading /\ file[section] # Missing /\ item < Len(file[section])

EndOfSection ==
  /\ Reading /\ file[section] # Missing /\ item = Len(file[section])
  /\ EndSection

\* A bad item is left out, and the next one is read.
skip_bad_item ==
  /\ AtItem /\ section # "amf" /\ file[section][item + 1] = "bad"
  /\ item' = item + 1
  /\ UNCHANGED <<file, section, amf_list, nsi_info_list, ta_info_list,
                 amf_info_list>>

\* The loop never gets past a bad item.
retry_bad_item ==
  /\ AtItem /\ section # "amf" /\ file[section][item + 1] = "bad"
  /\ UNCHANGED loader_vars

\* parse_nsi_info and parse_ta_info: the exception ends the loop.
BadItem ==
  /\ AtItem /\ section # "amf" /\ file[section][item + 1] = "bad"
  /\ EndSection

NsiItem ==
  /\ AtItem /\ section = "nsi" /\ file.nsi[item + 1] = "good"
  /\ nsi_info_list' = Append(nsi_info_list, item + 1)
  /\ item' = item + 1
  /\ UNCHANGED <<file, section, amf_list, ta_info_list, amf_info_list>>

TaItem ==
  /\ AtItem /\ section = "ta" /\ file.ta[item + 1] = "good"
  /\ ta_info_list' = Append(ta_info_list, item + 1)
  /\ item' = item + 1
  /\ UNCHANGED <<file, section, amf_list, nsi_info_list, amf_info_list>>

-----------------------------------------------------------------------------
(* parse_amf_info and parse_amf_list *)

TheItem == file.amf[item + 1]
NextAmf == TheItem.amfs[Len(amf_list) + 1]

\* The keys of the set are read before its AMFs.
BadAmfSet ==
  /\ AtItem /\ section = "amf"
  /\ \/ TheItem.keys = "bad"
     \/ Len(amf_list) < Len(TheItem.amfs) /\ NextAmf = "bad"
  /\ EndSection

\* parse_nssai catches its own exception; the AMF is pushed all the same.
ReadAmf ==
  /\ AtItem /\ section = "amf" /\ TheItem.keys = "good"
  /\ Len(amf_list) < Len(TheItem.amfs) /\ NextAmf # "bad"
  /\ amf_list' = Append(amf_list, NextAmf)
  /\ UNCHANGED <<file, section, item, nsi_info_list, ta_info_list, amf_info_list>>

\* The AMFs of the set before are not cleared.
push_amf_set_dirty ==
  /\ AtItem /\ section = "amf" /\ TheItem.keys = "good"
  /\ Len(amf_list) = Len(TheItem.amfs)
  /\ amf_info_list' = Append(amf_info_list, amf_list)
  /\ item' = item + 1
  /\ UNCHANGED <<file, section, amf_list, nsi_info_list, ta_info_list>>

PushAmfSet ==
  /\ AtItem /\ section = "amf" /\ TheItem.keys = "good"
  /\ Len(amf_list) = Len(TheItem.amfs)
  /\ amf_info_list' = Append(amf_info_list, amf_list)
  /\ item' = item + 1
  /\ amf_list' = <<>>
  /\ UNCHANGED <<file, section, nsi_info_list, ta_info_list>>

LoaderNext == \/ LoadFile \/ SectionMissing \/ EndOfSection \/ BadItem \/ NsiItem \/ TaItem
              \/ BadAmfSet \/ ReadAmf \/ PushAmfSet

LoaderSpec == LoaderInit /\ [][LoaderNext]_loader_vars

-----------------------------------------------------------------------------
(* Properties *)

\* The types of the variables.
LoaderTypeOK ==
  /\ file \in Files \cup {NoFile}
  /\ section \in {"file", "nsi", "ta", "amf", "true", "false", "thrown"}
  /\ item \in Nat
  /\ AtItem /\ section = "amf" => Len(amf_list) <= Len(TheItem.amfs)
  /\ {nsi_info_list, ta_info_list} \subseteq Seq(Nat)
  /\ amf_info_list \in Seq(Seq(Amf))

\* How many items come before the first that is bad.
GoodPrefix(items, bad) ==
  CHOOSE n \in 0 .. Len(items) :
    /\ (1 .. n) \cap bad = {}
    /\ n = Len(items) \/ n + 1 \in bad

BadItems(items) == {i \in DOMAIN items : items[i] = "bad"}

BadAmfItems(items) ==
  {i \in DOMAIN items :
     \/ items[i].keys = "bad"
     \/ \E k \in DOMAIN items[i].amfs : items[i].amfs[k] = "bad"}

NsiLoaded ==
  nsi_info_list = [i \in 1 .. GoodPrefix(file.nsi, BadItems(file.nsi)) |-> i]

TaLoaded ==
  ta_info_list = [i \in 1 .. GoodPrefix(file.ta, BadItems(file.ta)) |-> i]

AmfLoaded ==
  amf_info_list = [i \in 1 .. GoodPrefix(file.amf, BadAmfItems(file.amf)) |->
                     file.amf[i].amfs]

Loaded == NsiLoaded /\ TaLoaded /\ AmfLoaded

(***************************************************************************)
(* When parse_config returns true, each list holds the items before the    *)
(* first bad one of its section, whole and in order, and nothing else,     *)
(* whatever was wrong in the sections before; an AMF set is never loaded   *)
(* without one of its AMFs.                                                *)
(***************************************************************************)
LoadedArePrefixes == section = "true" => Loaded
=============================================================================
