------------------------- MODULE NssfStartupProofs -------------------------
(***************************************************************************)
(* Proofs about NssfStartup, for command lines of any length and files     *)
(* with any number of items: which lines are accepted, what is loaded from *)
(* a file with bad items, and that every start is one of the process.      *)
(***************************************************************************)
EXTENDS NssfStartup, SequenceTheorems, TLAPS

-----------------------------------------------------------------------------
(* The command line *)

Wrong(arg) == \/ arg.name \in {"unknown", "libconfigcfg"}
              \/ arg.name = "c" /\ arg.file = NoFileName

NamesFile(arg) == arg.name = "c" /\ arg.file # NoFileName

\* What the members say of the arguments that have been read.
ReadArguments ==
  /\ argv \in Seq(Argument) /\ TakesNext(argv) /\ index \in 0 .. Len(argv)
  /\ {result, m_log_stdout, m_log_rot_file_log} \subseteq BOOLEAN
  /\ result <=> \A i \in 1 .. index : ~Wrong(argv[i])
  /\ m_log_stdout <=> \E i \in 1 .. index : argv[i].name = "stdoutlog"
  /\ m_log_rot_file_log <=> \E i \in 1 .. index : argv[i].name = "rotatelog"
  /\ \/ m_libconfigcfg = NoFileName /\ \A i \in 1 .. index : ~NamesFile(argv[i])
     \/ \E i \in 1 .. index :
          /\ NamesFile(argv[i]) /\ m_libconfigcfg = argv[i].file
          /\ \A j \in 1 .. index : NamesFile(argv[j]) => j <= i

\* How the loop ends.
Ended ==
  /\ state \in {"parsing", "exited", "true", "false"}
  /\ state \in {"true", "false"} => index = Len(argv)
  /\ state = "exited" => "help" \in Names
  /\ state # "exited" => \A i \in 1 .. index : argv[i].name # "help"

Validated ==
  /\ state = "true" => result /\ m_libconfigcfg # NoFileName
  /\ state = "false" => ~(result /\ m_libconfigcfg # NoFileName)

OptionsInv == ReadArguments /\ Ended /\ Validated

LEMMA ReturnsStep ==
  ASSUME OptionsInv, NEW arg \in Argument, Returns(arg), argv' = argv
  PROVE  /\ state = "parsing" /\ index' \in 0 .. Len(argv)
         /\ index' \in DOMAIN argv /\ argv[index'] = arg
         /\ \A i : i \in 1 .. index' <=> i \in 1 .. index \/ i = index'
         /\ \A i \in 1 .. index' : i <= index'
  BY DEF OptionsInv, ReadArguments, Returns

LEMMA OptionsStep ==
  ASSUME OptionsInv, OptionsNext
  PROVE  OptionsInv'
<1>1. CASE NoOption \/ StdoutLog \/ RotateLog
  <2>1. PICK arg \in Argument :
           /\ Returns(arg) /\ arg.name \in {"none", "stdoutlog", "rotatelog"}
           /\ m_log_stdout' = (m_log_stdout \/ arg.name = "stdoutlog")
           /\ m_log_rot_file_log' = (m_log_rot_file_log \/ arg.name = "rotatelog")
    <3>1. CASE NoOption
      BY <3>1 DEF NoOption, OptionsInv, ReadArguments
    <3>2. CASE StdoutLog
      BY <3>2 DEF StdoutLog, OptionsInv, ReadArguments
    <3>3. CASE RotateLog
      BY <3>3 DEF RotateLog, OptionsInv, ReadArguments
    <3> QED
      BY <1>1, <3>1, <3>2, <3>3
  <2>2. UNCHANGED <<argv, result, m_libconfigcfg, state>>
    BY <1>1 DEF NoOption, StdoutLog, RotateLog
  <2>3. ~Wrong(arg) /\ ~NamesFile(arg) /\ arg.name # "help"
    BY <2>1 DEF Wrong, NamesFile
  <2>4. ReadArguments'
    BY <2>1, <2>2, <2>3, ReturnsStep DEF OptionsInv, ReadArguments
  <2>5. Ended' /\ Validated'
    BY <2>1, <2>2, <2>3, ReturnsStep DEF OptionsInv, Ended, Validated
  <2> QED
    BY <2>4, <2>5 DEF OptionsInv
<1>2. CASE Help
  <2>1. PICK arg \in Argument : Returns(arg) /\ arg.name = "help"
    BY <1>2 DEF Help
  <2>2. /\ UNCHANGED <<argv, result, m_libconfigcfg, m_log_stdout,
                       m_log_rot_file_log>>
        /\ state' = "exited"
    BY <1>2 DEF Help
  <2>3. ~Wrong(arg) /\ ~NamesFile(arg)
    BY <2>1 DEF Wrong, NamesFile
  <2>4. ReadArguments'
    BY <2>1, <2>2, <2>3, ReturnsStep DEF OptionsInv, ReadArguments
  <2>5. Ended' /\ Validated'
    BY <2>1, <2>2, ReturnsStep DEF Ended, Validated, Names
  <2> QED
    BY <2>4, <2>5 DEF OptionsInv
<1>3. CASE Config
  <2>1. PICK arg \in Argument : /\ Returns(arg) /\ NamesFile(arg)
                                /\ m_libconfigcfg' = arg.file
    BY <1>3 DEF Config, NamesFile
  <2>2. UNCHANGED <<argv, result, m_log_stdout, m_log_rot_file_log, state>>
    BY <1>3 DEF Config
  <2>3. ~Wrong(arg) /\ arg.name \notin {"help", "stdoutlog", "rotatelog"}
    BY <2>1 DEF Wrong, NamesFile
  <2>4. ReadArguments'
    BY <2>1, <2>2, <2>3, ReturnsStep DEF OptionsInv, ReadArguments
  <2>5. Ended' /\ Validated'
    BY <2>1, <2>2, <2>3, ReturnsStep DEF OptionsInv, Ended, Validated
  <2> QED
    BY <2>4, <2>5 DEF OptionsInv
<1>4. CASE Refused
  <2>1. PICK arg \in Argument : Returns(arg) /\ Wrong(arg)
    BY <1>4 DEF Refused, Wrong
  <2>2. /\ UNCHANGED <<argv, m_libconfigcfg, m_log_stdout, m_log_rot_file_log,
                       state>>
        /\ result' = FALSE
    BY <1>4 DEF Refused
  <2>3. ~NamesFile(arg) /\ arg.name \notin {"help", "stdoutlog", "rotatelog"}
    BY <2>1 DEF Wrong, NamesFile
  <2>4. ReadArguments'
    BY <2>1, <2>2, <2>3, ReturnsStep DEF OptionsInv, ReadArguments
  <2>5. Ended' /\ Validated'
    BY <2>1, <2>2, <2>3, ReturnsStep DEF OptionsInv, Ended, Validated
  <2> QED
    BY <2>4, <2>5 DEF OptionsInv
<1>5. CASE Validate
  BY <1>5 DEF Validate, OptionsInv, ReadArguments, Ended, Validated
<1> QED
  BY <1>1, <1>2, <1>3, <1>4, <1>5 DEF OptionsNext

\* What has been read when the loop ends is the whole line.
LEMMA OptionsAccept == OptionsInv => AcceptsRightLines
<1> SUFFICES ASSUME OptionsInv PROVE AcceptsRightLines
  OBVIOUS
<1>1. /\ argv \in Seq(Argument) /\ Len(argv) \in Nat
      /\ \A i \in DOMAIN argv : argv[i] \in Argument
  BY ElementOfSeq DEF OptionsInv, ReadArguments
<1>2. ASSUME state \in {"true", "false"}
      PROVE  DOMAIN argv = 1 .. index /\ "help" \notin Names
  BY <1>1, <1>2 DEF OptionsInv, Ended, Names
<1>3. ASSUME state = "true"
      PROVE  /\ Names \subseteq {"c", "stdoutlog", "rotatelog", "none"}
             /\ m_libconfigcfg = LastFile
             /\ m_log_stdout = ("stdoutlog" \in Names)
             /\ m_log_rot_file_log = ("rotatelog" \in Names)
  <2>1. /\ \A i \in DOMAIN argv : ~Wrong(argv[i])
        /\ m_libconfigcfg # NoFileName
    BY <1>2, <1>3 DEF OptionsInv, ReadArguments, Validated
  <2>2. Names \subseteq {"c", "stdoutlog", "rotatelog", "none"}
    BY <1>1, <1>2, <1>3, <2>1 DEF Names, Wrong, Argument
  <2>3. m_libconfigcfg = LastFile
    <3>1. PICK i \in DOMAIN argv :
             /\ NamesFile(argv[i]) /\ m_libconfigcfg = argv[i].file
             /\ \A j \in DOMAIN argv : NamesFile(argv[j]) => j <= i
      BY <1>2, <1>3, <2>1 DEF OptionsInv, ReadArguments
    <3>2. FilesGiven = {j \in DOMAIN argv : NamesFile(argv[j])}
      BY <2>1 DEF FilesGiven, NamesFile, Wrong
    <3>3. i \in FilesGiven /\ \A j \in FilesGiven : j <= i
      BY <3>1, <3>2
    <3>4. FilesGiven \subseteq Nat
      BY <1>1 DEF FilesGiven
    <3> DEFINE last == CHOOSE k \in FilesGiven : \A j \in FilesGiven : j <= k
    <3>5. last \in FilesGiven /\ \A j \in FilesGiven : j <= last
      BY <3>3
    <3> HIDE DEF last
    <3>6. last = i
      BY <3>3, <3>4, <3>5
    <3> QED
      BY <3>1, <3>6 DEF LastFile, last
  <2>4. m_log_stdout <=> "stdoutlog" \in Names
    BY <1>2, <1>3 DEF OptionsInv, ReadArguments, Names
  <2>5. m_log_rot_file_log <=> "rotatelog" \in Names
    BY <1>2, <1>3 DEF OptionsInv, ReadArguments, Names
  <2>6. m_log_stdout \in BOOLEAN /\ m_log_rot_file_log \in BOOLEAN
    BY DEF OptionsInv, ReadArguments
  <2> QED
    BY <2>2, <2>3, <2>4, <2>5, <2>6
<1>4. ASSUME state = "false"
      PROVE  \/ FilesGiven = {}
             \/ {"unknown", "libconfigcfg"} \cap Names # {}
             \/ LastFile = NoFileName
  <2>1. CASE result
    <3>1. m_libconfigcfg = NoFileName /\ \A i \in DOMAIN argv : ~Wrong(argv[i])
      BY <1>2, <1>4, <2>1 DEF OptionsInv, ReadArguments, Validated
    <3>2. \A i \in DOMAIN argv : ~NamesFile(argv[i])
      BY <1>2, <1>4, <3>1 DEF OptionsInv, ReadArguments, NamesFile
    <3> QED
      BY <3>1, <3>2 DEF FilesGiven, NamesFile, Wrong
  <2>2. CASE ~result
    <3>1. PICK i \in DOMAIN argv : Wrong(argv[i])
      BY <1>2, <1>4, <2>2 DEF OptionsInv, ReadArguments
    <3>2. CASE argv[i].name \in {"unknown", "libconfigcfg"}
      BY <3>2 DEF Names
    <3>3. CASE argv[i].name = "c" /\ argv[i].file = NoFileName
      <4>1. i = Len(argv)
        BY <1>1, <3>3 DEF OptionsInv, ReadArguments, TakesNext
      <4>2. i \in FilesGiven /\ FilesGiven \subseteq 1 .. Len(argv)
        BY <1>1, <3>3 DEF FilesGiven
      <4>3. \A k \in FilesGiven : (\A j \in FilesGiven : j <= k) <=> k = i
        BY <1>1, <4>1, <4>2
      <4>4. (CHOOSE k \in FilesGiven : \A j \in FilesGiven : j <= k) = i
        BY <4>2, <4>3
      <4> QED
        BY <3>3, <4>4 DEF LastFile
    <3> QED
      BY <3>1, <3>2, <3>3 DEF Wrong
  <2> QED
    BY <2>1, <2>2
<1> QED
  BY <1>2, <1>3, <1>4 DEF AcceptsRightLines, OptionsInv, Ended

-----------------------------------------------------------------------------
(* The slice configuration *)

Iota(n) == [i \in 1 .. n |-> i]

\* The first n items have been read, and none of them is bad.
ReadUpTo(items, bad, n) == n \in 0 .. Len(items) /\ (1 .. n) \cap bad = {}

LEMMA PrefixIs ==
  ASSUME NEW items, Len(items) \in Nat, NEW bad, NEW n, ReadUpTo(items, bad, n),
         n = Len(items) \/ n + 1 \in bad
  PROVE  GoodPrefix(items, bad) = n
<1> DEFINE P(m) == (1 .. m) \cap bad = {} /\ (m = Len(items) \/ m + 1 \in bad)
           g == CHOOSE m \in 0 .. Len(items) : P(m)
<1>1. n \in 0 .. Len(items) /\ P(n)
  BY DEF ReadUpTo
<1>2. g \in 0 .. Len(items) /\ P(g)
  BY <1>1
<1>3. ASSUME NEW k \in 0 .. Len(items), NEW m \in 0 .. Len(items), P(k), P(m)
      PROVE  ~(k < m)
  <2> SUFFICES ASSUME k < m PROVE FALSE
    OBVIOUS
  <2>1. k + 1 \in bad /\ k + 1 \in 1 .. m
    BY <1>3
  <2> QED
    BY <1>3, <2>1
<1>4. GoodPrefix(items, bad) = g
  BY DEF GoodPrefix
<1> HIDE DEF g, P
<1> QED
  BY <1>1, <1>2, <1>3, <1>4

LEMMA NextRead ==
  ASSUME NEW items, Len(items) \in Nat, NEW bad, NEW n, ReadUpTo(items, bad, n),
         n < Len(items), n + 1 \notin bad
  PROVE  ReadUpTo(items, bad, n + 1)
<1>1. n \in Nat /\ n + 1 \in 0 .. Len(items)
  BY DEF ReadUpTo
<1>2. \A i \in 1 .. n + 1 : i \in 1 .. n \/ i = n + 1
  BY <1>1
<1> QED
  BY <1>1, <1>2 DEF ReadUpTo

LEMMA IotaGrows ==
  ASSUME NEW n \in Nat
  PROVE  Iota(n) \in Seq(Nat) /\ Append(Iota(n), n + 1) = Iota(n + 1)
<1>1. Iota(n) \in Seq(Nat) /\ Len(Iota(n)) = n
  BY DEF Iota
<1>2. Iota(n + 1) \in Seq(Nat) /\ Len(Iota(n + 1)) = n + 1
  BY DEF Iota
<1> DEFINE a == Append(Iota(n), n + 1)
<1>3. a \in Seq(Nat) /\ Len(a) = n + 1
  BY <1>1, AppendProperties
<1>4. \A i \in 1 .. n + 1 : a[i] = Iota(n + 1)[i]
  <2> TAKE i \in 1 .. n + 1
  <2>1. a[i] = IF i = n + 1 THEN n + 1 ELSE Iota(n)[i]
    BY <1>1, AppendProperties
  <2>2. Iota(n + 1)[i] = i /\ (i # n + 1 => Iota(n)[i] = i)
    BY DEF Iota
  <2> QED
    BY <2>1, <2>2
<1> HIDE DEF a
<1>5. a = Iota(n + 1)
  BY <1>2, <1>3, <1>4, SeqEqual
<1> QED
  BY <1>1, <1>5 DEF a

\* A file that is read, and the types of its sections.
IsRead == file \in Files \ {NoFile, Malformed}

AmfItem == [keys : Parsed, amfs : Seq(Amf)]

LoadedBefore ==
  /\ section \in {"nsi", "ta", "amf", "true"} => IsRead
  /\ section \in {"ta", "amf", "true"} => file.nsi # Missing /\ NsiLoaded
  /\ section \in {"amf", "true"} => file.ta # Missing /\ TaLoaded
  /\ section = "true" => file.amf # Missing /\ AmfLoaded

InNsi == section = "nsi" /\ file.nsi # Missing =>
  ReadUpTo(file.nsi, BadItems(file.nsi), item) /\ nsi_info_list = Iota(item)

InTa == section = "ta" /\ file.ta # Missing =>
  ReadUpTo(file.ta, BadItems(file.ta), item) /\ ta_info_list = Iota(item)

\* The AMFs of the set that is read, as far as they have been.
AmfsRead ==
  /\ item = Len(file.amf) => amf_list = <<>>
  /\ item < Len(file.amf) =>
       /\ Len(amf_list) <= Len(TheItem.amfs)
       /\ \A k \in 1 .. Len(amf_list) :
            amf_list[k] = TheItem.amfs[k] /\ amf_list[k] # "bad"

InAmf == section = "amf" /\ file.amf # Missing =>
  /\ ReadUpTo(file.amf, BadAmfItems(file.amf), item)
  /\ amf_info_list = [i \in 1 .. item |-> file.amf[i].amfs]
  /\ AmfsRead

NotYet ==
  /\ section \in {"file", "nsi"} => ta_info_list = <<>>
  /\ section \in {"file", "nsi", "ta"} => amf_info_list = <<>> /\ amf_list = <<>>
  /\ section = "file" => nsi_info_list = <<>> /\ item = 0

ListTypes ==
  /\ file \in Files \cup {NoFile}
  /\ section \in {"file", "nsi", "ta", "amf", "true", "false", "thrown"}
  /\ item \in Nat
  /\ {nsi_info_list, ta_info_list} \subseteq Seq(Nat)
  /\ amf_info_list \in Seq(Seq(Amf))
  /\ amf_list \in Seq(Amf)

LoaderInv == ListTypes /\ LoadedBefore /\ NotYet /\ InNsi /\ InTa /\ InAmf

LEMMA FileType ==
  ASSUME IsRead
  PROVE  /\ file.nsi # Missing => file.nsi \in Seq(Parsed)
         /\ file.ta # Missing => file.ta \in Seq(Parsed)
         /\ file.amf # Missing => file.amf \in Seq(AmfItem)
  BY FilesAssumption DEF IsRead, AmfItem

LEMMA ItemType ==
  ASSUME IsRead, file.amf # Missing, NEW k \in 1 .. Len(file.amf)
  PROVE  /\ file.amf[k].keys \in Parsed /\ file.amf[k].amfs \in Seq(Amf)
         /\ k \in BadAmfItems(file.amf) <=>
              \/ file.amf[k].keys = "bad"
              \/ \E i \in DOMAIN file.amf[k].amfs : file.amf[k].amfs[i] = "bad"
<1>1. file.amf \in Seq(AmfItem)
  BY FileType
<1>2. file.amf[k] \in AmfItem /\ k \in DOMAIN file.amf
  BY <1>1, ElementOfSeq
<1> QED
  BY <1>2 DEF AmfItem, BadAmfItems

LEMMA LoadFileStep ==
  ASSUME LoaderInv, LoadFile
  PROVE  LoaderInv'
<1>1. /\ section = "file" /\ file' \in Files
      /\ section' \in {"false", "thrown", "nsi"}
      /\ section' = "nsi" => file' \notin {NoFile, Malformed}
      /\ UNCHANGED <<item, amf_list, nsi_info_list, ta_info_list, amf_info_list>>
  BY DEF LoadFile
<1>2. item' = 0 /\ nsi_info_list' = <<>>
  BY <1>1 DEF LoaderInv, NotYet
<1>3. ListTypes' /\ NotYet'
  BY <1>1, <1>2 DEF LoaderInv, ListTypes, NotYet
<1>4. LoadedBefore'
  BY <1>1 DEF LoadedBefore, IsRead
<1>5. InNsi'
  <2> SUFFICES ASSUME section' = "nsi", file'.nsi # Missing
               PROVE  /\ ReadUpTo(file'.nsi, BadItems(file'.nsi), 0)
                      /\ nsi_info_list' = Iota(0)
    BY <1>2 DEF InNsi, ReadUpTo, BadItems
  <2>1. file'.nsi \in Seq(Parsed)
    BY <1>1, FilesAssumption
  <2>2. Len(file'.nsi) \in Nat
    BY <2>1
  <2> QED
    BY <1>2, <2>2 DEF ReadUpTo, Iota
<1>6. InTa' /\ InAmf'
  BY <1>1 DEF InTa, InAmf
<1> QED
  BY <1>3, <1>4, <1>5, <1>6 DEF LoaderInv

\* A section is left when it ends, or at its first bad item.
LEMMA EndSectionStep ==
  ASSUME LoaderInv, Reading, file[section] # Missing, EndSection,
         \/ /\ section # "amf"
            /\ \/ item = Len(file[section])
               \/ item + 1 \in BadItems(file[section])
         \/ /\ section = "amf"
            /\ \/ item = Len(file.amf)
               \/ item + 1 \in BadAmfItems(file.amf)
  PROVE  LoaderInv'
<1>1. /\ section' = After(section) /\ item' = 0 /\ amf_list' = <<>>
      /\ UNCHANGED <<file, nsi_info_list, ta_info_list, amf_info_list>>
  BY DEF EndSection
<1>2. ListTypes /\ LoadedBefore /\ NotYet /\ IsRead
  BY DEF LoaderInv, LoadedBefore, Reading
<1>3. ListTypes'
  BY <1>1, <1>2 DEF ListTypes, Reading, After
<1>4. CASE section = "nsi"
  <2>1. section' = "ta" /\ file.nsi # Missing
    BY <1>1, <1>4 DEF After
  <2>2. NsiLoaded
    <3>1. Len(file.nsi) \in Nat
      BY <1>2, <2>1, FileType
    <3>2. GoodPrefix(file.nsi, BadItems(file.nsi)) = item
      BY <1>4, <2>1, <3>1, PrefixIs DEF LoaderInv, InNsi
    <3> QED
      BY <1>4, <2>1, <3>2 DEF LoaderInv, InNsi, NsiLoaded, Iota
  <2>3. LoadedBefore' /\ NotYet'
    BY <1>1, <1>2, <1>4, <2>1, <2>2 DEF LoadedBefore, NotYet, IsRead, NsiLoaded
  <2>4. InTa'
    <3> SUFFICES ASSUME file.ta # Missing
                 PROVE  /\ ReadUpTo(file.ta, BadItems(file.ta), 0)
                        /\ ta_info_list = Iota(0)
      BY <1>1 DEF InTa, ReadUpTo, BadItems
    <3>1. Len(file.ta) \in Nat
      BY <1>2, FileType
    <3> QED
      BY <1>2, <1>4, <3>1 DEF NotYet, ReadUpTo, Iota
  <2>5. InNsi' /\ InAmf'
    BY <2>1 DEF InNsi, InAmf
  <2> QED
    BY <1>3, <2>3, <2>4, <2>5 DEF LoaderInv
<1>5. CASE section = "ta"
  <2>1. section' = "amf" /\ file.ta # Missing
    BY <1>1, <1>5 DEF After
  <2>2. TaLoaded
    <3>1. Len(file.ta) \in Nat
      BY <1>2, <2>1, FileType
    <3>2. GoodPrefix(file.ta, BadItems(file.ta)) = item
      BY <1>5, <2>1, <3>1, PrefixIs DEF LoaderInv, InTa
    <3> QED
      BY <1>5, <2>1, <3>2 DEF LoaderInv, InTa, TaLoaded, Iota
  <2>3. LoadedBefore' /\ NotYet'
    BY <1>1, <1>2, <1>5, <2>1, <2>2
    DEF LoadedBefore, NotYet, IsRead, NsiLoaded, TaLoaded
  <2>4. InAmf'
    <3> SUFFICES ASSUME file.amf # Missing PROVE InAmf'
      BY <1>1 DEF InAmf
    <3>1. Len(file.amf) \in Nat
      BY <1>2, FileType
    <3>2. ReadUpTo(file.amf, BadAmfItems(file.amf), 0)
      BY <3>1 DEF ReadUpTo
    <3>3. amf_info_list' = [i \in 1 .. 0 |-> file.amf[i].amfs]
      BY <1>1, <1>2, <1>5 DEF NotYet
    <3>4. AmfsRead'
      <4> SUFFICES ASSUME 0 < Len(file.amf) PROVE Len(TheItem'.amfs) \in Nat
        BY <1>1 DEF AmfsRead
      <4>1. TheItem' = file.amf[1]
        BY <1>1 DEF TheItem
      <4>2. 1 \in 1 .. Len(file.amf)
        BY <3>1
      <4> QED
        BY <1>2, <4>1, <4>2, ItemType
    <3> QED
      BY <1>1, <3>2, <3>3, <3>4 DEF InAmf, ReadUpTo, BadAmfItems
  <2>5. InNsi' /\ InTa'
    BY <2>1 DEF InNsi, InTa
  <2> QED
    BY <1>3, <2>3, <2>4, <2>5 DEF LoaderInv
<1>6. CASE section = "amf"
  <2>1. section' = "true" /\ file.amf # Missing
    BY <1>1, <1>6 DEF After
  <2>2. AmfLoaded
    <3>1. Len(file.amf) \in Nat
      BY <1>2, <2>1, FileType
    <3>2. GoodPrefix(file.amf, BadAmfItems(file.amf)) = item
      BY <1>6, <2>1, <3>1, PrefixIs DEF LoaderInv, InAmf
    <3> QED
      BY <1>6, <2>1, <3>2 DEF LoaderInv, InAmf, AmfLoaded
  <2>3. LoadedBefore' /\ NotYet'
    BY <1>1, <1>2, <1>6, <2>1, <2>2
    DEF LoadedBefore, NotYet, IsRead, NsiLoaded, TaLoaded, AmfLoaded
  <2>4. InNsi' /\ InTa' /\ InAmf'
    BY <2>1 DEF InNsi, InTa, InAmf
  <2> QED
    BY <1>3, <2>3, <2>4 DEF LoaderInv
<1> QED
  BY <1>4, <1>5, <1>6 DEF Reading

LEMMA EndsStep ==
  ASSUME LoaderInv, EndOfSection \/ BadItem \/ BadAmfSet
  PROVE  LoaderInv'
<1>1. CASE EndOfSection
  <2>1. /\ Reading /\ file[section] # Missing /\ EndSection
        /\ item = Len(file[section])
    BY <1>1 DEF EndOfSection
  <2> QED
    BY <2>1, EndSectionStep
<1>2. CASE BadItem
  <2>1. /\ Reading /\ file[section] # Missing /\ EndSection
        /\ section # "amf" /\ item < Len(file[section])
        /\ file[section][item + 1] = "bad"
    BY <1>2 DEF BadItem, AtItem
  <2>2. file[section] \in Seq(Parsed) /\ item \in Nat
    <3>1. IsRead /\ item \in Nat
      BY <2>1 DEF LoaderInv, LoadedBefore, Reading, ListTypes
    <3> QED
      BY <2>1, <3>1, FileType DEF Reading
  <2>3. item + 1 \in BadItems(file[section])
    BY <2>1, <2>2 DEF BadItems
  <2> QED
    BY <2>1, <2>3, EndSectionStep
<1>3. CASE BadAmfSet
  <2>1. /\ Reading /\ section = "amf" /\ file.amf # Missing /\ EndSection
        /\ item < Len(file.amf)
        /\ \/ TheItem.keys = "bad"
           \/ Len(amf_list) < Len(TheItem.amfs) /\ NextAmf = "bad"
    BY <1>3 DEF BadAmfSet, AtItem
  <2>2. IsRead /\ item \in Nat /\ amf_list \in Seq(Amf)
    BY <2>1 DEF LoaderInv, LoadedBefore, ListTypes
  <2>3. item + 1 \in 1 .. Len(file.amf)
    <3>1. Len(file.amf) \in Nat
      BY <2>1, <2>2, FileType
    <3> QED
      BY <2>1, <2>2, <3>1
  <2>4. item + 1 \in BadAmfItems(file.amf)
    <3>1. TheItem.amfs \in Seq(Amf)
      BY <2>1, <2>2, <2>3, ItemType DEF TheItem
    <3>2. CASE TheItem.keys = "bad"
      BY <2>1, <2>2, <2>3, <3>2, ItemType DEF TheItem
    <3>3. CASE Len(amf_list) < Len(TheItem.amfs) /\ NextAmf = "bad"
      <4>1. Len(amf_list) + 1 \in DOMAIN TheItem.amfs
        BY <2>2, <3>1, <3>3
      <4> QED
        BY <2>1, <2>2, <2>3, <3>3, <4>1, ItemType DEF TheItem, NextAmf
    <3> QED
      BY <2>1, <3>2, <3>3
  <2> QED
    BY <2>1, <2>4, EndSectionStep
<1> QED
  BY <1>1, <1>2, <1>3

\* An item of the first two sections is added at the end of its list.
LEMMA ItemStep ==
  ASSUME LoaderInv, NsiItem \/ TaItem
  PROVE  LoaderInv'
<1>1. /\ Reading /\ file[section] # Missing /\ item < Len(file[section])
      /\ section \in {"nsi", "ta"} /\ file[section][item + 1] = "good"
      /\ UNCHANGED <<file, section, amf_list, amf_info_list>> /\ item' = item + 1
  BY DEF NsiItem, TaItem, AtItem
<1>2. IsRead /\ item \in Nat /\ ListTypes
  BY <1>1 DEF LoaderInv, LoadedBefore, ListTypes
<1>3. Len(file[section]) \in Nat
  BY <1>1, <1>2, FileType
<1>4. item + 1 \notin BadItems(file[section])
  BY <1>1 DEF BadItems
<1>5. ReadUpTo(file[section], BadItems(file[section]), item)
  BY <1>1 DEF LoaderInv, InNsi, InTa
<1>6. ReadUpTo(file[section], BadItems(file[section]), item + 1)
  BY <1>1, <1>3, <1>4, <1>5, NextRead
<1>7. /\ Iota(item) \in Seq(Nat) /\ Append(Iota(item), item + 1) = Iota(item + 1)
      /\ Iota(item + 1) \in Seq(Nat)
  <2>1. item + 1 \in Nat
    BY <1>2
  <2> QED
    BY <1>2, <2>1, IotaGrows
<1>8. CASE NsiItem
  <2>1. /\ nsi_info_list' = Append(nsi_info_list, item + 1)
        /\ section = "nsi" /\ ta_info_list' = ta_info_list
    BY <1>8 DEF NsiItem
  <2>2. nsi_info_list' = Iota(item + 1)
    BY <1>1, <1>7, <2>1 DEF LoaderInv, InNsi
  <2>3. ListTypes' /\ NotYet' /\ LoadedBefore'
    BY <1>1, <1>2, <1>7, <2>1, <2>2
    DEF LoaderInv, ListTypes, NotYet, LoadedBefore, IsRead
  <2>4. InNsi' /\ InTa' /\ InAmf'
    BY <1>1, <1>6, <2>1, <2>2 DEF InNsi, InTa, InAmf, ReadUpTo, BadItems
  <2> QED
    BY <2>3, <2>4 DEF LoaderInv
<1>9. CASE TaItem
  <2>1. /\ ta_info_list' = Append(ta_info_list, item + 1)
        /\ section = "ta" /\ nsi_info_list' = nsi_info_list
    BY <1>9 DEF TaItem
  <2>2. ta_info_list' = Iota(item + 1)
    BY <1>1, <1>7, <2>1 DEF LoaderInv, InTa
  <2>3. ListTypes' /\ NotYet' /\ LoadedBefore'
    BY <1>1, <1>2, <1>7, <2>1, <2>2
    DEF LoaderInv, ListTypes, NotYet, LoadedBefore, IsRead, NsiLoaded
  <2>4. InNsi' /\ InTa' /\ InAmf'
    BY <1>1, <1>6, <2>1, <2>2 DEF InNsi, InTa, InAmf, ReadUpTo, BadItems
  <2> QED
    BY <2>3, <2>4 DEF LoaderInv
<1> QED
  BY <1>8, <1>9

LEMMA AppendNext ==
  ASSUME NEW S, NEW seq \in Seq(S), NEW e \in S
  PROVE  /\ Append(seq, e) \in Seq(S) /\ Len(Append(seq, e)) = Len(seq) + 1
         /\ \A i \in 1 .. Len(seq) + 1 :
              Append(seq, e)[i] = IF i = Len(seq) + 1 THEN e ELSE seq[i]
  BY AppendProperties

LEMMA SeqIsFunction ==
  ASSUME NEW S, NEW seq \in Seq(S)
  PROVE  seq = [i \in 1 .. Len(seq) |-> seq[i]]
<1>1. seq \in [1 .. Len(seq) -> S]
  BY LenProperties
<1> QED
  BY <1>1

\* What the two steps in a set have in common.
LEMMA InSet ==
  ASSUME LoaderInv, AtItem, section = "amf"
  PROVE  /\ ListTypes /\ IsRead /\ file.amf # Missing /\ item \in Nat
         /\ Len(file.amf) \in Nat /\ item + 1 \in 1 .. Len(file.amf)
         /\ TheItem.amfs \in Seq(Amf) /\ Len(amf_list) \in Nat
         /\ Len(amf_list) <= Len(TheItem.amfs)
         /\ \A k \in 1 .. Len(amf_list) :
              amf_list[k] = TheItem.amfs[k] /\ amf_list[k] # "bad"
<1>1. /\ ListTypes /\ IsRead /\ file.amf # Missing /\ item \in Nat
      /\ item < Len(file.amf) /\ Len(amf_list) \in Nat
  BY DEF LoaderInv, LoadedBefore, ListTypes, AtItem
<1>2. Len(file.amf) \in Nat
  BY <1>1, FileType
<1>3. item + 1 \in 1 .. Len(file.amf)
  BY <1>1, <1>2
<1>4. TheItem.amfs \in Seq(Amf)
  BY <1>1, <1>3, ItemType DEF TheItem
<1> QED
  BY <1>1, <1>2, <1>3, <1>4 DEF LoaderInv, InAmf, AmfsRead

LEMMA ReadAmfStep ==
  ASSUME LoaderInv, ReadAmf
  PROVE  LoaderInv'
<1>1. /\ AtItem /\ section = "amf"
      /\ Len(amf_list) < Len(TheItem.amfs) /\ NextAmf # "bad"
      /\ amf_list' = Append(amf_list, NextAmf)
      /\ UNCHANGED <<file, section, item, nsi_info_list, ta_info_list,
                     amf_info_list>>
  BY DEF ReadAmf
<1>2. /\ ListTypes /\ file.amf # Missing
      /\ TheItem.amfs \in Seq(Amf) /\ Len(amf_list) \in Nat
      /\ item < Len(file.amf) /\ item \in Nat /\ Len(file.amf) \in Nat
      /\ \A k \in 1 .. Len(amf_list) :
           amf_list[k] = TheItem.amfs[k] /\ amf_list[k] # "bad"
  BY <1>1, InSet
<1>3. amf_list \in Seq(Amf) /\ NextAmf \in Amf
  <2>1. Len(amf_list) + 1 \in 1 .. Len(TheItem.amfs)
    BY <1>1, <1>2
  <2> QED
    BY <1>2, <2>1, ElementOfSeq DEF NextAmf, ListTypes
<1>4. /\ amf_list' \in Seq(Amf) /\ Len(amf_list') = Len(amf_list) + 1
      /\ \A i \in 1 .. Len(amf_list) + 1 :
           amf_list'[i] = IF i = Len(amf_list) + 1 THEN NextAmf ELSE amf_list[i]
  BY <1>1, <1>3, AppendNext
<1>5. TheItem' = TheItem
  BY <1>1 DEF TheItem
<1>6. AmfsRead'
  <2>1. Len(amf_list') <= Len(TheItem'.amfs)
    BY <1>1, <1>2, <1>4, <1>5
  <2>2. ASSUME NEW k \in 1 .. Len(amf_list')
        PROVE  amf_list'[k] = TheItem'.amfs[k] /\ amf_list'[k] # "bad"
    <3>1. k = Len(amf_list) + 1 \/ k \in 1 .. Len(amf_list)
      BY <1>2, <1>4
    <3> QED
      BY <1>1, <1>2, <1>4, <1>5, <3>1 DEF NextAmf
  <2>3. item' # Len(file'.amf)
    BY <1>1, <1>2
  <2> QED
    BY <2>1, <2>2, <2>3 DEF AmfsRead
<1>7. InAmf'
  BY <1>1, <1>2, <1>6 DEF LoaderInv, InAmf, ReadUpTo, BadAmfItems
<1>8. ListTypes' /\ NotYet'
  BY <1>1, <1>2, <1>4 DEF LoaderInv, ListTypes, NotYet
<1>9. LoadedBefore' /\ InNsi' /\ InTa'
  BY <1>1 DEF LoaderInv, LoadedBefore, IsRead, NsiLoaded, TaLoaded, InNsi, InTa
<1> QED
  BY <1>7, <1>8, <1>9 DEF LoaderInv

\* The AMFs of a set are pushed when all of them have been read.
LEMMA PushAmfSetStep ==
  ASSUME LoaderInv, PushAmfSet
  PROVE  LoaderInv'
<1>1. /\ AtItem /\ section = "amf" /\ TheItem.keys = "good"
      /\ Len(amf_list) = Len(TheItem.amfs)
      /\ amf_info_list' = Append(amf_info_list, amf_list)
      /\ item' = item + 1 /\ amf_list' = <<>>
      /\ UNCHANGED <<file, section, nsi_info_list, ta_info_list>>
  BY DEF PushAmfSet
<1>2. /\ ListTypes /\ IsRead /\ file.amf # Missing /\ item \in Nat
      /\ Len(file.amf) \in Nat /\ item + 1 \in 1 .. Len(file.amf)
      /\ TheItem.amfs \in Seq(Amf) /\ Len(amf_list) \in Nat
      /\ \A k \in 1 .. Len(amf_list) :
           amf_list[k] = TheItem.amfs[k] /\ amf_list[k] # "bad"
  BY <1>1, InSet
<1>3. amf_list = file.amf[item + 1].amfs
  <2>1. amf_list \in Seq(Amf)
    BY <1>2 DEF ListTypes
  <2>2. amf_list = TheItem.amfs
    BY <1>1, <1>2, <2>1, SeqEqual
  <2> QED
    BY <2>2 DEF TheItem
<1>4. item + 1 \notin BadAmfItems(file.amf)
  <2>1. TheItem.keys # "bad" /\ \A i \in DOMAIN TheItem.amfs : TheItem.amfs[i] # "bad"
    BY <1>1, <1>2
  <2> QED
    BY <1>2, <2>1, ItemType DEF TheItem
<1>5. /\ ReadUpTo(file.amf, BadAmfItems(file.amf), item)
      /\ amf_info_list = [i \in 1 .. item |-> file.amf[i].amfs]
  BY <1>1, <1>2 DEF LoaderInv, InAmf
<1>6. ReadUpTo(file.amf, BadAmfItems(file.amf), item + 1)
  <2>1. item < Len(file.amf)
    BY <1>2
  <2> QED
    BY <1>2, <1>4, <1>5, <2>1, NextRead
<1>7. /\ amf_info_list' \in Seq(Seq(Amf))
      /\ amf_info_list' = [i \in 1 .. item + 1 |-> file.amf[i].amfs]
  <2>1. amf_info_list \in Seq(Seq(Amf)) /\ amf_list \in Seq(Amf)
    BY <1>2 DEF ListTypes
  <2>2. Len(amf_info_list) = item
    BY <1>2, <1>5, <2>1
  <2>3. /\ amf_info_list' \in Seq(Seq(Amf)) /\ Len(amf_info_list') = item + 1
        /\ \A i \in 1 .. item + 1 :
             amf_info_list'[i] = IF i = item + 1 THEN amf_list ELSE amf_info_list[i]
    BY <1>1, <2>1, <2>2, AppendNext
  <2> DEFINE sets == [i \in 1 .. item + 1 |-> file.amf[i].amfs]
  <2>4. ASSUME NEW i \in 1 .. item + 1
        PROVE  amf_info_list'[i] = file.amf[i].amfs
    <3>1. CASE i = item + 1
      BY <1>3, <2>3, <3>1
    <3>2. CASE i # item + 1
      <4>1. i \in 1 .. item
        BY <1>2, <3>2
      <4>2. amf_info_list[i] = file.amf[i].amfs
        BY <1>5, <4>1
      <4> QED
        BY <2>3, <3>2, <4>2
    <3> QED
      BY <3>1, <3>2
  <2>5. amf_info_list' = [i \in 1 .. item + 1 |-> amf_info_list'[i]]
    BY <2>3, SeqIsFunction
  <2>6. [i \in 1 .. item + 1 |-> amf_info_list'[i]] = sets
    BY <2>4
  <2> QED
    BY <2>3, <2>5, <2>6
<1>8. AmfsRead'
  <2> SUFFICES ASSUME item' < Len(file'.amf)
               PROVE  0 <= Len(TheItem'.amfs)
    BY <1>1 DEF AmfsRead
  <2>1. item' + 1 \in 1 .. Len(file.amf)
    BY <1>1, <1>2
  <2>2. file.amf[item' + 1].amfs \in Seq(Amf)
    BY <1>2, <2>1, ItemType
  <2>3. TheItem'.amfs \in Seq(Amf)
    BY <1>1, <2>2 DEF TheItem
  <2> QED
    BY <2>3
<1>9. InAmf'
  BY <1>1, <1>6, <1>7, <1>8 DEF InAmf, ReadUpTo, BadAmfItems
<1>10. ListTypes' /\ NotYet'
  BY <1>1, <1>2, <1>7 DEF LoaderInv, ListTypes, NotYet
<1>11. LoadedBefore' /\ InNsi' /\ InTa'
  BY <1>1 DEF LoaderInv, LoadedBefore, IsRead, NsiLoaded, TaLoaded, InNsi, InTa
<1> QED
  BY <1>9, <1>10, <1>11 DEF LoaderInv

LEMMA SectionMissingStep ==
  ASSUME LoaderInv, SectionMissing
  PROVE  LoaderInv'
  BY DEF SectionMissing, LoaderInv, ListTypes, LoadedBefore, NotYet, InNsi, InTa,
         InAmf

LEMMA LoaderStep ==
  ASSUME LoaderInv, LoaderNext
  PROVE  LoaderInv'
  BY LoadFileStep, EndsStep, ItemStep, ReadAmfStep, PushAmfSetStep,
     SectionMissingStep
  DEF LoaderNext

LEMMA LoaderSame ==
  ASSUME LoaderInv, UNCHANGED loader_vars
  PROVE  LoaderInv'
<1>1. UNCHANGED <<file, section, item, amf_list, nsi_info_list, ta_info_list,
                  amf_info_list>>
  BY DEF loader_vars
<1>2. ListTypes' /\ NotYet'
  BY <1>1 DEF LoaderInv, ListTypes, NotYet
<1>3. LoadedBefore'
  BY <1>1 DEF LoaderInv, LoadedBefore, IsRead, NsiLoaded, TaLoaded, AmfLoaded
<1>4. InNsi' /\ InTa'
  BY <1>1 DEF LoaderInv, InNsi, InTa
<1>5. InAmf'
  <2>1. AmfsRead' <=> AmfsRead
    BY <1>1 DEF AmfsRead, TheItem
  <2> QED
    BY <1>1, <2>1 DEF LoaderInv, InAmf
<1> QED
  BY <1>2, <1>3, <1>4, <1>5 DEF LoaderInv

LEMMA LoaderStart == LoaderInit => LoaderInv
  BY EmptySeq
  DEF LoaderInit, LoaderInv, ListTypes, LoadedBefore, NotYet, InNsi, InTa, InAmf

LEMMA LoaderTypes == LoaderInv => LoaderTypeOK
  BY DEF LoaderInv, ListTypes, LoaderTypeOK, InAmf, AmfsRead, AtItem

LEMMA OptionsStart == OptionsInit => OptionsInv
<1> SUFFICES ASSUME OptionsInit PROVE OptionsInv
  OBVIOUS
<1>1. argv \in Seq(Argument) /\ TakesNext(argv)
  BY CommandLinesAssumption DEF OptionsInit
<1>2. index = 0 /\ Len(argv) \in Nat
  BY <1>1 DEF OptionsInit
<1>3. \A i \in 1 .. index : FALSE
  BY <1>2
<1>4. ReadArguments
  <2>1. /\ result = TRUE /\ m_log_stdout = FALSE /\ m_log_rot_file_log = FALSE
        /\ m_libconfigcfg = NoFileName /\ index \in 0 .. Len(argv)
    BY <1>2 DEF OptionsInit
  <2> QED
    BY <1>1, <1>3, <2>1 DEF ReadArguments
<1>5. Ended /\ Validated
  BY <1>3 DEF OptionsInit, Ended, Validated
<1> QED
  BY <1>4, <1>5 DEF OptionsInv

LEMMA OptionsSame ==
  ASSUME OptionsInv, UNCHANGED options_vars
  PROVE  OptionsInv'
<1>1. UNCHANGED <<argv, index, result, m_libconfigcfg, m_log_stdout,
                  m_log_rot_file_log, state>>
  BY DEF options_vars
<1>2. ReadArguments'
  BY <1>1 DEF OptionsInv, ReadArguments, TakesNext
<1>3. Ended' /\ Validated'
  BY <1>1 DEF OptionsInv, Ended, Validated, Names
<1> QED
  BY <1>2, <1>3 DEF OptionsInv

-----------------------------------------------------------------------------
(* The start *)

MainPlaces == {"options", "base-configuration", "slice-configuration", "server",
               "failed", "exited", "terminated"}

(***************************************************************************)
(* What main() knows where it is: past the line, that it was accepted;     *)
(* where the process has ended or serves, how parse_config has returned.   *)
(***************************************************************************)
StartInv ==
  /\ main \in MainPlaces
  /\ LoaderInv
  /\ Validated
  /\ main = "options" => OptionsInv
  /\ main \in {"base-configuration", "slice-configuration", "server",
               "terminated"} => state = "true"
  /\ main = "server" => section = "true"

LEMMA StartInit == StartupInit => StartInv
  BY LoaderStart, OptionsStart DEF StartupInit, StartInv, MainPlaces, OptionsInv

LEMMA StartStep == StartInv /\ [StartupNext]_startup_vars => StartInv'
<1> SUFFICES ASSUME StartInv, [StartupNext]_startup_vars PROVE StartInv'
  OBVIOUS
<1>1. CASE StepOptions
  <2>1. OptionsInv'
    BY <1>1, OptionsStep DEF StepOptions, StartInv
  <2>2. LoaderInv'
    BY <1>1, LoaderSame DEF StepOptions, StartInv
  <2> QED
    BY <1>1, <2>1, <2>2 DEF StepOptions, StartInv, OptionsInv
<1>2. CASE UseOptions
  <2>1. LoaderInv'
    BY <1>2, LoaderSame DEF UseOptions, StartInv
  <2>2. /\ main' \in {"base-configuration", "failed", "exited"}
        /\ main' = "base-configuration" => state' = "true"
    BY <1>2 DEF UseOptions, StartInv, OptionsInv, Ended
  <2>3. Validated'
    BY <1>2 DEF UseOptions, StartInv, Validated
  <2> QED
    BY <2>1, <2>2, <2>3 DEF StartInv, MainPlaces
<1>3. CASE ReadBase
  <2>1. LoaderInv' /\ Validated' /\ state' = state
    BY <1>3, LoaderSame DEF ReadBase, StartInv, Validated, options_vars
  <2> QED
    BY <1>3, <2>1 DEF ReadBase, StartInv, MainPlaces
<1>4. CASE StepLoader
  <2>1. LoaderInv'
    BY <1>4, LoaderStep DEF StepLoader, StartInv
  <2>2. Validated' /\ state' = state
    BY <1>4 DEF StepLoader, StartInv, Validated, options_vars
  <2> QED
    BY <1>4, <2>1, <2>2 DEF StepLoader, StartInv
<1>5. CASE UseConfiguration
  <2>1. LoaderInv' /\ Validated' /\ state' = state /\ section' = section
    BY <1>5, LoaderSame
    DEF UseConfiguration, StartInv, Validated, options_vars, loader_vars
  <2> QED
    BY <1>5, <2>1 DEF UseConfiguration, StartInv, MainPlaces
<1>6. CASE UNCHANGED startup_vars
  <2>1. UNCHANGED <<options_vars, loader_vars, main>>
    BY <1>6 DEF startup_vars
  <2>2. LoaderInv'
    BY <2>1, LoaderSame DEF StartInv
  <2>3. main = "options" => OptionsInv'
    BY <2>1, OptionsSame DEF StartInv
  <2>4. UNCHANGED <<result, m_libconfigcfg, state, section>>
    BY <2>1 DEF options_vars, loader_vars
  <2> QED
    BY <2>1, <2>2, <2>3, <2>4 DEF StartInv, Validated
<1> QED
  BY <1>1, <1>2, <1>3, <1>4, <1>5, <1>6 DEF StartupNext

THEOREM StartInvIsInvariant == StartupSpec => []StartInv
  BY StartInit, StartStep, PTL DEF StartupSpec

\* The types of the loader's variables, while main() parses and reads.
THEOREM LoaderTypesCorrect == StartupSpec => []LoaderTypeOK
<1>1. StartInv => LoaderTypeOK
  BY LoaderTypes DEF StartInv
<1> QED
  BY <1>1, StartInvIsInvariant, PTL

(***************************************************************************)
(* Options::parse accepts exactly the lines without a wrong option that    *)
(* name a file, however long they are.                                     *)
(***************************************************************************)
THEOREM LinesAccepted == StartupSpec => []LineIsAccepted
<1>1. StartInv => LineIsAccepted
  BY OptionsAccept DEF StartInv, LineIsAccepted
<1> QED
  BY <1>1, StartInvIsInvariant, PTL

(***************************************************************************)
(* parse_config loads of each section what comes before its first bad      *)
(* item, whatever was wrong in the sections before.                        *)
(***************************************************************************)
THEOREM PrefixesLoaded == StartupSpec => []LoadedArePrefixes
<1>1. LoaderInv => LoadedArePrefixes
  BY DEF LoaderInv, LoadedBefore, LoadedArePrefixes, Loaded
<1> QED
  BY <1>1, StartInvIsInvariant, PTL DEF StartInv

\* main() comes to the server only with a right line and a whole file.
THEOREM ServedAsRead == StartupSpec => []ServesWhatWasRead
<1>1. ASSUME StartInv, main = "server"
      PROVE  /\ result /\ m_libconfigcfg # NoFileName
             /\ LoadedBefore /\ section = "true"
  BY <1>1 DEF StartInv, LoaderInv, Validated
<1>2. StartInv => ServesWhatWasRead
  BY <1>1 DEF ServesWhatWasRead, LoadedBefore, IsRead, Loaded
<1> QED
  BY <1>2, StartInvIsInvariant, PTL

-----------------------------------------------------------------------------
(* The start of the process *)

LEMMA StartMaps == StartupInit => Process!Init
  BY DEF StartupInit, OptionsInit, Process!Init, process_main, process_exit

LEMMA StepMaps ==
  ASSUME StartInv, [StartupNext]_startup_vars
  PROVE  [Process!Next]_(Process!process_vars)
<1>1. ASSUME UNCHANGED <<process_main, process_exit>>
      PROVE  UNCHANGED Process!process_vars
  BY <1>1 DEF Process!process_vars
<1>2. CASE StepOptions
  <2>1. main = "options" /\ main' = "options"
    BY <1>2 DEF StepOptions
  <2>2. UNCHANGED <<process_main, process_exit>>
    BY <2>1 DEF process_main, process_exit
  <2> QED
    BY <1>1, <2>2
<1>3. CASE UseOptions
  <2>1. process_main = "options" /\ process_exit = "running"
    BY <1>3 DEF UseOptions, process_main, process_exit
  <2>2. \/ process_main' = "configuration" /\ process_exit' = "running"
        \/ process_main' = "options" /\ process_exit' \in {"failed", "exited"}
    BY <1>3 DEF UseOptions, StartInv, OptionsInv, Ended, process_main, process_exit
  <2>3. Process!ParseOptions
    BY <2>1, <2>2
    DEF Process!ParseOptions, Process!AtMain, Process!MainGoesTo, Process!MainEnds
  <2> QED
    BY <2>3 DEF Process!Next, Process!MainThread
<1>4. CASE ReadBase
  <2>1. state = "true" /\ state' = "true"
    BY <1>4 DEF ReadBase, StartInv, options_vars
  <2>2. process_main = "configuration" /\ process_exit = "running"
    BY <1>4 DEF ReadBase, process_main, process_exit
  <2>3. /\ process_main' = "configuration"
        /\ process_exit' \in {"running", "failed"}
    BY <1>4, <2>1 DEF ReadBase, process_main, process_exit
  <2>4. CASE process_exit' = "running"
    BY <1>1, <2>2, <2>3, <2>4
  <2>5. CASE process_exit' = "failed"
    <3>1. Process!ReadConfiguration
      BY <2>2, <2>3, <2>5 DEF Process!ReadConfiguration, Process!AtMain,
                              Process!MainGoesTo, Process!MainEnds
    <3> QED
      BY <3>1 DEF Process!Next, Process!MainThread
  <2> QED
    BY <2>3, <2>4, <2>5
<1>5. CASE StepLoader
  <2>1. main = "slice-configuration" /\ main' = "slice-configuration"
    BY <1>5 DEF StepLoader
  <2>2. UNCHANGED <<process_main, process_exit>>
    BY <2>1 DEF process_main, process_exit
  <2> QED
    BY <1>1, <2>2
<1>6. CASE UseConfiguration
  <2>1. state = "true" /\ state' = "true"
    BY <1>6 DEF UseConfiguration, StartInv, options_vars
  <2>2. process_main = "configuration" /\ process_exit = "running"
    BY <1>6 DEF UseConfiguration, process_main, process_exit
  <2>3. \/ process_main' = "pid-file" /\ process_exit' = "running"
        \/ /\ process_main' = "configuration"
           /\ process_exit' \in {"failed", "crashed"}
    BY <1>6, <2>1 DEF UseConfiguration, process_main, process_exit
  <2>4. Process!ReadConfiguration
    BY <2>2, <2>3 DEF Process!ReadConfiguration, Process!AtMain,
                      Process!MainGoesTo, Process!MainEnds
  <2> QED
    BY <2>4 DEF Process!Next, Process!MainThread
<1>7. CASE UNCHANGED startup_vars
  <2>1. main' = main /\ state' = state
    BY <1>7 DEF startup_vars, options_vars
  <2>2. UNCHANGED <<process_main, process_exit>>
    BY <2>1 DEF process_main, process_exit
  <2> QED
    BY <1>1, <2>2
<1> QED
  BY <1>2, <1>3, <1>4, <1>5, <1>6, <1>7 DEF StartupNext

(***************************************************************************)
(* Every start is a behaviour of the process: what the line and the files  *)
(* decide are the outcomes that the process allows at its first two steps, *)
(* and the server is never reached otherwise.                              *)
(***************************************************************************)
THEOREM StartIsOfProcess == StartupSpec => StartsTheProcess
<1>1. StartupInit => Process!Init
  BY StartMaps
<1>2. StartInv /\ [StartupNext]_startup_vars => [Process!Next]_(Process!process_vars)
  BY StepMaps
<1>3. StartupSpec => Process!Spec
  BY <1>1, <1>2, StartInvIsInvariant, PTL DEF StartupSpec, Process!Spec
<1> QED
  BY <1>3 DEF StartsTheProcess
=============================================================================
