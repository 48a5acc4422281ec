--------------------------- MODULE MCNssfStartup ---------------------------
(***************************************************************************)
(* Command lines of up to three arguments, of which only the last may lack *)
(* its own, and files with up to two items in a section and two AMFs in a  *)
(* set.                                                                    *)
(***************************************************************************)
EXTENDS NssfStartup

CONSTANTS f1, f2  \* file names

MCCommandLines == {line \in BoundedSeq(Argument, 3) : TakesNext(line)}

MCItems == BoundedSeq(Parsed, 2) \cup {Missing}

MCAmfSets == [keys : {"good"}, amfs : BoundedSeq(Amf, 2)]
             \cup [keys : {"bad"}, amfs : {<<"good">>}]

MCFiles == [nsi : MCItems, ta : {Missing, <<"good", "bad">>, <<"good">>},
            amf : {Missing, <<>>}]
           \cup [nsi : {<<"good", "bad">>}, ta : MCItems,
                 amf : BoundedSeq(MCAmfSets, 2)]
           \cup {NoFile, Malformed}
=============================================================================
