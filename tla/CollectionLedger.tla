-------------------------- MODULE CollectionLedger --------------------------
(***************************************************************************)
(* What a local root dataset promises to the sessions that are merged into *)
(* it, through every failure and crash of a merge: it only grows, each     *)
(* session's episodes come in once and in order, and what it started from  *)
(* stays in it.                                                            *)
(***************************************************************************)
EXTENDS Naturals

CONSTANTS Session, MaxEpisodes, OnHub, HubLedger, None

VARIABLE merged   \* None, or whether the Hub's data is in it and how far each session is

Start(ledger, seeded) == [seeded |-> seeded, ledger |-> ledger]

NoLedger == [s \in Session |-> 0]

Init == merged \in {None, Start(NoLedger, TRUE)}

(* Without a local root the Hub's is taken, if there is one, and with it   *)
(* what its ledger says.                                                   *)
FromHub == IF OnHub THEN Start(HubLedger, TRUE) ELSE Start(NoLedger, FALSE)

Soil == IF merged = None THEN FromHub ELSE merged

Append(s, n) ==
    /\ n > Soil.ledger[s]
    /\ merged' = [Soil EXCEPT !.ledger[s] = n]

Next == \E s \in Session : \E n \in 1..MaxEpisodes : Append(s, n)

Spec == Init /\ [][Next]_merged

-----------------------------------------------------------------------------
(* What follows for whoever trains on the root: no merge takes away what   *)
(* was in it (collection_merge.py:201-226).                                *)
OnlyGrows ==
    [][merged # None =>
          /\ merged' # None
          /\ merged'.seeded = merged.seeded
          /\ \A s \in Session : merged'.ledger[s] >= merged.ledger[s]]_merged
=============================================================================
