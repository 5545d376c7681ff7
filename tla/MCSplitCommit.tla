--------------------------- MODULE MCSplitCommit ---------------------------
(***************************************************************************)
(* A small chain for SplitCommit: g <- a <- b <- c with a rival block b2 on *)
(* top of a.  Every block moves a balance, and creates or spends an       *)
(* output.                                                                 *)
(***************************************************************************)
EXTENDS SplitCommit, TLC

CONSTANTS g, a, b, b2, c

Balance == 1
Output  == 3

MCValues == 0..3
MCKeys   == 0..3
MCPoints == {g, a, b, b2, c}
MCHeight == [p \in MCPoints |-> CASE p = g -> 1 [] p = a -> 2 [] p \in {b, b2} -> 3 [] p = c -> 4]
MCParent == [p \in MCPoints |-> CASE p = g -> Origin [] p = a -> g [] p \in {b, b2} -> a [] p = c -> b]

Effects(p) ==
  CASE p = g  -> (Balance :> Increment(2) @@ Output :> SetOnce(1))
    [] p = a  -> (Balance :> Increment(1))
    [] p = b  -> (Balance :> Decrement(3) @@ Output :> Delete)
    [] p = b2 -> (Balance :> Decrement(1) @@ Output :> Delete)
    [] p = c  -> (Balance :> Increment(1))

MCActs ==
  [p \in MCPoints |-> [k \in MCKeys |->
     IF k = CursorKey THEN Set(p)
     ELSE IF k \in DOMAIN Effects(p) THEN Effects(p)[k] ELSE NoAction]]

MCIdeal ==
  LET S[n \in 0..4] ==
        IF n = 0 THEN Origin :> [k \in MCKeys |-> Absent]
        ELSE S[n - 1] @@ [p \in {q \in MCPoints : MCHeight[q] = n} |->
               [k \in MCKeys |-> ExecOption(MCActs[p][k], S[n - 1][MCParent[p]][k])]]
  IN  S[4]
=============================================================================
