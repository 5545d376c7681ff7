----------------------------- MODULE Inscriptions -----------------------------
(***************************************************************************)
(* index_inscriptions of the compressor: where the inscriptions of the     *)
(* inputs of one transaction and its new ones go.  An inscription is an    *)
(* index in the transaction that made it, and its place an offset in an    *)
(* output; a flotsam is an inscription that floats between the two.  An    *)
(* envelope says which input it is in, whether it has a field that is even *)
(* and unknown, another irregularity or a pointer, and its BRC-20 message. *)
(***************************************************************************)
EXTENDS Brc20

CONSTANTS
  JubileeHeight,          \* from here on what was a curse is a vindication
  MaxOffset               \* bound: the sats of one transaction

NoCounters == [cursed |-> 0, blessed |-> 0, next |-> 0, unbound |-> 0, lost |-> 0]

-----------------------------------------------------------------------------
(* Inputs: s.flot floats, s.marks[o] is the first inscription at an offset *)
(* and how many there are, s.total the value so far, s.n the new ones      *)

Marked(s, offset, id) ==
  [s EXCEPT !.marks = (offset :> IF offset \in DOMAIN s.marks
                                 THEN [s.marks[offset] EXCEPT !.count = @ + 1]
                                 ELSE [id |-> id, count |-> 1]) @@ @]

\* An inscription of the output being spent, with its unused transfer.
OldInscription(ref, body, s, placed) ==
  LET id == placed[2]
      offset == s.total + placed[1]
      floats == [s EXCEPT !.flot = Append(@, [id |-> id, offset |-> offset, new |-> FALSE])]
      used == IF id \in DOMAIN body.unused
              THEN [floats EXCEPT !.unused =
                      (id :> [transfer |-> body.unused[id], from |-> body.script, at |-> ref]) @@ @]
              ELSE floats
  IN  Marked(used, offset, id)

\* A second inscription of a sat is a curse, unless the first was cursed too.
Reinscribes(s, cursed) ==
  /\ s.total \in DOMAIN s.marks
  /\ s.marks[s.total].count > 1 \/ s.marks[s.total].id \notin cursed

Irregular(env) == env.even \/ env.odd \/ env.input # 1 \/ env.pointer # None

NewInscription(tx, txid, body, height, cursed, s, env) ==
  LET id == <<txid, s.n>>
      curse == Irregular(env) \/ Reinscribes(s, cursed)
      offset == IF env.pointer # None /\ env.pointer < OutputValue(tx)
                THEN env.pointer ELSE s.total
      unbound == body.value = 0 \/ env.even
      flotsam == [id |-> id, offset |-> offset, new |-> TRUE, pointer |-> env.pointer,
                  unbound |-> unbound,
                  cursed |-> curse /\ height < JubileeHeight,
                  vindicated |-> curse /\ height >= JubileeHeight]
      floats == [s EXCEPT !.flot = Append(@, flotsam), !.n = @ + 1,
                          !.again = IF ~curse /\ s.total \in DOMAIN s.marks
                                    THEN @ \union {id} ELSE @,
                          !.msgs = IF env.msg # None /\ ~unbound
                                   THEN Append(@, <<id, env.msg>>) ELSE @]
  IN  Marked(floats, offset, id)

FromInput(tx, txid, resolver, height, cursed, s, i) ==
  LET body == resolver[tx.ins[i]]
      olds == FoldLeft(LAMBDA u, p : OldInscription(tx.ins[i], body, u, p), s, body.insc)
      news == FoldLeft(LAMBDA u, e : NewInscription(tx, txid, body, height, cursed, u, e),
                       olds, SelectSeq(tx.envs, LAMBDA e : e.input = i))
  IN  [news EXCEPT !.total = @ + body.value]

Floating(tx, txid, resolver, height, cursed) ==
  FoldLeft(LAMBDA s, i : FromInput(tx, txid, resolver, height, cursed, s, i),
           [flot |-> <<>>, marks |-> << >>, total |-> 0, n |-> 0, again |-> {},
            unused |-> << >>, msgs |-> <<>>],
           [i \in DOMAIN tx.ins |-> i])

PotentialParents(s) == {f.id : f \in ToSet(s.flot)}

-----------------------------------------------------------------------------
(* Outputs *)

\* The sort by offset is stable.
ByOffset(flot) ==
  FlattenSeq([o \in 1 .. MaxOffset + 1 |-> SelectSeq(flot, LAMBDA f : f.offset = o - 1)])

StartOf(tx, v) == OutputValue([outs |-> SubSeq(tx.outs, 1, v - 1)])

\* The place of a sat in the outputs.
PlaceOf(tx, sat) ==
  LET v == CHOOSE w \in DOMAIN tx.outs :
             StartOf(tx, w) <= sat /\ sat < StartOf(tx, w) + tx.outs[w].value
  IN  [out |-> v, offset |-> sat - StartOf(tx, v)]

Satpoint(tx, f) ==
  PlaceOf(tx, IF f.new /\ f.pointer # None /\ f.pointer < OutputValue(tx)
              THEN f.pointer ELSE f.offset)

\* A mutant: an inscription that is bound to no sat keeps its place.
UpdateLocationBound(u, f, place) ==
  LET numbered == IF f.cursed THEN [u.counters EXCEPT !.cursed = @ + 1, !.next = @ + 1]
                  ELSE [u.counters EXCEPT !.blessed = @ + 1, !.next = @ + 1]
  IN  IF ~f.new THEN [u EXCEPT !.out = Append(@, <<place, f.id>>)]
      ELSE [out |-> Append(u.out, <<place, f.id>>),
            numbers |-> (f.id :> u.counters.next) @@ u.numbers,
            counters |-> IF f.unbound THEN [numbered EXCEPT !.unbound = @ + 1] ELSE numbered,
            cursed |-> IF f.cursed \/ f.vindicated THEN u.cursed \union {f.id} ELSE u.cursed]

\* update_inscription_location: a new inscription gets its number; one that is
\* bound to no sat is in no output.
UpdateLocation(u, f, place) ==
  LET numbered == IF f.cursed THEN [u.counters EXCEPT !.cursed = @ + 1, !.next = @ + 1]
                  ELSE [u.counters EXCEPT !.blessed = @ + 1, !.next = @ + 1]
  IN  IF ~f.new THEN [u EXCEPT !.out = Append(@, <<place, f.id>>)]
      ELSE [out |-> Append(u.out, <<IF f.unbound THEN None ELSE place, f.id>>),
            numbers |-> (f.id :> u.counters.next) @@ u.numbers,
            counters |-> IF f.unbound THEN [numbered EXCEPT !.unbound = @ + 1] ELSE numbered,
            cursed |-> IF f.cursed \/ f.vindicated THEN u.cursed \union {f.id} ELSE u.cursed]

\* The script of the output an inscription is in now.
ScriptOf(tx, out, id) ==
  LET places == {p \in ToSet(out) : p[2] = id /\ p[1] # None}
  IN  IF places = {} THEN None ELSE tx.outs[(CHOOSE p \in places : TRUE)[1].out].script

-----------------------------------------------------------------------------
(* The whole of index_inscriptions.  t is the counters, the cursed and the *)
(* BRC-20 tables; block.reward and block.lost are carried to the coinbase. *)

IsCoinbase(tx) == tx.ins = <<>>

Sorted(tx, s, block) == ByOffset(IF IsCoinbase(tx) THEN s.flot \o block.lost ELSE s.flot)
Kept(tx, sorted) == SelectSeq(sorted, LAMBDA f : f.offset < OutputValue(tx))
Left(tx, sorted) == SelectSeq(sorted, LAMBDA f : f.offset >= OutputValue(tx))

\* The sats left by the coinbase are lost, those left by others are its fee.
Located(tx, t, block, sorted) ==
  FoldLeft(LAMBDA u, f : UpdateLocation(u, f, IF f.offset < OutputValue(tx)
                                              THEN Satpoint(tx, f) ELSE None),
           [out |-> <<>>, numbers |-> block.numbers, counters |-> t.counters, cursed |-> t.cursed],
           IF IsCoinbase(tx) THEN sorted ELSE Kept(tx, sorted))

\* A transfer that went to the fee returns to its sender, ...
Returned(tx, s, b, left) ==
  IF IsCoinbase(tx) THEN b
  ELSE FoldLeft(LAMBDA c, f : IF f.id \notin DOMAIN s.unused THEN c
                  ELSE Credit(c, f.id, s.unused[f.id], s.unused[f.id].from), b, left)

\* ... and any other goes to the owner of the output.
Moved(tx, s, u, b) ==
  FoldLeft(LAMBDA c, p : IF p[2] \notin DOMAIN s.unused THEN c
             ELSE Credit(c, p[2], s.unused[p[2]], ScriptOf(tx, u.out, p[2])), b, u.out)

Messages(tx, s, u, b) ==
  FoldLeft(LAMBDA c, m : Message(c, m[1], m[2], ScriptOf(tx, u.out, m[1]), PotentialParents(s)),
           b, s.msgs)

InOutput(out, v) == SelectSeq(out, LAMBDA p : p[1] # None /\ p[1].out = v)
Offsets(out) == [k \in DOMAIN out |-> <<out[k][1].offset, out[k][2]>>]

Carried(tx, block, s, u, left) ==
  [reward |-> block.reward + s.total - OutputValue(tx),
   lost |-> block.lost \o [k \in DOMAIN left |->
                             [left[k] EXCEPT !.offset = block.reward + @ - OutputValue(tx)]],
   numbers |-> u.numbers, again |-> block.again \union s.again]

Result(tx, block, s, left, u, b) ==
  [insc |-> [v \in DOMAIN tx.outs |-> Offsets(InOutput(u.out, v))],
   unused |-> b.unused, log |-> b.log,
   block |-> IF IsCoinbase(tx) THEN [block EXCEPT !.numbers = u.numbers]
             ELSE Carried(tx, block, s, u, left),
   tables |-> [cursed |-> u.cursed, brc |-> b.b,
               counters |-> IF IsCoinbase(tx)
                            THEN [u.counters EXCEPT !.lost = @ + block.reward - OutputValue(tx)]
                            ELSE u.counters]]

Settled(tx, t, block, s, left, u) ==
  Result(tx, block, s, left, u,
    Messages(tx, s, u,
      Moved(tx, s, u, Returned(tx, s, [b |-> t.brc, log |-> <<>>, unused |-> << >>], left))))

Placed(tx, t, block, s, sorted) ==
  Settled(tx, t, block, s, Left(tx, sorted), Located(tx, t, block, sorted))

Floats(tx, t, block, s) == Placed(tx, t, block, s, Sorted(tx, s, block))

IndexInscriptions(tx, txid, resolver, t, height, block) ==
  Floats(tx, t, block, Floating(tx, txid, resolver, height, t.cursed))
=============================================================================
