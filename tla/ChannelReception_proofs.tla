------------------------ MODULE ChannelReception_proofs -----------------------
(***************************************************************************)
(* Reception of channel messages and files, for any events, chains and     *)
(* limits: a source enters the transcript once, no commit of one lane      *)
(* overwrites the checkpoint of the other, and plaintext is published only *)
(* under the authority of the current channel state.                       *)
(*                                                                         *)
(* What makes the invariant inductive is what the private candidates of    *)
(* the two lanes remember of the durable rows.  A candidate prepared from  *)
(* the revision a row still has is exactly one open ahead of that row; a   *)
(* turn's second candidate on a chain is one open ahead of its first; and  *)
(* a candidate whose source is still the current one was prepared after    *)
(* the projection had reached that source.                                 *)
(***************************************************************************)
EXTENDS ChannelReception, SenderKey_proofs, WellFoundedInduction

PendingRow == [ordinal : Nat, reason : {0, 1, 3}, job : Nat \cup {None},
               key : Nat \cup {-1}, wake_at : Nat]
Sources == [job : Nat, rev : Nat]
Candidates == [event : Events, chain : Seeds, revision : Nat, key_revision : Nat,
               src : Sources, next : ChainType]
Notes == [event : Events, key : Nat \cup {-1}, wake_at : Nat \cup {None}]
LaneType == [pc : {"idle", "turn", "page", "body", "note", "commit"},
             bodies : Int, pages : Int, cands : Seq(Candidates), ids : SUBSET Events,
             more : BOOLEAN, note : Notes \cup {None}]
Orders == [job : Nat, rev : Nat, ready : BOOLEAN, rows : Seq(Events)]

(* The durable rows: a receiver row holds a well-formed chain of its seed.   *)
RowOk(row, c) ==
    row # None => /\ row \in ReceiverRow
                  /\ Sound(row.chain)
                  /\ row.chain.chain_key.seed = c

RowsOk(rec) == DOMAIN rec = Chains /\ \A c \in Chains : RowOk(rec[c], c)

(* The next checkpoint of p is one open ahead of the chain.                  *)
Grown(chain, p) ==
    /\ Sound(p.next)
    /\ p.next.chain_key.seed = p.chain
    /\ Spent(p.next) = Spent(chain) \cup {Ev[p.event].n} \cup Evicted(chain, Ev[p.event].n)

(* A candidate names its event, and was authorised by the current state if   *)
(* its source still is the source.                                           *)
Proper(p) ==
    /\ p \in Candidates
    /\ p.chain = Ev[p.event].chain
    /\ Ev[p.event].kind \in Kinds

SourceOf(o) == [job |-> o.job, rev |-> o.rev]

Authorised(p, o, cur) ==
    /\ p.src.job <= o.job /\ p.src.rev <= o.rev
    /\ p.src = SourceOf(o) => cur = SourceOf(o)

(* A candidate was prepared from the row or from one the row has replaced.   *)
FromRow(p, rec) ==
    /\ rec[p.chain] # None
    /\ p.revision <= rec[p.chain].revision
    /\ p.revision = rec[p.chain].revision => Grown(rec[p.chain].chain, p)

(* The second candidate of a turn, perhaps on top of the first.              *)
Stacked(p, q, rec) ==
    IF q.chain = p.chain
    THEN q.revision = p.revision + 1 /\ Grown(p.next, q)
    ELSE FromRow(q, rec)

(* The candidates of a turn.                                                 *)
CandsOk(cs, o, cur, rec) ==
    /\ cs \in Seq(Candidates) /\ Len(cs) <= 2
    /\ \A i \in 1..Len(cs) : Proper(cs[i]) /\ Authorised(cs[i], o, cur)
    /\ Len(cs) >= 1 => FromRow(cs[1], rec)
    /\ Len(cs) = 2 => Stacked(cs[1], cs[2], rec)

FileOk(f, o, cur, rec) ==
    f # None => Proper(f) /\ Authorised(f, o, cur) /\ FromRow(f, rec) /\ Ev[f.event].kind = "file"

Waits(e, pend) == pend[e] # None /\ Ev[e].kind = "message"

(* Where the message lane is in its turn.                                    *)
LaneOk(l, pend) ==
    /\ l \in LaneType
    /\ l.pc = "turn" => l.cands = <<>>
    /\ l.pc \in {"page", "body", "note"} => Len(l.cands) <= 1
    /\ l.pc = "body" => l.ids # {}
    /\ l.pc \in {"body", "note"} => \A e \in l.ids : Waits(e, pend)
    /\ l.pc = "note" => /\ l.note \in Notes
                        /\ Waits(l.note.event, pend)
                        /\ l.note.event \notin l.ids

(* The page's reads happen under the log's lock.                             *)
Locked == LogLocked => require_source(current)

(* A chain without a receiver row has opened nothing.                        *)
Unheld == \A c \in Chains : receivers[c] = None => OpenedAt(c) = {}

Store ==
    /\ order \in Orders
    /\ proj \in [job : Nat, next : Nat]
    /\ pending \in [Events -> PendingRow \cup {None}]
    /\ \A e \in Events : pending[e] # None => Ev[e].kind \in Kinds
    /\ processed \subseteq Events
    /\ transcript \in Seq(Events)
    /\ DOMAIN relinquished = Chains
    /\ RowsOk(receivers)
    /\ ExactlyOnce
    /\ ConsumedIsOpened
    /\ Unheld

Lanes ==
    /\ Locked
    /\ LaneOk(lane, pending)
    /\ CandsOk(lane.cands, order, current, receivers)
    /\ FileOk(file, order, current, receivers)

ReceptionInv == Store /\ Lanes

-----------------------------------------------------------------------------
(* Candidates against the durable state.                                     *)

(* The event of a candidate has a chain and a position.                      *)
LEMMA EventFacts ==
    ASSUME NEW e \in Events
    PROVE  /\ Ev[e].chain \in Chains
           /\ Ev[e].n \in Position /\ Ev[e].n \in Nat
           /\ Ev[e].kind \in Kinds \cup {"rotation", "inheritance"}
<1>1. Ev[e] \in [kind : {"message", "file", "rotation", "inheritance"},
                 chain : Seeds, n : Position]
  BY Zenon, ReceptionAssumption
<1>2. Ev[e].chain \in Seeds /\ Ev[e].n \in Position
      /\ Ev[e].kind \in {"message", "file", "rotation", "inheritance"}
  BY <1>1
<1> QED
  BY Zenon, <1>2, PositionNat DEF Chains, Kinds

(* How the order and the current state move under a prepared candidate.      *)
AuthorityMoves(o, cur, o2, cur2) ==
    \/ o2 = o /\ cur2 \in {cur, SourceOf(o)}
    \/ /\ o.job <= o2.job /\ o.rev <= o2.rev
       /\ o.job < o2.job \/ o.rev < o2.rev

LEMMA AuthorisedKept ==
    ASSUME NEW p \in Candidates, NEW o \in Orders, NEW o2 \in Orders, NEW cur, NEW cur2,
           Authorised(p, o, cur), AuthorityMoves(o, cur, o2, cur2)
    PROVE  Authorised(p, o2, cur2)
<1>1. CASE o2 = o /\ cur2 \in {cur, SourceOf(o)}
  BY Zenon, <1>1 DEF Authorised
<1>2. CASE /\ o.job <= o2.job /\ o.rev <= o2.rev
           /\ o.job < o2.job \/ o.rev < o2.rev
  <2>1. /\ o.job \in Nat /\ o.rev \in Nat /\ o2.job \in Nat /\ o2.rev \in Nat
        /\ p.src.job \in Nat /\ p.src.rev \in Nat
    BY DEF Orders, Candidates, Sources
  <2>2. p.src.job <= o.job /\ p.src.rev <= o.rev
    BY Zenon DEF Authorised
  <2>3. p.src.job <= o2.job /\ p.src.rev <= o2.rev /\ (p.src.job # o2.job \/ p.src.rev # o2.rev)
    BY <2>1, <2>2, <1>2
  <2>4. p.src # SourceOf(o2)
    <3>1. SourceOf(o2).job = o2.job /\ SourceOf(o2).rev = o2.rev
      BY Zenon DEF SourceOf
    <3> QED
      BY Zenon, <3>1, <2>3
  <2> QED
    BY Zenon, <2>3, <2>4 DEF Authorised
<1> QED
  BY Zenon, <1>1, <1>2 DEF AuthorityMoves

(* How the receiver rows move: a row stays, or its revision grows by one.    *)
RowsMove(rec, rec2) ==
    \A c \in Chains : rec[c] # None =>
        /\ rec2[c] # None
        /\ rec2[c] = rec[c] \/ rec2[c].revision = rec[c].revision + 1

LEMMA FromRowKept ==
    ASSUME NEW p \in Candidates, NEW rec, NEW rec2, RowsOk(rec),
           FromRow(p, rec), RowsMove(rec, rec2)
    PROVE  FromRow(p, rec2)
<1> DEFINE c == p.chain
<1>1. c \in Chains /\ p.revision \in Nat
  BY DEF Candidates, Chains
<1> HIDE DEF c
<1>2. rec[c] # None /\ p.revision <= rec[c].revision /\ rec[c].revision \in Nat
  <2>1. rec[c] # None /\ p.revision <= rec[c].revision
    BY Zenon DEF FromRow, c
  <2>2. rec[c] \in ReceiverRow
    BY Zenon, <2>1, <1>1 DEF RowsOk, RowOk
  <2> QED
    BY <2>1, <2>2 DEF ReceiverRow
<1>3. rec2[c] # None /\ (rec2[c] = rec[c] \/ rec2[c].revision = rec[c].revision + 1)
  BY Zenon, <1>1, <1>2 DEF RowsMove
<1>4. CASE rec2[c] = rec[c]
  BY Zenon, <1>4 DEF FromRow, c
<1>5. CASE rec2[c].revision = rec[c].revision + 1
  <2>1. p.revision <= rec2[c].revision /\ p.revision # rec2[c].revision
    BY <1>1, <1>2, <1>5
  <2> QED
    BY Zenon, <2>1, <1>3 DEF FromRow, c
<1> QED
  BY Zenon, <1>3, <1>4, <1>5

(* Small numbers and short sequences.                                        *)
LEMMA OnlyOne == ASSUME NEW n \in Nat, n <= 1, NEW i \in 1..n PROVE i = 1 /\ n = 1
OBVIOUS

LEMMA RoomForOne == ASSUME NEW n \in Nat, n <= 1, n # 1 PROVE n + 1 <= 1
OBVIOUS

LEMMA OneOrTwo == ASSUME NEW n \in Nat, n >= 1, n <= 2 PROVE n = 1 \/ n = 2
OBVIOUS

LEMMA TailOfOne == ASSUME NEW S, NEW q \in Seq(S), Len(q) = 1 PROVE Tail(q) = <<>>
<1>1. q # <<>>
  BY EmptySeq
<1>2. Tail(q) \in Seq(S) /\ Len(Tail(q)) = 0
  BY <1>1, HeadTailProperties
<1> QED
  BY <1>2, EmptySeq

LEMMA TailOfTwo ==
    ASSUME NEW S, NEW q \in Seq(S), Len(q) = 2
    PROVE  /\ Tail(q) \in Seq(S) /\ Len(Tail(q)) = 1 /\ Tail(q)[1] = q[2]
           /\ 1 \in 1..Len(q) /\ 2 \in 1..Len(q) /\ Len(Tail(q)) <= 2 /\ Len(Tail(q)) # 2
<1>1. q # <<>>
  BY EmptySeq
<1>2. /\ Tail(q) \in Seq(S) /\ Len(Tail(q)) = 1
      /\ \A i \in 1..Len(Tail(q)) : Tail(q)[i] = q[i + 1]
  BY <1>1, HeadTailProperties
<1>3. 1 \in 1..1 /\ 1 \in 1..2 /\ 2 \in 1..2 /\ 1 + 1 = 2 /\ 1 <= 2 /\ 1 # 2
  BY ONLY TRUE
<1>4. Tail(q)[1] = q[1 + 1]
  BY Zenon, <1>2, <1>3
<1> QED
  BY Zenon, <1>2, <1>3, <1>4

LEMMA CandsKept ==
    ASSUME NEW cs, NEW o \in Orders, NEW o2 \in Orders, NEW cur, NEW cur2, NEW rec, NEW rec2,
           RowsOk(rec), CandsOk(cs, o, cur, rec),
           AuthorityMoves(o, cur, o2, cur2), RowsMove(rec, rec2)
    PROVE  CandsOk(cs, o2, cur2, rec2)
<1>1. cs \in Seq(Candidates) /\ Len(cs) <= 2
  BY Zenon DEF CandsOk
<1>2. \A i \in 1..Len(cs) : cs[i] \in Candidates
  BY Zenon, <1>1, ElementOfSeq
<1>3. \A i \in 1..Len(cs) : Proper(cs[i]) /\ Authorised(cs[i], o2, cur2)
  BY Zenon, <1>2, AuthorisedKept DEF CandsOk
<1>4. Len(cs) >= 1 => 1 \in 1..Len(cs)
  BY <1>1
<1>5. Len(cs) = 2 => 2 \in 1..Len(cs)
  BY <1>1
<1>6. Len(cs) >= 1 => FromRow(cs[1], rec2)
  BY Zenon, <1>2, <1>4, FromRowKept DEF CandsOk
<1>7. ASSUME Len(cs) = 2 PROVE Stacked(cs[1], cs[2], rec2)
  <2>1. Stacked(cs[1], cs[2], rec)
    BY Zenon, <1>7 DEF CandsOk
  <2> QED
    BY Zenon, <2>1, <1>2, <1>5, <1>7, FromRowKept DEF Stacked
<1> QED
  BY Zenon, <1>1, <1>3, <1>6, <1>7 DEF CandsOk

LEMMA FileKept ==
    ASSUME NEW f, NEW o \in Orders, NEW o2 \in Orders, NEW cur, NEW cur2, NEW rec, NEW rec2,
           RowsOk(rec), FileOk(f, o, cur, rec),
           AuthorityMoves(o, cur, o2, cur2), RowsMove(rec, rec2)
    PROVE  FileOk(f, o2, cur2, rec2)
BY Zenon, AuthorisedKept, FromRowKept DEF FileOk, Proper

LEMMA NoCands ==
    ASSUME NEW o, NEW cur, NEW rec
    PROVE  CandsOk(<<>>, o, cur, rec)
<1>1. <<>> \in Seq(Candidates) /\ Len(<<>>) = 0 /\ 1..0 = {}
  BY EmptySeq
<1>2. ~(0 >= 1) /\ 0 # 2 /\ 0 <= 2
  OBVIOUS
<1> QED
  BY Zenon, <1>1, <1>2 DEF CandsOk

(* A candidate prepared from a chain, on the source the projection has       *)
(* reached.                                                                  *)
LEMMA Prepared ==
    ASSUME NEW e \in Events, Ev[e].kind \in Kinds, NEW row \in ReceiverRow,
           NEW base, Sound(base), base.chain_key.seed = Ev[e].chain,
           NEW key, Opens(base, Ev[e].n, key), NEW o \in Orders
    PROVE  LET p == Candidate(e, row, base, SourceOf(o))
           IN  /\ Proper(p) /\ p.event = e /\ p.revision = row.revision
               /\ Authorised(p, o, SourceOf(o))
               /\ Grown(base, p)
<1> DEFINE next == Opened(base, Ev[e].n)
           src == SourceOf(o)
           p == Candidate(e, row, base, src)
<1>1. /\ Sound(next) /\ next.chain_key.seed = Ev[e].chain
      /\ Spent(next) = Spent(base) \cup {Ev[e].n} \cup Evicted(base, Ev[e].n)
  BY Zenon, EventFacts, OpenSpends
<1>2. next \in ChainType
  BY Zenon, <1>1 DEF Sound
<1>3. src \in Sources /\ src.job = o.job /\ src.rev = o.rev /\ o.job \in Nat /\ o.rev \in Nat
  BY DEF SourceOf, Sources, Orders
<1>4. row.revision \in Nat /\ row.key_revision \in Nat /\ Ev[e].chain \in Seeds
  BY EventFacts DEF ReceiverRow, Chains
<1> HIDE DEF next, src
<1>5. p = [event |-> e, chain |-> Ev[e].chain, revision |-> row.revision,
           key_revision |-> row.key_revision, src |-> src, next |-> next]
  BY Zenon DEF Candidate, next
<1> HIDE DEF p
<1>6. /\ p.event = e /\ p.chain = Ev[e].chain /\ p.revision = row.revision
      /\ p.src = src /\ p.next = next
  BY Zenon, <1>5
<1>7. p \in Candidates
  BY Zenon, <1>2, <1>3, <1>4, <1>5 DEF Candidates
<1>8. Proper(p)
  BY Zenon, <1>6, <1>7 DEF Proper
<1>9. Authorised(p, o, src)
  <2>1. o.job <= o.job /\ o.rev <= o.rev
    BY <1>3
  <2> QED
    BY Zenon, <2>1, <1>3, <1>6 DEF Authorised, src
<1>10. Grown(base, p)
  BY Zenon, <1>1, <1>6 DEF Grown
<1> QED
  BY Zenon, <1>6, <1>8, <1>9, <1>10 DEF p, src

(* The turn's candidates with one more: the first, the second on another     *)
(* chain, or the second on top of the first.                                 *)
LEMMA CandsGrow ==
    ASSUME NEW cs, NEW o, NEW cur, NEW rec, CandsOk(cs, o, cur, rec), Len(cs) <= 1,
           NEW p, Proper(p), Authorised(p, o, cur),
           \/ /\ \A i \in 1..Len(cs) : cs[i].chain # p.chain
              /\ FromRow(p, rec)
           \/ /\ Len(cs) = 1 /\ cs[1].chain = p.chain
              /\ p.revision = cs[1].revision + 1 /\ Grown(cs[1].next, p)
    PROVE  CandsOk(Append(cs, p), o, cur, rec)
<1> DEFINE ds == Append(cs, p)
<1>1. cs \in Seq(Candidates) /\ p \in Candidates
  BY Zenon DEF CandsOk, Proper
<1>2. /\ ds \in Seq(Candidates) /\ Len(ds) = Len(cs) + 1
      /\ \A i \in 1..Len(cs) : ds[i] = cs[i]
      /\ ds[Len(cs) + 1] = p
  BY <1>1, AppendProperties
<1> HIDE DEF ds
<1>3. Len(cs) \in Nat /\ (Len(cs) = 0 \/ Len(cs) = 1)
  <2>1. Len(cs) \in Nat /\ Len(cs) <= 1
    BY Zenon, <1>1, LenProperties
  <2> QED
    BY ONLY <2>1
<1>4. CASE Len(cs) = 0
  <2>1. Len(ds) = 1 /\ ds[1] = p
    BY <1>2, <1>4
  <2>2. \A i \in 1..Len(ds) : i = 1
    BY <2>1
  <2>3. FromRow(p, rec)
    BY <1>4
  <2>4. Len(ds) <= 2 /\ Len(ds) # 2
    BY <2>1
  <2>5. \A i \in 1..Len(ds) : Proper(ds[i]) /\ Authorised(ds[i], o, cur)
    BY Zenon, <2>1, <2>2
  <2>6. ds \in Seq(Candidates) /\ FromRow(ds[1], rec)
    BY Zenon, <2>1, <2>3, <1>2
  <2> QED
    BY Zenon, <2>4, <2>5, <2>6 DEF CandsOk, ds
<1>5. CASE Len(cs) = 1
  <2>1. Len(ds) = 2 /\ ds[2] = p /\ 1 \in 1..Len(cs) /\ 1 >= 1 /\ 2 <= 2
    BY <1>2, <1>5
  <2>2. ds[1] = cs[1]
    BY Zenon, <2>1, <1>2
  <2>3. \A i \in 1..Len(ds) : i = 1 \/ i = 2
    BY <2>1
  <2>4. Proper(cs[1]) /\ Authorised(cs[1], o, cur) /\ FromRow(cs[1], rec)
    BY Zenon, <2>1, <1>5 DEF CandsOk
  <2>5. \A i \in 1..Len(ds) : Proper(ds[i]) /\ Authorised(ds[i], o, cur)
    BY Zenon, <2>1, <2>2, <2>3, <2>4
  <2>6. Stacked(ds[1], ds[2], rec)
    BY Zenon, <2>1, <2>2, <1>5 DEF Stacked
  <2>7. ds \in Seq(Candidates) /\ FromRow(ds[1], rec) /\ Len(ds) <= 2
    BY Zenon, <2>1, <2>2, <2>4, <1>2
  <2> QED
    BY Zenon, <2>5, <2>6, <2>7 DEF CandsOk, ds
<1> QED
  BY Zenon, <1>3, <1>4, <1>5 DEF ds

-----------------------------------------------------------------------------
(* What one committed receive does to the durable rows.                      *)

Unrepeated(s) == \A i, j \in 1..Len(s) : s[i] = s[j] => i = j

LEMMA OneMore ==
    ASSUME NEW S, NEW s \in Seq(S), NEW x \in S
    PROVE  /\ Append(s, x) \in Seq(S)
           /\ Elems(Append(s, x)) = Elems(s) \cup {x}
           /\ x \notin Elems(s) /\ Unrepeated(s) => Unrepeated(Append(s, x))
<1> DEFINE t == Append(s, x)
<1>1. /\ t \in Seq(S) /\ Len(t) = Len(s) + 1 /\ Len(s) \in Nat
      /\ \A i \in 1..Len(s) : t[i] = s[i]
      /\ t[Len(s) + 1] = x
  BY AppendProperties
<1> HIDE DEF t
<1>2. \A i : i \in 1..Len(t) <=> i \in 1..Len(s) \/ i = Len(s) + 1
  BY <1>1
<1>3. Elems(t) = Elems(s) \cup {x}
  BY Zenon, <1>1, <1>2 DEF Elems
<1>4. ASSUME x \notin Elems(s), Unrepeated(s),
             NEW i \in 1..Len(t), NEW j \in 1..Len(t), t[i] = t[j]
      PROVE  i = j
  <2>1. \A k \in 1..Len(s) : s[k] # x
    BY Zenon, <1>4 DEF Elems
  <2> QED
    BY Zenon, <2>1, <1>1, <1>2, <1>4 DEF Unrepeated
<1>5. x \notin Elems(s) /\ Unrepeated(s) => Unrepeated(t)
  BY Zenon, <1>4 DEF Unrepeated
<1> QED
  BY Zenon, <1>1, <1>3, <1>5 DEF t

LEMMA Received ==
    ASSUME Store, NEW p, Proper(p), FromRow(p, receivers), Installable(p),
           install_receive(p), order' \in Orders, proj' = proj
    PROVE  /\ Store'
           /\ RowsMove(receivers, receivers')
           /\ receivers'[p.chain].revision = p.revision + 1
           /\ receivers'[p.chain].chain = p.next
           /\ \A c \in Chains \ {p.chain} : receivers'[c] = receivers[c]
           /\ receivers'[p.chain] # None
<1> DEFINE e == p.event
           c == p.chain
           row == receivers[c]
           new == [revision |-> row.revision + 1, key_revision |-> row.key_revision,
                   chain |-> p.next]
           lost == Evicted(row.chain, Ev[e].n)
<1>1. /\ e \in Events /\ c \in Chains /\ c = Ev[e].chain /\ Ev[e].kind \in Kinds
      /\ p.next \in ChainType
  <2>1. p \in Candidates /\ c = Ev[e].chain /\ Ev[e].kind \in Kinds
    BY Zenon DEF Proper
  <2> QED
    BY <2>1 DEF Candidates, Chains
<1>2. /\ e \notin processed /\ row # None /\ row.revision = p.revision
      /\ Sound(p.next) /\ p.next.chain_key.seed = c
      /\ Spent(p.next) = Spent(row.chain) \cup {Ev[e].n} \cup lost
  BY Zenon DEF Installable, FromRow, Grown
<1>3. row \in ReceiverRow
  BY Zenon, <1>1, <1>2 DEF Store, RowsOk, RowOk
<1>4. row.revision \in Nat /\ row.key_revision \in Nat
  BY <1>3 DEF ReceiverRow
<1>5. /\ receivers' = [receivers EXCEPT ![c] = new]
      /\ relinquished' = [relinquished EXCEPT ![c] = relinquished[c] \cup lost]
      /\ processed' = processed \cup {e}
      /\ pending' = [pending EXCEPT ![e] = None]
      /\ transcript' = Append(transcript, e)
  BY Zenon DEF install_receive
<1>6. /\ new \in ReceiverRow /\ new.chain = p.next /\ new.revision = row.revision + 1
      /\ new.revision = p.revision + 1
  <2>1. row.revision + 1 \in Nat
    BY <1>4
  <2>2. new.chain = p.next /\ new.revision = row.revision + 1
    BY Zenon
  <2> QED
    BY Zenon, <2>1, <2>2, <1>1, <1>2, <1>4 DEF ReceiverRow
<1>7. new # None
  BY Zenon, <1>6, ReceptionAssumption
<1> HIDE DEF e, c, row, new, lost
<1>8. DOMAIN receivers = Chains /\ DOMAIN relinquished = Chains
  BY Zenon DEF Store, RowsOk
<1>9. /\ DOMAIN receivers' = Chains /\ DOMAIN relinquished' = Chains
      /\ receivers'[c] = new /\ relinquished'[c] = relinquished[c] \cup lost
      /\ \A b \in Chains : b # c => receivers'[b] = receivers[b] /\ relinquished'[b] = relinquished[b]
  BY Zenon, <1>1, <1>5, <1>8
<1>10. RowsOk(receivers')
  <2>1. RowOk(new, c)
    BY Zenon, <1>2, <1>6 DEF RowOk
  <2> QED
    BY Zenon, <2>1, <1>9 DEF Store, RowsOk
<1>11. transcript \in Seq(Events) /\ ExactlyOnce
  BY Zenon DEF Store
<1>12. e \notin Elems(transcript)
  BY Zenon, <1>2, <1>11 DEF ExactlyOnce
<1>13. /\ transcript' \in Seq(Events)
       /\ Elems(transcript') = Elems(transcript) \cup {e}
       /\ Unrepeated(transcript')
  <2>1. Unrepeated(transcript)
    BY Zenon, <1>11 DEF ExactlyOnce, Unrepeated
  <2> QED
    BY ZenonT(40), <2>1, <1>1, <1>5, <1>11, <1>12, OneMore
<1>14. pending \in [Events -> PendingRow \cup {None}] /\ processed \subseteq Events
  BY Zenon DEF Store
<1>15. /\ pending' \in [Events -> PendingRow \cup {None}]
       /\ pending'[e] = None /\ \A x \in Events : x # e => pending'[x] = pending[x]
  BY Zenon, <1>1, <1>5, <1>14
<1>16. ExactlyOnce'
  <2>1. Elems(transcript') = {x \in processed' : Ev[x].kind \in Kinds}
    BY Zenon, <1>1, <1>5, <1>11, <1>13 DEF ExactlyOnce
  <2>2. \A x \in processed' : pending'[x] = None
    BY Zenon, <1>5, <1>11, <1>14, <1>15 DEF ExactlyOnce
  <2> QED
    BY Zenon, <2>1, <2>2, <1>13 DEF ExactlyOnce, Unrepeated
<1>17. \A b \in Chains : OpenedAt(b)' = OpenedAt(b) \cup {Ev[x].n : x \in {y \in {e} : Ev[y].chain = b}}
  BY Zenon, <1>13 DEF OpenedAt
<1>18. OpenedAt(c)' = OpenedAt(c) \cup {Ev[e].n} /\ \A b \in Chains : b # c => OpenedAt(b)' = OpenedAt(b)
  BY ZenonT(40), <1>1, <1>17
<1>19. ConsumedIsOpened'
  <2>1. Spent(row.chain) = OpenedAt(c) \cup relinquished[c]
    BY Zenon, <1>1, <1>2 DEF Store, ConsumedIsOpened, row
  <2>2. Spent(receivers'[c].chain) = OpenedAt(c)' \cup relinquished'[c]
    BY Zenon, <2>1, <1>2, <1>6, <1>9, <1>18
  <2>3. \A b \in Chains : b # c /\ receivers'[b] # None
          => Spent(receivers'[b].chain) = OpenedAt(b)' \cup relinquished'[b]
    BY Zenon, <1>9, <1>18 DEF Store, ConsumedIsOpened
  <2> QED
    BY Zenon, <2>2, <2>3 DEF ConsumedIsOpened
<1>20. Unheld'
  BY Zenon, <1>7, <1>9, <1>18 DEF Store, Unheld
<1>21. RowsMove(receivers, receivers')
  BY Zenon, <1>6, <1>7, <1>9 DEF RowsMove, row
<1>22. /\ processed' \subseteq Events
       /\ \A x \in Events : pending'[x] # None => Ev[x].kind \in Kinds
  BY Zenon, <1>1, <1>5, <1>14, <1>15 DEF Store
<1>23. Store'
  BY Zenon, <1>9, <1>10, <1>13, <1>15, <1>16, <1>19, <1>20, <1>22 DEF Store
<1> QED
  BY Zenon, <1>6, <1>7, <1>9, <1>21, <1>23 DEF c

(* Distributions and snapshots: what a projected row may do to a receiver.   *)
LEMMA SkdFits ==
    ASSUME NEW e \in Events
    PROVE  Fits(Skd(e), Ev[e].chain)
<1>1. Ev[e].chain \in Seeds /\ Ev[e].n \in Position /\ Ev[e].n \in Nat
  BY Zenon, EventFacts DEF Chains
<1>2. Wire(e) = [seed |-> Ev[e].chain, step |-> Ev[e].n]
  BY Zenon DEF Wire
<1>3. Wire(e) \in ChainKey
  BY <1>1, <1>2 DEF ChainKey
<1>4. Skd(e).n = Ev[e].n /\ Skd(e).chain_key = Wire(e)
  BY Zenon DEF Skd
<1> QED
  BY Zenon, <1>1, <1>2, <1>3, <1>4 DEF Fits

(* Both change one row: to a well-formed one that is a revision ahead, with  *)
(* the positions it gave up on record.                                       *)
RowStep(c, new, lost) ==
    /\ receivers' = [receivers EXCEPT ![c] = new]
    /\ relinquished' = [relinquished EXCEPT ![c] = lost]
    /\ new # None /\ RowOk(new, c)
    /\ receivers[c] # None => /\ new = receivers[c] \/ new.revision = receivers[c].revision + 1
                              /\ \E more : /\ lost = relinquished[c] \cup more
                                           /\ Spent(new.chain) = Spent(receivers[c].chain) \cup more
    /\ receivers[c] = None => Spent(new.chain) = lost

LEMMA Installs ==
    ASSUME NEW e \in Events, receivers[Ev[e].chain] = None,
           install_distribution(Ev[e].chain, Skd(e))
    PROVE  \E new, lost : RowStep(Ev[e].chain, new, lost)
<1> DEFINE c == Ev[e].chain
           d == from_distribution(Skd(e))
           new == [revision |-> 0, key_revision |-> 0, chain |-> d]
           lost == 0..(Skd(e).n - 1)
<1>1. receivers' = [receivers EXCEPT ![c] = new] /\ relinquished' = [relinquished EXCEPT ![c] = lost]
  BY Zenon DEF install_distribution
<1>2. Sound(d) /\ d.chain_key.seed = c /\ Spent(d) = lost
  BY Zenon, SkdFits, InstalledSound, InstalledSpends
<1> HIDE DEF d, lost
<1>3. d \in ChainType
  BY Zenon, <1>2 DEF Sound
<1>4. new \in ReceiverRow /\ new.chain = d
  <2>1. 0 \in Nat
    OBVIOUS
  <2> QED
    BY Zenon, <2>1, <1>3 DEF ReceiverRow
<1>5. new # None
  BY Zenon, <1>4, ReceptionAssumption
<1>6. RowOk(new, c)
  BY Zenon, <1>2, <1>4 DEF RowOk
<1> HIDE DEF new, c
<1>7. receivers[c] = None
  BY Zenon DEF c
<1>8. Spent(new.chain) = lost
  BY Zenon, <1>2, <1>4
<1>9. RowStep(c, new, lost)
  BY Zenon, <1>1, <1>5, <1>6, <1>7, <1>8 DEF RowStep
<1> QED
  BY Zenon, <1>9 DEF c

LEMMA Refreshes ==
    ASSUME RowsOk(receivers), NEW e \in Events, refresh_distribution_on(Ev[e].chain, Skd(e))
    PROVE  \E new, lost : RowStep(Ev[e].chain, new, lost)
<1> DEFINE c == Ev[e].chain
           row == receivers[c]
           next == refresh_distribution(row.chain, Skd(e))
           new == IF next = row.chain THEN row
                  ELSE [revision |-> row.revision + 1,
                        key_revision |-> IF next = row.chain THEN row.key_revision
                                         ELSE row.key_revision + 1,
                        chain |-> next]
           more == row.chain.n..(next.n - 1)
<1>1. CASE row = None
  <2>1. install_distribution(c, Skd(e))
    BY Zenon, <1>1 DEF refresh_distribution_on
  <2> QED
    BY Zenon, <2>1, <1>1, Installs
<1>2. CASE row # None
  <2>1. c \in Chains
    BY Zenon, EventFacts
  <2>2. row \in ReceiverRow /\ Sound(row.chain) /\ row.chain.chain_key.seed = c
    BY Zenon, <2>1, <1>2 DEF RowsOk, RowOk
  <2>3. /\ receivers' = [receivers EXCEPT ![c] = new]
        /\ relinquished' = [relinquished EXCEPT ![c] = relinquished[c] \cup more]
    BY Zenon, <1>2 DEF refresh_distribution_on
  <2>4. /\ Sound(next) /\ next.chain_key.seed = c
        /\ row.chain.n <= next.n /\ next.skipped = row.chain.skipped
    BY Zenon, <2>2, SkdFits, RefreshedSound
  <2>5. Spent(next) = Spent(row.chain) \cup more
    BY Zenon, <2>2, <2>4, RefreshedSpends
  <2>6. row.revision \in Nat /\ row.key_revision \in Nat
    BY <2>2 DEF ReceiverRow
  <2> HIDE DEF next, more
  <2>7. /\ new \in ReceiverRow /\ new.chain = next
        /\ new = row \/ new.revision = row.revision + 1
    <3>1. CASE next = row.chain
      BY Zenon, <3>1, <2>2
    <3>2. CASE next # row.chain
      <4>1. new = [revision |-> row.revision + 1, key_revision |-> row.key_revision + 1,
                   chain |-> next]
        BY Zenon, <3>2
      <4>2. row.revision + 1 \in Nat /\ row.key_revision + 1 \in Nat
        BY <2>6
      <4>3. next \in ChainType
        BY Zenon, <2>4 DEF Sound
      <4> HIDE DEF new
      <4> QED
        BY Zenon, <4>1, <4>2, <4>3 DEF ReceiverRow
    <3> QED
      BY Zenon, <3>1, <3>2
  <2>8. new # None
    BY Zenon, <2>7, ReceptionAssumption
  <2>9. RowOk(new, c)
    BY Zenon, <2>4, <2>7 DEF RowOk
  <2> HIDE DEF new
  <2>10. RowStep(c, new, relinquished[c] \cup more)
    BY Zenon, <2>3, <2>5, <2>7, <2>8, <2>9, <1>2 DEF RowStep
  <2> QED
    BY Zenon, <2>10
<1> QED
  BY Zenon, <1>1, <1>2

LEMMA RowStored ==
    ASSUME Store, NEW c \in Chains, NEW new, NEW lost, RowStep(c, new, lost),
           transcript' = transcript
    PROVE  /\ RowsOk(receivers') /\ DOMAIN relinquished' = Chains
           /\ ConsumedIsOpened' /\ Unheld'
           /\ RowsMove(receivers, receivers')
<1>1. DOMAIN receivers = Chains /\ DOMAIN relinquished = Chains
  BY Zenon DEF Store, RowsOk
<1>2. /\ receivers' = [receivers EXCEPT ![c] = new]
      /\ relinquished' = [relinquished EXCEPT ![c] = lost]
  BY Zenon DEF RowStep
<1>3. /\ DOMAIN receivers' = Chains /\ DOMAIN relinquished' = Chains
      /\ receivers'[c] = new /\ relinquished'[c] = lost
      /\ \A b \in Chains : b # c => receivers'[b] = receivers[b] /\ relinquished'[b] = relinquished[b]
  BY Zenon, <1>1, <1>2
<1>4. RowsOk(receivers')
  BY Zenon, <1>3 DEF Store, RowsOk, RowStep
<1>5. RowsMove(receivers, receivers')
  BY Zenon, <1>3 DEF RowsMove, RowStep
<1>6. \A b : OpenedAt(b)' = OpenedAt(b)
  BY Zenon DEF OpenedAt
<1>7. Spent(new.chain) = OpenedAt(c) \cup lost
  <2>1. CASE receivers[c] = None
    BY Zenon, <2>1 DEF Store, Unheld, RowStep
  <2>2. CASE receivers[c] # None
    <3>1. Spent(receivers[c].chain) = OpenedAt(c) \cup relinquished[c]
      BY Zenon, <2>2 DEF Store, ConsumedIsOpened
    <3>2. PICK more : /\ lost = relinquished[c] \cup more
                      /\ Spent(new.chain) = Spent(receivers[c].chain) \cup more
      BY Zenon, <2>2 DEF RowStep
    <3> QED
      BY Zenon, <3>1, <3>2
  <2> QED
    BY Zenon, <2>1, <2>2
<1>8. ConsumedIsOpened'
  <2>1. \A b \in Chains : b # c /\ receivers'[b] # None
          => Spent(receivers'[b].chain) = OpenedAt(b)' \cup relinquished'[b]
    BY Zenon, <1>3, <1>6 DEF Store, ConsumedIsOpened
  <2>2. Spent(receivers'[c].chain) = OpenedAt(c)' \cup relinquished'[c]
    BY Zenon, <1>3, <1>6, <1>7
  <2> QED
    BY Zenon, <2>1, <2>2 DEF ConsumedIsOpened
<1>9. Unheld'
  BY Zenon, <1>3, <1>6 DEF Store, Unheld, RowStep
<1> QED
  BY Zenon, <1>3, <1>4, <1>5, <1>8, <1>9

-----------------------------------------------------------------------------
(* Every step keeps the invariant.                                           *)

(* The durable rows outside the order and the projection stay.               *)
LEMMA StoreKept ==
    ASSUME Store, order' \in Orders, proj' \in [job : Nat, next : Nat],
           UNCHANGED <<receivers, pending, processed, transcript, relinquished>>
    PROVE  Store'
<1>1. /\ receivers' = receivers /\ pending' = pending /\ processed' = processed
      /\ transcript' = transcript /\ relinquished' = relinquished
  BY Zenon
<1>2. ExactlyOnce' /\ ConsumedIsOpened' /\ Unheld'
  BY Zenon, <1>1 DEF Store, ExactlyOnce, ConsumedIsOpened, Unheld, OpenedAt
<1> QED
  BY Zenon, <1>1, <1>2 DEF Store

LEMMA RowsStay == ASSUME NEW rec PROVE RowsMove(rec, rec)
  BY Zenon DEF RowsMove

LEMMA AuthorityStays == ASSUME NEW o, NEW cur PROVE AuthorityMoves(o, cur, o, cur)
  BY Zenon DEF AuthorityMoves

(* A step outside the message lane: the lane keeps its place.                *)
LEMMA LaneKept ==
    ASSUME NEW l, NEW pend, NEW pend2, LaneOk(l, pend),
           \/ l.pc \notin {"page", "body", "note"}
           \/ \A e \in Events : Waits(e, pend) => Waits(e, pend2)
    PROVE  LaneOk(l, pend2)
<1>1. l.ids \subseteq Events /\ (l.note \in Notes => l.note.event \in Events)
  <2>1. l \in LaneType
    BY Zenon DEF LaneOk
  <2> QED
    BY <2>1 DEF LaneType, Notes
<1> QED
  BY Zenon, <1>1 DEF LaneOk

(* The lane at rest.                                                         *)
LEMMA IdleOk ==
    ASSUME NEW pend
    PROVE  LaneOk(Idle, pend) /\ Idle.cands = <<>> /\ Idle.pc = "idle"
<1>1. Idle = [pc |-> "idle", bodies |-> 0, pages |-> 0, cands |-> <<>>,
              ids |-> {}, more |-> FALSE, note |-> None]
  BY Zenon DEF Idle
<1>2. Idle.cands = <<>> /\ Idle.pc = "idle"
  BY Zenon, <1>1
<1>3. <<>> \in Seq(Candidates) /\ 0 \in Int
  BY EmptySeq
<1>4. Idle \in LaneType
  BY Zenon, <1>1, <1>3 DEF LaneType
<1>5. "idle" \notin {"turn", "page", "body", "note"}
  OBVIOUS
<1> QED
  BY Zenon, <1>2, <1>4, <1>5 DEF LaneOk

(* A turn that is given up.                                                  *)
LEMMA GaveUp ==
    ASSUME Lanes, GiveUp, UNCHANGED <<order, current, receivers, pending>>,
           file' = file \/ file' = None
    PROVE  Lanes'
<1>1. lane' = Idle
  BY Zenon DEF GiveUp
<1>2. /\ order' = order /\ current' = current /\ receivers' = receivers /\ pending' = pending
  BY Zenon
<1>3. LaneOk(lane', pending') /\ lane'.pc = "idle" /\ lane'.cands = <<>>
  BY Zenon, <1>1, IdleOk
<1>4. CandsOk(lane'.cands, order', current', receivers')
  BY Zenon, <1>3, NoCands
<1>5. FileOk(file', order', current', receivers')
  BY Zenon, <1>2 DEF Lanes, FileOk
<1>6. Locked'
  <2>1. "idle" \notin {"page", "body", "note"}
    OBVIOUS
  <2> QED
    BY Zenon, <2>1, <1>3 DEF Locked, LogLocked
<1> QED
  BY Zenon, <1>3, <1>4, <1>5, <1>6 DEF Lanes

(* A step of the other actors, seen from the message lane.                   *)
LEMMA Outside ==
    ASSUME Lanes, RowsOk(receivers), order \in Orders, order' \in Orders,
           lane' = lane, file' = file \/ file' = None, Locked',
           AuthorityMoves(order, current, order', current'),
           RowsMove(receivers, receivers'),
           ~LogLocked \/ \A e \in Events : Waits(e, pending) => Waits(e, pending')
    PROVE  Lanes'
<1>1. LaneOk(lane', pending')
  BY Zenon, LaneKept DEF Lanes, LogLocked
<1>2. CandsOk(lane'.cands, order', current', receivers')
  BY Zenon, CandsKept DEF Lanes
<1>3. FileOk(file', order', current', receivers')
  <2>1. FileOk(file, order', current', receivers')
    BY Zenon, FileKept DEF Lanes
  <2> QED
    BY Zenon, <2>1 DEF FileOk
<1> QED
  BY Zenon, <1>1, <1>2, <1>3 DEF Lanes

LEMMA Unlocked == ASSUME ~LogLocked, lane' = lane PROVE Locked'
  BY Zenon DEF LogLocked, Locked

LEMMA StillLocked ==
    ASSUME Locked, lane' = lane, order' = order, current' = current PROVE Locked'
  BY Zenon DEF LogLocked, Locked, require_source, Source

LEMMA AppendKeeps ==
    ASSUME ReceptionInv, NEW e \in Events, AppendEvent(e)
    PROVE  ReceptionInv'
<1>1. /\ Store /\ Lanes /\ order \in Orders /\ RowsOk(receivers)
      /\ proj \in [job : Nat, next : Nat]
  BY Zenon DEF ReceptionInv, Store
<1>2. PICK i \in 0..Len(order.rows) :
         order' = [order EXCEPT !.rev = order.rev + 1,
                                !.rows = SubSeq(order.rows, 1, i) \o <<e>>
                                           \o SubSeq(order.rows, i + 1, Len(order.rows)),
                                !.ready = order.ready /\ i = Len(order.rows)]
  BY Zenon DEF AppendEvent
<1> DEFINE r == SubSeq(order.rows, 1, i) \o <<e>> \o SubSeq(order.rows, i + 1, Len(order.rows))
           b == order.ready /\ i = Len(order.rows)
<1>3. order.rows \in Seq(Events) /\ order.rev \in Nat /\ order.job \in Nat /\ b \in BOOLEAN
  BY <1>1 DEF Orders
<1>4. r \in Seq(Events)
  <2>1. \A k \in 1..Len(order.rows) : order.rows[k] \in Events
    BY Zenon, <1>3, ElementOfSeq
  <2>2. Len(order.rows) \in Nat /\ i \in Nat /\ i <= Len(order.rows)
    BY <1>3
  <2>3. SubSeq(order.rows, 1, i) \in Seq(Events)
    BY <2>1, <2>2, SubSeqProperties
  <2>4. SubSeq(order.rows, i + 1, Len(order.rows)) \in Seq(Events)
    BY <2>1, <2>2, SubSeqProperties
  <2>5. <<e>> \in Seq(Events)
    OBVIOUS
  <2> QED
    BY Zenon, <2>3, <2>4, <2>5, ConcatProperties
<1> HIDE DEF r, b
<1>5. order' = [order EXCEPT !.rev = order.rev + 1, !.rows = r, !.ready = b]
  BY Zenon, <1>2 DEF r, b
<1>6. order' \in Orders /\ order'.job = order.job /\ order'.rev = order.rev + 1
  <2>1. order = [job |-> order.job, rev |-> order.rev, ready |-> order.ready,
                 rows |-> order.rows]
    BY Zenon, <1>1 DEF Orders
  <2>2. order' = [job |-> order.job, rev |-> order.rev + 1, ready |-> b, rows |-> r]
    BY ZenonT(30), <2>1, <1>5
  <2>3. order.rev + 1 \in Nat
    BY <1>3
  <2> QED
    BY Zenon, <2>2, <2>3, <1>3, <1>4 DEF Orders
<1>7. AuthorityMoves(order, current, order', current')
  <2>1. order.job <= order'.job /\ order.rev <= order'.rev /\ order.rev < order'.rev
    BY <1>3, <1>6
  <2> QED
    BY Zenon, <2>1 DEF AuthorityMoves
<1>8. /\ ~LogLocked /\ proj' = proj /\ receivers' = receivers /\ pending' = pending
      /\ processed' = processed /\ transcript' = transcript /\ relinquished' = relinquished
      /\ lane' = lane /\ file' = file
  BY Zenon DEF AppendEvent
<1>9. Store'
  BY Zenon, <1>1, <1>6, <1>8, StoreKept
<1>10. Lanes'
  BY Zenon, <1>1, <1>6, <1>7, <1>8, Unlocked, RowsStay, Outside
<1> QED
  BY Zenon, <1>9, <1>10 DEF ReceptionInv

LEMMA ReorderKeeps == ASSUME ReceptionInv, Reorder PROVE ReceptionInv'
<1>1. /\ Store /\ Lanes /\ order \in Orders /\ RowsOk(receivers)
      /\ proj \in [job : Nat, next : Nat]
  BY Zenon DEF ReceptionInv, Store
<1>2. order' = [order EXCEPT !.job = order.job + 1, !.ready = TRUE]
  BY Zenon DEF Reorder
<1>3. order' \in Orders /\ order'.job = order.job + 1 /\ order'.rev = order.rev
      /\ order.job \in Nat /\ order.rev \in Nat
  <2>1. order = [job |-> order.job, rev |-> order.rev, ready |-> order.ready,
                 rows |-> order.rows]
    BY Zenon, <1>1 DEF Orders
  <2>2. order' = [job |-> order.job + 1, rev |-> order.rev, ready |-> TRUE,
                  rows |-> order.rows]
    BY ZenonT(30), <2>1, <1>2
  <2>3. order.job \in Nat /\ order.rev \in Nat /\ order.rows \in Seq(Events)
    BY Zenon, <1>1 DEF Orders
  <2>4. order.job + 1 \in Nat
    BY <2>3
  <2> QED
    BY Zenon, <2>2, <2>3, <2>4 DEF Orders
<1>4. AuthorityMoves(order, current, order', current')
  <2>1. order.job <= order'.job /\ order.rev <= order'.rev /\ order.job < order'.job
    BY <1>3
  <2> QED
    BY Zenon, <2>1 DEF AuthorityMoves
<1>5. /\ ~LogLocked /\ proj' = proj /\ receivers' = receivers /\ pending' = pending
      /\ processed' = processed /\ transcript' = transcript /\ relinquished' = relinquished
      /\ lane' = lane /\ file' = file
  BY Zenon DEF Reorder
<1>6. Store'
  BY Zenon, <1>1, <1>3, <1>5, StoreKept
<1>7. Lanes'
  BY ZenonT(40), <1>1, <1>3, <1>4, <1>5, Unlocked, RowsStay, Outside
<1> QED
  BY Zenon, <1>6, <1>7 DEF ReceptionInv

LEMMA InstallCurrentKeeps == ASSUME ReceptionInv, install_current PROVE ReceptionInv'
<1>1. /\ Store /\ Lanes /\ order \in Orders /\ RowsOk(receivers)
      /\ proj \in [job : Nat, next : Nat]
  BY Zenon DEF ReceptionInv, Store
<1>2. /\ ~LogLocked /\ proj' = proj /\ receivers' = receivers /\ pending' = pending
      /\ processed' = processed /\ transcript' = transcript /\ relinquished' = relinquished
      /\ lane' = lane /\ file' = file /\ order' = order
      /\ current' = Source
  BY Zenon DEF install_current
<1>3. AuthorityMoves(order, current, order', current')
  BY Zenon, <1>2 DEF AuthorityMoves, Source, SourceOf
<1>4. Store'
  BY Zenon, <1>1, <1>2, StoreKept
<1>5. Lanes'
  BY Zenon, <1>1, <1>2, <1>3, Unlocked, RowsStay, Outside
<1> QED
  BY Zenon, <1>4, <1>5 DEF ReceptionInv

(* A row that is filed again keeps its shape.                                *)
LEMMA FiledRow ==
    ASSUME NEW e \in Events, pending[e] \in PendingRow \cup {None}, NEW n \in Nat
    PROVE  Filed(e, n) \in PendingRow
<1>1. CASE pending[e] = None
  <2>1. Filed(e, n) = [ordinal |-> n, reason |-> 0, job |-> None, key |-> 0, wake_at |-> 0]
    BY Zenon, <1>1 DEF Filed
  <2> QED
    BY <2>1 DEF PendingRow
<1>2. CASE pending[e] # None
  <2> DEFINE row == pending[e]
             r == IF row.job \notin {None, order.job} THEN 0 ELSE row.reason
  <2>1. row \in PendingRow
    BY Zenon, <1>2
  <2>2. row.reason \in {0, 1, 3}
    BY <2>1 DEF PendingRow
  <2>3. r \in {0, 1, 3}
    BY Zenon, <2>2
  <2>4. Filed(e, n) = [row EXCEPT !.ordinal = n, !.reason = r]
    BY Zenon, <1>2 DEF Filed
  <2> HIDE DEF r, row
  <2> QED
    BY <2>1, <2>3, <2>4 DEF PendingRow
<1> QED
  BY Zenon, <1>1, <1>2

LEMMA ProjectKeeps == ASSUME ReceptionInv, ProjectRow PROVE ReceptionInv'
<1>1. /\ Store /\ Lanes /\ order \in Orders /\ RowsOk(receivers)
      /\ proj \in [job : Nat, next : Nat]
      /\ pending \in [Events -> PendingRow \cup {None}]
      /\ processed \subseteq Events
      /\ ExactlyOnce
      /\ \A x \in Events : pending[x] # None => Ev[x].kind \in Kinds
  BY Zenon DEF ReceptionInv, Store
<1> DEFINE n == NextRank
           e == order.rows[n + 1]
           c == Ev[e].chain
<1>2. /\ ~LogLocked /\ n < Len(order.rows)
      /\ proj' = [job |-> order.job, next |-> n + 1]
      /\ order' = order /\ current' = current /\ lane' = lane /\ file' = file
      /\ transcript' = transcript
  BY Zenon DEF ProjectRow
<1>3. n \in Nat /\ order.rows \in Seq(Events) /\ order.job \in Nat
  <2>1. proj.next \in Nat /\ order.rows \in Seq(Events) /\ order.job \in Nat
    BY <1>1 DEF Orders
  <2>2. n = IF proj.job = order.job THEN proj.next ELSE 0
    BY Zenon DEF NextRank
  <2> HIDE DEF n
  <2> QED
    BY <2>1, <2>2
<1> HIDE DEF n
<1>4. e \in Events
  <2>1. n + 1 \in 1..Len(order.rows)
    BY <1>2, <1>3
  <2> QED
    BY Zenon, <2>1, <1>3, ElementOfSeq
<1>5. proj' \in [job : Nat, next : Nat]
  <2>1. n + 1 \in Nat
    BY <1>3
  <2> QED
    BY Zenon, <2>1, <1>2, <1>3
<1>6. c \in Chains
  BY Zenon, <1>4, EventFacts
<1>7. \/ /\ Ev[e].kind \in Kinds
         /\ pending' = IF e \in processed THEN pending ELSE [pending EXCEPT ![e] = Filed(e, n)]
         /\ receivers' = receivers /\ relinquished' = relinquished /\ processed' = processed
      \/ /\ Ev[e].kind \in {"rotation", "inheritance"}
         /\ \/ receivers' = receivers /\ relinquished' = relinquished
            \/ receivers[c] = None /\ install_distribution(c, Skd(e))
            \/ refresh_distribution_on(c, Skd(e))
         /\ processed' = processed \cup {e}
         /\ pending' = pending
  BY Zenon DEF ProjectRow, install_distribution, n
<1> HIDE DEF e, c
<1>8. CASE /\ Ev[e].kind \in Kinds
           /\ pending' = IF e \in processed THEN pending ELSE [pending EXCEPT ![e] = Filed(e, n)]
           /\ receivers' = receivers /\ relinquished' = relinquished /\ processed' = processed
  <2>1. /\ pending' \in [Events -> PendingRow \cup {None}]
        /\ \A x \in Events : x # e => pending'[x] = pending[x]
        /\ e \in processed => pending' = pending
    <3>1. pending[e] \in PendingRow \cup {None}
      BY Zenon, <1>1, <1>4
    <3>2. Filed(e, n) \in PendingRow
      BY Zenon, <3>1, <1>3, <1>4, FiledRow
    <3>3. CASE e \in processed
      BY Zenon, <3>3, <1>1, <1>8
    <3>4. CASE e \notin processed
      <4>1. pending' = [pending EXCEPT ![e] = Filed(e, n)]
        BY Zenon, <3>4, <1>8
      <4> QED
        BY Zenon, <4>1, <3>2, <3>4, <1>1, <1>4
    <3> QED
      BY Zenon, <3>3, <3>4
  <2>2. \A x \in Events : pending'[x] # None => Ev[x].kind \in Kinds
    BY Zenon, <2>1, <1>1, <1>8
  <2>3. ExactlyOnce' /\ ConsumedIsOpened' /\ Unheld'
    <3>1. \A x \in processed' : pending'[x] = None
      BY Zenon, <2>1, <1>1, <1>8 DEF ExactlyOnce
    <3>2. ExactlyOnce'
      BY Zenon, <3>1, <1>1, <1>2, <1>8 DEF ExactlyOnce
    <3> QED
      BY Zenon, <3>2, <1>1, <1>2, <1>8 DEF Store, ConsumedIsOpened, Unheld, OpenedAt
  <2>4. Store'
    BY Zenon, <2>1, <2>2, <2>3, <1>1, <1>2, <1>5, <1>8 DEF Store
  <2>5. Lanes'
    BY ZenonT(40), <1>1, <1>2, <1>8, Unlocked, RowsStay, AuthorityStays, Outside
  <2> QED
    BY Zenon, <2>4, <2>5 DEF ReceptionInv
<1>9. CASE /\ Ev[e].kind \in {"rotation", "inheritance"}
           /\ \/ receivers' = receivers /\ relinquished' = relinquished
              \/ receivers[c] = None /\ install_distribution(c, Skd(e))
              \/ refresh_distribution_on(c, Skd(e))
           /\ processed' = processed \cup {e}
           /\ pending' = pending
  <2>1. /\ RowsOk(receivers') /\ DOMAIN relinquished' = Chains
        /\ ConsumedIsOpened' /\ Unheld'
        /\ RowsMove(receivers, receivers')
    <3>1. CASE receivers' = receivers /\ relinquished' = relinquished
      BY Zenon, <3>1, <1>1, <1>2, RowsStay DEF Store, ConsumedIsOpened, Unheld, OpenedAt
    <3>2. CASE receivers[c] = None /\ install_distribution(c, Skd(e))
      <4>1. PICK new, lost : RowStep(c, new, lost)
        BY ZenonT(40), <3>2, <1>4, Installs DEF c
      <4> QED
        BY Zenon, <4>1, <1>1, <1>2, <1>6, RowStored
    <3>3. CASE refresh_distribution_on(c, Skd(e))
      <4>1. PICK new, lost : RowStep(c, new, lost)
        BY Zenon, <3>3, <1>1, <1>4, Refreshes DEF c
      <4> QED
        BY Zenon, <4>1, <1>1, <1>2, <1>6, RowStored
    <3> QED
      BY Zenon, <3>1, <3>2, <3>3, <1>9
  <2>2. Ev[e].kind \notin Kinds
    BY <1>9 DEF Kinds
  <2>3. ExactlyOnce'
    <3>1. \A x \in processed' : pending'[x] = None
      BY Zenon, <2>2, <1>1, <1>4, <1>9 DEF ExactlyOnce
    <3>2. {x \in processed' : Ev[x].kind \in Kinds} = {x \in processed : Ev[x].kind \in Kinds}
      BY Zenon, <2>2, <1>9
    <3> QED
      BY Zenon, <3>1, <3>2, <1>1, <1>2 DEF ExactlyOnce
  <2>4. processed' \subseteq Events
    BY Zenon, <1>1, <1>4, <1>9
  <2>5. Store'
    BY ZenonT(40), <2>1, <2>3, <2>4, <1>1, <1>2, <1>5, <1>9 DEF Store
  <2>6. Lanes'
    BY Zenon, <2>1, <1>1, <1>2, Unlocked, AuthorityStays, Outside
  <2> QED
    BY Zenon, <2>5, <2>6 DEF ReceptionInv
<1> QED
  BY Zenon, <1>7, <1>8, <1>9 DEF e, c

(* The file lane.                                                            *)
LEMMA FilePrepareKeeps ==
    ASSUME ReceptionInv, NEW e \in Events, FilePrepare(e)
    PROVE  ReceptionInv'
<1>1. /\ Store /\ Lanes /\ order \in Orders /\ RowsOk(receivers)
      /\ proj \in [job : Nat, next : Nat]
  BY Zenon DEF ReceptionInv, Store
<1> DEFINE c == Ev[e].chain
           row == receivers[c]
           p == Candidate(e, row, row.chain, current)
<1>2. /\ Ev[e].kind = "file" /\ require_source(current) /\ row # None
      /\ Opens(row.chain, Ev[e].n, Wire(e)) /\ file' = p
  BY Zenon DEF FilePrepare
<1>3. /\ order' = order /\ current' = current /\ receivers' = receivers /\ pending' = pending
      /\ processed' = processed /\ transcript' = transcript /\ relinquished' = relinquished
      /\ proj' = proj /\ lane' = lane
  BY Zenon DEF FilePrepare, durable
<1>4. current = SourceOf(order)
  BY Zenon, <1>2 DEF require_source, Source, SourceOf
<1>5. row \in ReceiverRow /\ Sound(row.chain) /\ row.chain.chain_key.seed = c
  BY Zenon, <1>1, <1>2, EventFacts DEF RowsOk, RowOk
<1>6. Ev[e].kind \in Kinds
  BY Zenon, <1>2 DEF Kinds
<1>7. /\ Proper(p) /\ p.event = e /\ p.revision = row.revision
      /\ Authorised(p, order, current) /\ Grown(row.chain, p)
  <2> DEFINE s == SourceOf(order)
             p0 == Candidate(e, row, row.chain, s)
  <2>1. /\ Proper(p0) /\ p0.event = e /\ p0.revision = row.revision
        /\ Authorised(p0, order, s) /\ Grown(row.chain, p0)
    BY Zenon, <1>1, <1>2, <1>5, <1>6, Prepared
  <2> HIDE DEF s
  <2>2. current = s
    BY Zenon, <1>4 DEF s
  <2>3. p = p0
    BY Zenon, <2>2
  <2> HIDE DEF p, p0
  <2> QED
    BY Zenon, <2>1, <2>2, <2>3
<1>8. p.chain = c
  BY Zenon, <1>7 DEF Proper
<1>9. row.revision <= row.revision
  BY <1>5 DEF ReceiverRow
<1> HIDE DEF p
<1>10. FromRow(p, receivers)
  BY Zenon, <1>2, <1>7, <1>8, <1>9 DEF FromRow
<1>11. FileOk(file', order', current', receivers')
  BY Zenon, <1>2, <1>3, <1>7, <1>10 DEF FileOk
<1>12. Lanes'
  BY Zenon, <1>1, <1>3, <1>11, StillLocked DEF Lanes
<1>13. Store'
  BY Zenon, <1>1, <1>3, StoreKept
<1> QED
  BY Zenon, <1>12, <1>13 DEF ReceptionInv

LEMMA FileCommitKeeps == ASSUME ReceptionInv, FileCommit PROVE ReceptionInv'
<1>1. /\ Store /\ Lanes /\ order \in Orders /\ RowsOk(receivers)
      /\ proj \in [job : Nat, next : Nat]
      /\ pending \in [Events -> PendingRow \cup {None}]
  BY Zenon DEF ReceptionInv, Store
<1>2. /\ file # None /\ file' = None
      /\ order' = order /\ current' = current /\ proj' = proj /\ lane' = lane
  BY Zenon DEF FileCommit
<1>3. Locked'
  BY Zenon, <1>1, <1>2, StillLocked DEF Lanes
<1>4. CASE Installable(file) /\ install_receive(file)
  <2>1. PICK f : f = file
    BY Zenon
  <2>2. Proper(f) /\ FromRow(f, receivers) /\ Ev[f.event].kind = "file"
    BY Zenon, <2>1, <1>1, <1>2 DEF Lanes, FileOk
  <2>3. Installable(f) /\ install_receive(f)
    BY Zenon, <2>1, <1>4
  <2>4. Store' /\ RowsMove(receivers, receivers')
    BY Zenon, <2>2, <2>3, <1>1, <1>2, Received
  <2>5. pending' = [pending EXCEPT ![f.event] = None]
    BY Zenon, <2>3 DEF install_receive
  <2>6. \A e \in Events : Waits(e, pending) => Waits(e, pending')
    <3> SUFFICES ASSUME NEW e \in Events, Waits(e, pending) PROVE Waits(e, pending')
      BY Zenon
    <3>1. Ev[e].kind = "message" /\ pending[e] # None
      BY Zenon DEF Waits
    <3>2. "message" # "file"
      OBVIOUS
    <3>3. e # f.event
      BY Zenon, <3>1, <3>2, <2>2
    <3>4. pending'[e] = pending[e]
      BY Zenon, <3>3, <2>5, <1>1
    <3> QED
      BY Zenon, <3>1, <3>4 DEF Waits
  <2>7. Lanes'
    BY ZenonT(40), <2>4, <2>6, <1>1, <1>2, <1>3, AuthorityStays, Outside
  <2> QED
    BY Zenon, <2>4, <2>7 DEF ReceptionInv
<1>5. CASE UNCHANGED <<receivers, retry, processed, pending, transcript, relinquished>>
  <2>1. Store'
    BY Zenon, <1>1, <1>2, <1>5, StoreKept
  <2>2. Lanes'
    BY Zenon, <1>1, <1>2, <1>3, <1>5, AuthorityStays, RowsStay, Outside
  <2> QED
    BY Zenon, <2>1, <2>2 DEF ReceptionInv
<1> QED
  BY Zenon, <1>4, <1>5 DEF FileCommit

LEMMA CrashKeeps == ASSUME ReceptionInv, Crash PROVE ReceptionInv'
<1>1. Store /\ Lanes /\ order \in Orders /\ proj \in [job : Nat, next : Nat]
  BY Zenon DEF ReceptionInv, Store
<1>2. /\ order' = order /\ current' = current /\ receivers' = receivers /\ pending' = pending
      /\ processed' = processed /\ transcript' = transcript /\ relinquished' = relinquished
      /\ proj' = proj /\ GiveUp /\ file' = None
  BY Zenon DEF Crash, durable
<1>3. Store'
  BY Zenon, <1>1, <1>2, StoreKept
<1>4. Lanes'
  BY Zenon, <1>1, <1>2, GaveUp
<1> QED
  BY Zenon, <1>3, <1>4 DEF ReceptionInv

-----------------------------------------------------------------------------
(* The message lane.                                                         *)

(* A step of the lane that touches no row: the candidates it leaves, the     *)
(* place it reaches.                                                         *)
LEMMA LaneMoves ==
    ASSUME ReceptionInv,
           UNCHANGED <<order, proj, current, receivers, pending, processed, transcript,
                       file, relinquished>>,
           LaneOk(lane', pending), CandsOk(lane'.cands, order, current, receivers),
           lane'.pc \in {"page", "body", "note"} => require_source(current)
    PROVE  ReceptionInv'
<1>1. /\ Store /\ Lanes /\ order \in Orders /\ proj \in [job : Nat, next : Nat]
  BY Zenon DEF ReceptionInv, Store
<1>2. /\ order' = order /\ current' = current /\ receivers' = receivers /\ pending' = pending
      /\ processed' = processed /\ transcript' = transcript /\ relinquished' = relinquished
      /\ proj' = proj /\ file' = file
  BY Zenon
<1>3. Store'
  BY Zenon, <1>1, <1>2, StoreKept
<1>4. Locked'
  BY Zenon, <1>2 DEF Locked, LogLocked, require_source, Source
<1>5. Lanes'
  BY Zenon, <1>1, <1>2, <1>4 DEF Lanes
<1> QED
  BY Zenon, <1>3, <1>5 DEF ReceptionInv

LEMMA LaneGivesUp ==
    ASSUME ReceptionInv, GiveUp,
           UNCHANGED <<order, proj, current, receivers, pending, processed, transcript,
                       file, relinquished>>
    PROVE  ReceptionInv'
<1>1. lane' = Idle
  BY Zenon DEF GiveUp
<1>2. LaneOk(lane', pending) /\ lane'.pc = "idle" /\ lane'.cands = <<>>
  BY Zenon, <1>1, IdleOk
<1>3. CandsOk(lane'.cands, order, current, receivers)
  BY Zenon, <1>2, NoCands
<1>4. lane'.pc \notin {"page", "body", "note"}
  BY <1>2
<1> QED
  BY Zenon, <1>2, <1>3, <1>4, LaneMoves

LEMMA StartKeeps == ASSUME ReceptionInv, Start PROVE ReceptionInv'
<1>1. lane' = [Idle EXCEPT !.pc = "turn", !.bodies = Bodies, !.pages = Pages]
  BY Zenon DEF Start
<1>2. Bodies \in Int /\ Pages \in Int
  BY ReceptionAssumption
<1>3. Idle = [pc |-> "idle", bodies |-> 0, pages |-> 0, cands |-> <<>>,
              ids |-> {}, more |-> FALSE, note |-> None]
  BY Zenon DEF Idle
<1>4. lane' = [pc |-> "turn", bodies |-> Bodies, pages |-> Pages, cands |-> <<>>,
               ids |-> {}, more |-> FALSE, note |-> None]
  BY <1>1, <1>3
<1>5. lane'.cands = <<>> /\ lane'.pc = "turn"
  BY Zenon, <1>4
<1>6. <<>> \in Seq(Candidates)
  BY Zenon, EmptySeq
<1>7. lane' \in LaneType
  BY Zenon, <1>2, <1>4, <1>6 DEF LaneType
<1>8. lane'.pc \notin {"page", "body", "note"}
  BY <1>5
<1>9. LaneOk(lane', pending)
  BY Zenon, <1>5, <1>7, <1>8 DEF LaneOk
<1>10. CandsOk(lane'.cands, order, current, receivers)
  BY Zenon, <1>5, NoCands
<1>11. UNCHANGED <<order, proj, current, receivers, pending, processed, transcript,
                   file, relinquished>>
  BY Zenon DEF Start, durable
<1> QED
  BY Zenon, <1>8, <1>9, <1>10, <1>11, LaneMoves

(* What a page selects is pending, and a message.                            *)
LEMMA PageWaits ==
    ASSUME NEW x
    PROVE  /\ pending_page(x).ids \subseteq Events
           /\ \A e \in pending_page(x).ids : Waits(e, pending)
           /\ pending_page(x).more \in BOOLEAN
<1>1. \A r : \A e \in Waiting(r) : e \in Events /\ Waits(e, pending)
  BY Zenon DEF Waiting, Waits
<1> DEFINE c == RetryChain
           fresh == Waiting(0) \ x
           refused == Woken(c)[1] \ x
           ids == IF refused # {} THEN refused ELSE Woken(c)[2] \ x
<1>2. \A e \in ids : e \in Events /\ Waits(e, pending)
  <2>1. Woken(c)[1] \subseteq Waiting(1) /\ Woken(c)[2] \subseteq Waiting(3)
    BY DEF Woken
  <2> QED
    BY Zenon, <2>1, <1>1
<1>3. CASE c # None /\ (sched.prefer_retry \/ fresh = {})
  <2>1. pending_page(x) = retry_page(c, x)
    BY Zenon, <1>3 DEF pending_page
  <2>2. retry_page(c, x).ids = ids /\ retry_page(c, x).more = TRUE
    BY Zenon DEF retry_page
  <2> QED
    BY Zenon, <2>1, <2>2, <1>2
<1>4. CASE ~(c # None /\ (sched.prefer_retry \/ fresh = {}))
  <2>1. pending_page(x).ids = fresh /\ pending_page(x).more = (fresh # {})
    BY Zenon, <1>4 DEF pending_page
  <2> QED
    BY Zenon, <2>1, <1>1
<1> QED
  BY Zenon, <1>3, <1>4

LEMMA PageKeeps == ASSUME ReceptionInv, Page PROVE ReceptionInv'
<1>1. /\ lane \in LaneType /\ lane.pc \in {"turn", "page"}
      /\ LaneOk(lane, pending) /\ CandsOk(lane.cands, order, current, receivers)
  BY Zenon DEF ReceptionInv, Lanes, LaneOk, Page
<1>2. UNCHANGED <<order, proj, current, receivers, pending, processed, transcript,
                  file, relinquished>>
  BY Zenon DEF Page
<1>3. CASE GiveUp
  BY Zenon, <1>2, <1>3, LaneGivesUp
<1> DEFINE I == pending_page(Private).ids
           m == pending_page(Private).more
           q == IF I # {} THEN "body" ELSE IF m THEN "page" ELSE "commit"
<1>4. CASE /\ require_source(current)
           /\ lane' = [lane EXCEPT !.pages = lane.pages - 1, !.ids = I, !.more = m, !.pc = q]
  <2>1. I \subseteq Events /\ (\A e \in I : Waits(e, pending)) /\ m \in BOOLEAN
    BY Zenon, PageWaits
  <2>2. q \in {"body", "page", "commit"} /\ (q = "body" => I # {})
    OBVIOUS
  <2> HIDE DEF I, m, q
  <2>3. /\ lane' \in LaneType
        /\ lane'.ids = I /\ lane'.pc = q /\ lane'.cands = lane.cands
    <3>1. lane = [pc |-> lane.pc, bodies |-> lane.bodies, pages |-> lane.pages,
                  cands |-> lane.cands, ids |-> lane.ids, more |-> lane.more,
                  note |-> lane.note]
      BY Zenon, <1>1 DEF LaneType
    <3> DEFINE k == lane.pages - 1
    <3>2. k \in Int
      BY <1>1 DEF LaneType
    <3> HIDE DEF k
    <3>3. lane' = [lane EXCEPT !.pages = k, !.ids = I, !.more = m, !.pc = q]
      BY Zenon, <1>4 DEF k
    <3>4. lane' = [pc |-> q, bodies |-> lane.bodies, pages |-> k, cands |-> lane.cands,
                   ids |-> I, more |-> m, note |-> lane.note]
      BY ZenonT(60), <3>1, <3>3
    <3>5. /\ lane.bodies \in Int /\ lane.cands \in Seq(Candidates)
          /\ lane.note \in Notes \cup {None}
          /\ q \in {"idle", "turn", "page", "body", "note", "commit"} /\ I \in SUBSET Events
      BY Zenon, <2>1, <2>2, <1>1 DEF LaneType
    <3>6. lane'.ids = I /\ lane'.pc = q /\ lane'.cands = lane.cands
      BY Zenon, <3>4
    <3>7. lane' \in LaneType
      BY Zenon, <3>2, <3>4, <3>5, <2>1 DEF LaneType
    <3> QED
      BY Zenon, <3>6, <3>7
  <2>4. Len(lane.cands) <= 1
    <3>1. CASE lane.pc = "turn"
      <4>1. lane.cands = <<>>
        BY Zenon, <3>1, <1>1 DEF LaneOk
      <4> QED
        BY <4>1
    <3>2. CASE lane.pc = "page"
      BY Zenon, <3>2, <1>1 DEF LaneOk
    <3> QED
      BY Zenon, <3>1, <3>2, <1>1
  <2>5. q # "turn" /\ q # "note"
    BY <2>2
  <2>6. LaneOk(lane', pending)
    BY Zenon, <2>1, <2>2, <2>3, <2>4, <2>5 DEF LaneOk
  <2>7. CandsOk(lane'.cands, order, current, receivers)
    BY Zenon, <2>3, <1>1
  <2> QED
    BY Zenon, <2>6, <2>7, <1>2, <1>4, LaneMoves
<1> QED
  BY Zenon, <1>3, <1>4 DEF Page

(* A set of numbers has a least one.                                         *)
LEMMA LeastOf ==
    ASSUME NEW T, T \subseteq Nat, T # {}
    PROVE  \E x \in T : \A y \in T : x <= y
<1> DEFINE U == {0..n : n \in T}
<1>1. \A n \in T : IsFiniteSet(0..n) /\ (0..n) \in SUBSET Nat
  BY FS_Interval
<1>2. \A n \in T : (0..n) \in FiniteSubsetsOf(Nat)
  BY Zenon, <1>1 DEF FiniteSubsetsOf
<1>3. U \subseteq FiniteSubsetsOf(Nat) /\ U # {}
  BY ZenonT(30), <1>2
<1>4. PICK x \in U : \A y \in U : <<y, x>> \notin StrictSubsetOrdering(Nat)
  BY ZenonT(30), <1>3, FS_StrictSubsetOrderingWellFounded, WFMin
<1>5. PICK n \in T : x = 0..n
  BY Zenon
<1>6. ASSUME NEW m \in T, m < n PROVE FALSE
  <2>1. /\ (0..m) \in SUBSET Nat /\ (0..n) \in SUBSET Nat
        /\ (0..m) # (0..n) /\ (0..m) \subseteq (0..n)
    BY <1>6
  <2>2. <<0..m, 0..n>> \in StrictSubsetOrdering(Nat)
    BY Zenon, <2>1 DEF StrictSubsetOrdering
  <2> QED
    BY ZenonT(30), <2>2, <1>4, <1>5
<1> QED
  BY <1>6

(* The selector finds the first row of a page: the order is total.           *)
LEMMA FirstChosen ==
    ASSUME NEW ids \in SUBSET Events, ids # {}, \A e \in ids : pending[e] \in PendingRow
    PROVE  First(ids) \in ids
<1> DEFINE key(x) == IF pending[x].reason = 1 THEN pending[x].key
                     ELSE IF pending[x].reason = 3 THEN pending[x].wake_at ELSE 0
           K == {key(x) + 1 : x \in ids}
<1>1. \A x \in ids : /\ pending[x].key \in Nat \cup {-1} /\ pending[x].wake_at \in Nat
                     /\ pending[x].ordinal \in Nat
  BY DEF PendingRow
<1>2. \A x \in ids : key(x) \in Int /\ key(x) + 1 \in Nat
  BY <1>1
<1>3. K \subseteq Nat /\ K # {}
  BY Zenon, <1>2
<1>4. PICK k \in K : \A y \in K : k <= y
  BY Zenon, <1>3, LeastOf
<1> DEFINE low == {x \in ids : key(x) + 1 = k}
           O == {pending[x].ordinal : x \in low}
<1>5. low # {}
  BY Zenon, <1>4
<1>6. O \subseteq Nat /\ O # {}
  BY Zenon, <1>1, <1>5
<1>7. PICK o \in O : \A y \in O : o <= y
  BY Zenon, <1>6, LeastOf
<1>8. PICK e \in low : pending[e].ordinal = o
  BY Zenon, <1>7
<1>9. ASSUME NEW f \in ids PROVE Before(e, f)
  <2>1. key(e) + 1 = k /\ e \in ids /\ k <= key(f) + 1
    BY Zenon, <1>4, <1>8
  <2>2. ASSUME key(e) = key(f) PROVE pending[e].ordinal <= pending[f].ordinal
    <3>1. f \in low
      BY Zenon, <2>1, <2>2
    <3> QED
      BY Zenon, <3>1, <1>7, <1>8
  <2>3. key(e) \in Int /\ key(f) \in Int
    BY Zenon, <2>1, <1>2
  <2> HIDE DEF key
  <2>4. key(e) < key(f) \/ key(e) = key(f)
    BY <2>1, <2>3
  <2> QED
    BY Zenon, <2>2, <2>4 DEF Before, key
<1>10. e \in ids /\ \A f \in ids : Before(e, f)
  BY Zenon, <1>8, <1>9
<1> HIDE DEF low, O, K, key
<1> QED
  BY Zenon, <1>10 DEF First

LEMMA BodyKeeps == ASSUME ReceptionInv, Body PROVE ReceptionInv'
<1> DEFINE e     == First(lane.ids)
           c     == Ev[e].chain
           row   == receivers[c]
           prior == {i \in 1..Len(lane.cands) : lane.cands[i].chain = c}
           base  == IF prior = {} THEN row.chain ELSE lane.cands[1].next
           used  == IF prior = {} THEN row ELSE [row EXCEPT !.revision = row.revision + 1]
           gap   == KeyOutcome(base, Ev[e].n) = "gap"
           stale == prior # {} /\ row # None /\ lane.cands[1].revision # row.revision
           A     == After(e)
           refuse(key, wake) ==
             [A EXCEPT !.pc = "note", !.note = [event |-> e, key |-> key, wake_at |-> wake]]
           p     == Candidate(e, used, base, current)
           take  == [A EXCEPT !.cands = Append(A.cands, p),
                              !.pc = IF Len(lane.cands) = 1 THEN "commit" ELSE A.pc]
<1>1. /\ lane \in LaneType /\ lane.pc = "body" /\ lane.ids # {} /\ Len(lane.cands) <= 1
      /\ \A x \in lane.ids : Waits(x, pending)
      /\ CandsOk(lane.cands, order, current, receivers)
      /\ order \in Orders /\ RowsOk(receivers)
      /\ pending \in [Events -> PendingRow \cup {None}]
  <2>1. lane.pc = "body" /\ LaneOk(lane, pending) /\ CandsOk(lane.cands, order, current, receivers)
    BY Zenon DEF ReceptionInv, Lanes, Body
  <2>2. lane.pc \in {"page", "body", "note"} /\ lane.pc \in {"body", "note"}
    BY Zenon, <2>1
  <2> QED
    BY Zenon, <2>1, <2>2 DEF LaneOk, ReceptionInv, Store
<1>2. current = SourceOf(order) /\ require_source(current)
  <2>1. LogLocked
    BY Zenon, <1>1 DEF LogLocked
  <2>2. require_source(current)
    BY Zenon, <2>1 DEF ReceptionInv, Lanes, Locked
  <2> QED
    BY Zenon, <2>2 DEF require_source, Source, SourceOf
<1>3. UNCHANGED <<order, proj, current, receivers, pending, processed, transcript,
                  file, relinquished>>
  BY Zenon DEF Body, durable
<1>4. \/ GiveUp
      \/ ~stale /\ row = None /\ lane' = refuse(-1, None)
      \/ /\ ~stale /\ row # None
         /\ lane' = refuse(row.key_revision, IF gap THEN MaxOf(Ev[e].n - MAX_SKIP, 0) ELSE None)
      \/ ~stale /\ row # None /\ Opens(base, Ev[e].n, Wire(e)) /\ lane' = take
  BY ZenonT(30) DEF Body
<1> HIDE DEF e
<1>5. e \in lane.ids /\ e \in Events /\ Waits(e, pending)
  <2>1. lane.ids \in SUBSET Events
    BY <1>1 DEF LaneType
  <2>2. \A x \in lane.ids : pending[x] \in PendingRow
    BY Zenon, <2>1, <1>1 DEF Waits
  <2>3. e \in lane.ids
    BY Zenon, <2>1, <2>2, <1>1, FirstChosen DEF e
  <2> QED
    BY Zenon, <2>1, <2>3, <1>1
<1>6. c \in Chains /\ Ev[e].n \in Nat /\ Ev[e].kind \in Kinds
  BY Zenon, <1>5, EventFacts DEF Waits, Kinds
<1>7. /\ A \in LaneType /\ A.ids = lane.ids \ {e} /\ A.cands = lane.cands
      /\ A.pc \in {"page", "body"} /\ (A.pc = "body" => A.ids # {})
  <2> DEFINE q == IF lane.ids = {e} THEN "page" ELSE "body"
             I == lane.ids \ {e}
  <2>1. A = [lane EXCEPT !.bodies = lane.bodies - 1, !.ids = I, !.pc = q]
    BY Zenon DEF After
  <2>2. q \in {"page", "body"} /\ (q = "body" => I # {})
    BY Zenon, <1>5
  <2>3. I \subseteq Events
    <3>1. lane.ids \in SUBSET Events
      BY <1>1 DEF LaneType
    <3> QED
      BY Zenon, <3>1
  <2> HIDE DEF q, I, A
  <2>4. A \in LaneType /\ A.ids = I /\ A.cands = lane.cands /\ A.pc = q
    <3>1. lane = [pc |-> lane.pc, bodies |-> lane.bodies, pages |-> lane.pages,
                  cands |-> lane.cands, ids |-> lane.ids, more |-> lane.more,
                  note |-> lane.note]
      BY Zenon, <1>1 DEF LaneType
    <3> DEFINE k == lane.bodies - 1
    <3>2. k \in Int
      BY <1>1 DEF LaneType
    <3> HIDE DEF k
    <3>3. A = [lane EXCEPT !.bodies = k, !.ids = I, !.pc = q]
      BY Zenon, <2>1 DEF k
    <3>4. A = [pc |-> q, bodies |-> k, pages |-> lane.pages, cands |-> lane.cands,
               ids |-> I, more |-> lane.more, note |-> lane.note]
      BY ZenonT(60), <3>1, <3>3
    <3>5. /\ lane.pages \in Int /\ lane.cands \in Seq(Candidates)
          /\ lane.note \in Notes \cup {None} /\ lane.more \in BOOLEAN
          /\ q \in {"idle", "turn", "page", "body", "note", "commit"} /\ I \in SUBSET Events
      BY Zenon, <2>2, <2>3, <1>1 DEF LaneType
    <3>6. A.ids = I /\ A.pc = q /\ A.cands = lane.cands
      BY Zenon, <3>4
    <3>7. A \in LaneType
      BY Zenon, <3>2, <3>4, <3>5 DEF LaneType
    <3> QED
      BY Zenon, <3>6, <3>7
  <2> QED
    BY Zenon, <2>2, <2>4 DEF I
<1> HIDE DEF A
<1>8. row # None => row \in ReceiverRow /\ Sound(row.chain) /\ row.chain.chain_key.seed = c
  BY Zenon, <1>1, <1>6 DEF RowsOk, RowOk
<1>9. ASSUME NEW k \in Nat \cup {-1}, NEW w \in Nat \cup {None}, lane' = refuse(k, w)
      PROVE  ReceptionInv'
  <2> DEFINE nt == [event |-> e, key |-> k, wake_at |-> w]
  <2>1. nt \in Notes /\ nt.event = e
    BY Zenon, <1>5 DEF Notes
  <2> HIDE DEF nt
  <2>2. lane' = [A EXCEPT !.pc = "note", !.note = nt]
    BY Zenon, <1>9 DEF nt
  <2>3. /\ lane' \in LaneType /\ lane'.pc = "note" /\ lane'.note = nt
        /\ lane'.ids = A.ids /\ lane'.cands = A.cands
    BY <2>1, <2>2, <1>7 DEF LaneType
  <2>4. lane'.pc # "turn" /\ lane'.pc # "body"
    BY <2>3
  <2>5. LaneOk(lane', pending)
    BY Zenon, <2>1, <2>3, <2>4, <1>1, <1>5, <1>7 DEF LaneOk
  <2>6. CandsOk(lane'.cands, order, current, receivers)
    BY Zenon, <2>3, <1>1, <1>7
  <2> QED
    BY Zenon, <2>5, <2>6, <1>2, <1>3, LaneMoves
<1>10. CASE lane' = refuse(-1, None)
  BY Zenon, <1>9, <1>10
<1>11. CASE /\ row # None
            /\ lane' = refuse(row.key_revision, IF gap THEN MaxOf(Ev[e].n - MAX_SKIP, 0) ELSE None)
  <2>1. row.key_revision \in Nat
    BY <1>8, <1>11 DEF ReceiverRow
  <2>2. MaxOf(Ev[e].n - MAX_SKIP, 0) \in Nat
    BY <1>6, SenderKeyAssumption DEF MaxOf
  <2> HIDE DEF gap, row
  <2>3. (IF gap THEN MaxOf(Ev[e].n - MAX_SKIP, 0) ELSE None) \in Nat \cup {None}
    BY Zenon, <2>2
  <2> QED
    BY ZenonT(40), <2>1, <2>3, <1>9, <1>11
<1>12. CASE ~stale /\ row # None /\ Opens(base, Ev[e].n, Wire(e)) /\ lane' = take
  <2>1. row \in ReceiverRow /\ Sound(row.chain) /\ row.chain.chain_key.seed = c
    BY Zenon, <1>8, <1>12
  <2>2. row.revision \in Nat /\ row.revision <= row.revision
    BY <2>1 DEF ReceiverRow
  <2>3. lane.cands \in Seq(Candidates) /\ Len(lane.cands) \in Nat
    BY <1>1 DEF CandsOk
  <2>4. ASSUME prior # {}
        PROVE  /\ Len(lane.cands) = 1 /\ lane.cands[1].chain = c
               /\ lane.cands[1].revision = row.revision
               /\ Sound(lane.cands[1].next) /\ lane.cands[1].next.chain_key.seed = c
    <3>1. PICK i \in 1..Len(lane.cands) : lane.cands[i].chain = c
      BY Zenon, <2>4
    <3>2. i = 1 /\ Len(lane.cands) = 1 /\ Len(lane.cands) >= 1
      <4>1. Len(lane.cands) \in Nat /\ Len(lane.cands) <= 1 /\ i \in 1..Len(lane.cands)
        BY Zenon, <2>3, <1>1
      <4> HIDE DEF c
      <4>2. i = 1 /\ Len(lane.cands) = 1
        BY Zenon, <4>1, OnlyOne
      <4> QED
        BY <4>2
    <3>3. lane.cands[1].chain = c /\ lane.cands[1].revision = row.revision
      BY Zenon, <3>1, <3>2, <2>4, <1>12
    <3>4. FromRow(lane.cands[1], receivers)
      BY Zenon, <3>2, <1>1 DEF CandsOk
    <3> QED
      BY Zenon, <3>2, <3>3, <3>4 DEF FromRow, Grown
  <2>5. Sound(base) /\ base.chain_key.seed = c
    BY Zenon, <2>1, <2>4
  <2>6. used \in ReceiverRow /\ used.revision = IF prior = {} THEN row.revision ELSE row.revision + 1
    <3>1. CASE prior = {}
      BY Zenon, <3>1, <2>1
    <3>2. CASE prior # {}
      <4>1. used = [row EXCEPT !.revision = row.revision + 1]
        BY Zenon, <3>2
      <4> HIDE DEF used, row
      <4>2. used \in ReceiverRow /\ used.revision = row.revision + 1
        BY <4>1, <2>1, <2>2 DEF ReceiverRow
      <4> QED
        BY Zenon, <4>2, <3>2
    <3> QED
      BY Zenon, <3>1, <3>2
  <2> HIDE DEF used, base, prior
  <2>7. /\ Proper(p) /\ p.event = e /\ p.revision = used.revision
        /\ Authorised(p, order, current) /\ Grown(base, p)
    <3> DEFINE s == SourceOf(order)
               p0 == Candidate(e, used, base, s)
    <3>1. /\ Proper(p0) /\ p0.event = e /\ p0.revision = used.revision
          /\ Authorised(p0, order, s) /\ Grown(base, p0)
      BY Zenon, <2>5, <2>6, <1>1, <1>5, <1>6, <1>12, Prepared
    <3> HIDE DEF s
    <3>2. current = s
      BY Zenon, <1>2 DEF s
    <3>3. p = p0
      BY Zenon, <3>2
    <3> HIDE DEF p, p0
    <3> QED
      BY Zenon, <3>1, <3>2, <3>3
  <2>8. p.chain = c
    BY Zenon, <2>7 DEF Proper
  <2> HIDE DEF p
  <2>9. CandsOk(Append(lane.cands, p), order, current, receivers)
    <3>1. CASE prior = {}
      <4>1. \A i \in 1..Len(lane.cands) : lane.cands[i].chain # p.chain
        BY Zenon, <3>1, <2>8 DEF prior
      <4>2. base = row.chain /\ p.revision = row.revision
        BY Zenon, <3>1, <2>6, <2>7 DEF base
      <4>3. FromRow(p, receivers)
        BY Zenon, <4>2, <2>2, <2>7, <2>8, <1>12 DEF FromRow
      <4> QED
        BY Zenon, <4>1, <4>3, <2>7, <1>1, CandsGrow
    <3>2. CASE prior # {}
      <4>1. base = lane.cands[1].next /\ p.revision = row.revision + 1
        BY Zenon, <3>2, <2>6, <2>7 DEF base
      <4>2. /\ Len(lane.cands) = 1 /\ lane.cands[1].chain = p.chain
            /\ p.revision = lane.cands[1].revision + 1 /\ Grown(lane.cands[1].next, p)
        BY Zenon, <4>1, <3>2, <2>4, <2>7, <2>8
      <4> QED
        BY Zenon, <4>2, <2>7, <1>1, CandsGrow
    <3> QED
      BY Zenon, <3>1, <3>2
  <2> DEFINE cs == Append(lane.cands, p)
             q == IF Len(lane.cands) = 1 THEN "commit" ELSE A.pc
  <2>10. cs \in Seq(Candidates)
    BY Zenon, <2>9 DEF CandsOk
  <2>11. Len(cs) = Len(lane.cands) + 1
    <3>1. p \in Candidates
      BY Zenon, <2>7 DEF Proper
    <3> QED
      BY ZenonT(40), <3>1, <2>3, AppendProperties
  <2>12. /\ q \in {"commit", "page", "body"} /\ (q = "body" => A.ids # {})
         /\ q # "commit" => Len(lane.cands) # 1
    BY <1>7
  <2>14. lane' = [A EXCEPT !.cands = cs, !.pc = q]
    BY Zenon, <1>7, <1>12
  <2> HIDE DEF cs, q
  <2>13. q # "commit" => Len(cs) <= 1
    <3>1. Len(lane.cands) \in Nat /\ Len(lane.cands) <= 1 /\ Len(cs) = Len(lane.cands) + 1
      BY Zenon, <2>3, <2>11, <1>1
    <3>2. Len(lane.cands) # 1 => Len(cs) <= 1
      BY Zenon, <3>1, RoomForOne
    <3> QED
      BY Zenon, <3>2, <2>12
  <2>15. lane' \in LaneType /\ lane'.cands = cs /\ lane'.pc = q /\ lane'.ids = A.ids
    BY <2>10, <2>12, <2>14, <1>7 DEF LaneType
  <2>16. q # "turn" /\ q # "note" /\ (q \in {"page", "body", "note"} => q # "commit")
    BY <2>12
  <2>17. LaneOk(lane', pending)
    BY Zenon, <2>12, <2>13, <2>15, <2>16, <1>1, <1>7 DEF LaneOk
  <2>18. CandsOk(lane'.cands, order, current, receivers)
    BY ZenonT(40), <2>9, <2>15 DEF cs
  <2> QED
    BY Zenon, <2>17, <2>18, <1>2, <1>3, LaneMoves
<1>13. CASE GiveUp
  BY Zenon, <1>3, <1>13, LaneGivesUp
<1> QED
  BY Zenon, <1>4, <1>10, <1>11, <1>12, <1>13 DEF e

LEMMA NoteKeeps == ASSUME ReceptionInv, Note PROVE ReceptionInv'
<1> DEFINE e == lane.note.event
           w == lane.note.wake_at
           r == IF w = None THEN 1 ELSE 3
           k == IF w = None THEN 0 ELSE w
           old == pending[e]
           new == [old EXCEPT !.job = order.job, !.key = lane.note.key,
                              !.reason = r, !.wake_at = k]
           q == IF lane.ids = {} THEN "page" ELSE "body"
<1>1. /\ lane \in LaneType /\ lane.pc = "note" /\ Len(lane.cands) <= 1
      /\ \A x \in lane.ids : Waits(x, pending)
      /\ lane.note \in Notes /\ Waits(e, pending) /\ e \notin lane.ids
      /\ Store /\ Lanes
      /\ CandsOk(lane.cands, order, current, receivers)
      /\ order \in Orders
      /\ pending \in [Events -> PendingRow \cup {None}]
  <2>1. lane.pc = "note" /\ LaneOk(lane, pending) /\ CandsOk(lane.cands, order, current, receivers)
    BY Zenon DEF ReceptionInv, Lanes, Note
  <2>2. lane.pc \in {"page", "body", "note"} /\ lane.pc \in {"body", "note"}
    BY Zenon, <2>1
  <2> QED
    BY Zenon, <2>1, <2>2 DEF LaneOk, ReceptionInv, Store
<1>2. /\ pending' = [pending EXCEPT ![e] = new]
      /\ lane' = [lane EXCEPT !.note = None, !.pc = q]
      /\ order' = order /\ proj' = proj /\ current' = current /\ receivers' = receivers
      /\ processed' = processed /\ transcript' = transcript /\ file' = file
      /\ relinquished' = relinquished
  BY Zenon DEF Note
<1>3. e \in Events /\ lane.note.key \in Nat \cup {-1} /\ w \in Nat \cup {None}
  BY <1>1 DEF Notes
<1>4. old \in PendingRow /\ old # None
  BY Zenon, <1>1, <1>3 DEF Waits
<1>5. r \in {0, 1, 3}
  OBVIOUS
<1>6. k \in Nat
  BY <1>3
<1>7. order.job \in Nat
  BY <1>1 DEF Orders
<1>8. q \in {"page", "body"} /\ (q = "body" => lane.ids # {})
  OBVIOUS
<1> HIDE DEF r, k, q, w
<1>9. new \in PendingRow
  <2> HIDE DEF old
  <2> QED
    BY <1>3, <1>4, <1>5, <1>6, <1>7 DEF PendingRow
<1> HIDE DEF new, e
<1>10. /\ pending' \in [Events -> PendingRow \cup {None}]
       /\ \A x \in Events : x # e => pending'[x] = pending[x]
  BY Zenon, <1>1, <1>2, <1>3, <1>9
<1>11. Ev[e].kind \in Kinds /\ e \notin processed
  <2>1. Ev[e].kind \in Kinds
    BY Zenon, <1>1, <1>3, <1>4 DEF Store, old
  <2>2. e \notin processed
    BY Zenon, <1>1, <1>4 DEF Store, ExactlyOnce, old
  <2> QED
    BY Zenon, <2>1, <2>2
<1>12. \A x \in Events : pending'[x] # None => Ev[x].kind \in Kinds
  BY Zenon, <1>1, <1>10, <1>11 DEF Store
<1>13. ExactlyOnce'
  <2>1. \A x \in processed' : pending'[x] = None
    BY Zenon, <1>1, <1>2, <1>10, <1>11 DEF Store, ExactlyOnce
  <2> QED
    BY Zenon, <2>1, <1>1, <1>2 DEF Store, ExactlyOnce
<1>14. ConsumedIsOpened' /\ Unheld'
  BY Zenon, <1>1, <1>2 DEF Store, ConsumedIsOpened, Unheld, OpenedAt
<1>15. Store'
  BY Zenon, <1>1, <1>2, <1>10, <1>12, <1>13, <1>14 DEF Store
<1>16. /\ lane' \in LaneType /\ lane'.pc = q /\ lane'.ids = lane.ids /\ lane'.cands = lane.cands
       /\ lane.ids \subseteq Events
  BY <1>1, <1>2, <1>8 DEF LaneType
<1>17. q # "turn" /\ q # "note"
  BY <1>8
<1>18. \A x \in lane.ids : Waits(x, pending')
  BY Zenon, <1>1, <1>10, <1>16 DEF Waits
<1>19. LaneOk(lane', pending')
  BY Zenon, <1>1, <1>8, <1>16, <1>17, <1>18 DEF LaneOk
<1>20. Locked'
  <2>1. LogLocked
    BY Zenon, <1>1 DEF LogLocked
  <2> QED
    BY Zenon, <2>1, <1>1, <1>2 DEF Lanes, Locked, require_source, Source
<1>21. Lanes'
  BY Zenon, <1>1, <1>2, <1>16, <1>19, <1>20 DEF Lanes
<1> QED
  BY Zenon, <1>15, <1>21 DEF ReceptionInv

(* Once the first candidate is the row, the second is one open ahead of it.  *)
LEMMA CandsCommit ==
    ASSUME NEW cs, NEW o, NEW cur, NEW rec, NEW rec2,
           CandsOk(cs, o, cur, rec), cs # <<>>, RowsOk(rec), RowsMove(rec, rec2),
           rec2[cs[1].chain] # None,
           rec2[cs[1].chain].revision = cs[1].revision + 1,
           rec2[cs[1].chain].chain = cs[1].next
    PROVE  CandsOk(Tail(cs), o, cur, rec2)
<1> DEFINE c == cs[1].chain
<1>1. cs \in Seq(Candidates) /\ Len(cs) <= 2 /\ Len(cs) \in Nat /\ Len(cs) >= 1
  <2>1. cs \in Seq(Candidates) /\ Len(cs) <= 2
    BY Zenon DEF CandsOk
  <2> QED
    BY <2>1
<1>2. CASE Len(cs) = 1
  <2>1. Tail(cs) = <<>>
    BY Zenon, <1>1, <1>2, TailOfOne
  <2> QED
    BY Zenon, <2>1, NoCands
<1>3. CASE Len(cs) = 2
  <2> DEFINE t == Tail(cs)
  <2>1. /\ t \in Seq(Candidates) /\ Len(t) = 1 /\ t[1] = cs[2]
        /\ 1 \in 1..Len(cs) /\ 2 \in 1..Len(cs) /\ Len(t) <= 2 /\ Len(t) # 2
    BY Zenon, <1>1, <1>3, TailOfTwo
  <2> HIDE DEF t
  <2>2. \A i \in 1..Len(t) : i = 1
    BY <2>1
  <2>3. Proper(cs[2]) /\ Authorised(cs[2], o, cur) /\ cs[1] \in Candidates /\ cs[2] \in Candidates
    BY Zenon, <2>1, <1>1, ElementOfSeq DEF CandsOk
  <2>4. FromRow(cs[2], rec2)
    <3>1. CASE cs[2].chain = c
      <4>1. cs[2].revision = cs[1].revision + 1 /\ Grown(cs[1].next, cs[2])
        BY Zenon, <3>1, <1>3 DEF CandsOk, Stacked
      <4>2. cs[2].revision \in Nat
        BY <2>3 DEF Candidates
      <4>3. cs[2].revision <= cs[2].revision
        BY <4>2
      <4> QED
        BY Zenon, <4>1, <4>3, <3>1 DEF FromRow
    <3>2. CASE cs[2].chain # c
      <4>1. FromRow(cs[2], rec)
        BY Zenon, <3>2, <1>3 DEF CandsOk, Stacked
      <4> QED
        BY Zenon, <4>1, <2>3, FromRowKept
    <3> QED
      BY Zenon, <3>1, <3>2
  <2> QED
    BY Zenon, <2>1, <2>2, <2>3, <2>4 DEF CandsOk, t
<1>4. Len(cs) = 1 \/ Len(cs) = 2
  BY Zenon, <1>1, OneOrTwo
<1> QED
  BY Zenon, <1>2, <1>3, <1>4

LEMMA CommitKeeps == ASSUME ReceptionInv, Commit PROVE ReceptionInv'
<1>1. /\ Store /\ Lanes /\ order \in Orders /\ RowsOk(receivers)
      /\ proj \in [job : Nat, next : Nat]
      /\ lane \in LaneType /\ CandsOk(lane.cands, order, current, receivers)
      /\ FileOk(file, order, current, receivers)
  BY Zenon DEF ReceptionInv, Store, Lanes, LaneOk
<1>2. /\ lane.pc = "commit" /\ lane.cands # <<>>
      /\ order' = order /\ current' = current /\ proj' = proj /\ file' = file
  BY Zenon DEF Commit
<1>3. PICK p : p = Head(lane.cands)
  BY Zenon
<1>4. /\ lane.cands \in Seq(Candidates) /\ Len(lane.cands) >= 1 /\ p = lane.cands[1]
      /\ 1 \in 1..Len(lane.cands)
  <2>1. lane.cands \in Seq(Candidates)
    BY Zenon, <1>1 DEF CandsOk
  <2> QED
    BY <2>1, <1>2, <1>3
<1>5. CASE Installable(p) /\ install_receive(p) /\ lane' = [lane EXCEPT !.cands = Tail(lane.cands)]
  <2>1. Proper(p) /\ FromRow(p, receivers)
    BY Zenon, <1>1, <1>4 DEF CandsOk
  <2>2. /\ Store' /\ RowsMove(receivers, receivers')
        /\ receivers'[p.chain].revision = p.revision + 1
        /\ receivers'[p.chain].chain = p.next
        /\ receivers'[p.chain] # None
    BY Zenon, <2>1, <1>1, <1>2, <1>5, Received
  <2>3. CandsOk(Tail(lane.cands), order, current, receivers')
    BY Zenon, <2>2, <1>1, <1>2, <1>4, CandsCommit
  <2>4. Tail(lane.cands) \in Seq(Candidates)
    BY Zenon, <2>3 DEF CandsOk
  <2>5. lane' \in LaneType /\ lane'.pc = "commit" /\ lane'.cands = Tail(lane.cands)
    BY <2>4, <1>1, <1>2, <1>5 DEF LaneType
  <2>6. lane'.pc \notin {"turn", "page", "body", "note"}
    BY <2>5
  <2>7. LaneOk(lane', pending')
    BY Zenon, <2>5, <2>6 DEF LaneOk
  <2>8. Locked'
    BY Zenon, <2>6 DEF Locked, LogLocked
  <2>9. FileOk(file', order', current', receivers')
    BY Zenon, <2>2, <1>1, <1>2, AuthorityStays, FileKept
  <2>10. Lanes'
    BY Zenon, <2>3, <2>5, <2>7, <2>8, <2>9, <1>2 DEF Lanes
  <2> QED
    BY Zenon, <2>2, <2>10 DEF ReceptionInv
<1>6. CASE GiveUp /\ UNCHANGED <<receivers, retry, processed, pending, transcript, relinquished>>
  BY Zenon, <1>2, <1>6, LaneGivesUp
<1> QED
  BY Zenon, <1>3, <1>5, <1>6 DEF Commit

LEMMA CommittedKeeps == ASSUME ReceptionInv, Committed PROVE ReceptionInv'
<1>1. /\ lane \in LaneType /\ lane.cands = <<>>
  BY Zenon DEF ReceptionInv, Lanes, LaneOk, Committed
<1>2. UNCHANGED <<order, proj, current, receivers, pending, processed, transcript,
                  file, relinquished>>
  BY Zenon DEF Committed, durable
<1>3. lane' = [lane EXCEPT !.pc = "turn", !.ids = {}] \/ lane' = Idle
  BY Zenon DEF Committed
<1>4. LaneOk(lane', pending) /\ lane'.cands = <<>> /\ lane'.pc \notin {"page", "body", "note"}
  <2>1. CASE lane' = [lane EXCEPT !.pc = "turn", !.ids = {}]
    <3>1. lane' \in LaneType /\ lane'.cands = <<>> /\ lane'.pc = "turn"
      BY <2>1, <1>1 DEF LaneType
    <3>2. lane'.pc \notin {"page", "body", "note"}
      BY <3>1
    <3> QED
      BY Zenon, <3>1, <3>2 DEF LaneOk
  <2>2. CASE lane' = Idle
    <3>1. LaneOk(lane', pending) /\ lane'.cands = <<>> /\ lane'.pc = "idle"
      BY Zenon, <2>2, IdleOk
    <3>2. lane'.pc \notin {"page", "body", "note"}
      BY <3>1
    <3> QED
      BY Zenon, <3>1, <3>2
  <2> QED
    BY Zenon, <2>1, <2>2, <1>3
<1>5. CandsOk(lane'.cands, order, current, receivers)
  BY Zenon, <1>4, NoCands
<1> QED
  BY Zenon, <1>2, <1>4, <1>5, LaneMoves

LEMMA ReceptionInit == ASSUME Init PROVE ReceptionInv
<1>1. /\ order = [job |-> 0, rev |-> 0, ready |-> TRUE, rows |-> <<>>]
      /\ proj = [job |-> 0, next |-> 0]
      /\ receivers = [c \in Chains |-> None]
      /\ pending = [e \in Events |-> None]
      /\ processed = {} /\ transcript = <<>>
      /\ lane = Idle /\ file = None
      /\ relinquished = [c \in Chains |-> {}]
  BY Zenon DEF Init
<1>2. <<>> \in Seq(Events) /\ 0 \in Nat /\ Len(<<>>) = 0 /\ 1..0 = {}
  BY EmptySeq
<1>3. order \in Orders /\ proj \in [job : Nat, next : Nat]
  BY Zenon, <1>1, <1>2 DEF Orders
<1>4. /\ pending \in [Events -> PendingRow \cup {None}] /\ processed \subseteq Events
      /\ \A e \in Events : pending[e] # None => Ev[e].kind \in Kinds
      /\ transcript \in Seq(Events) /\ DOMAIN relinquished = Chains
      /\ \A c \in Chains : receivers[c] = None
      /\ DOMAIN receivers = Chains
  BY Zenon, <1>1, <1>2
<1>5. RowsOk(receivers)
  BY Zenon, <1>4 DEF RowsOk, RowOk
<1>6. Elems(transcript) = {}
  BY Zenon, <1>1, <1>2 DEF Elems
<1>7. ExactlyOnce
  BY Zenon, <1>1, <1>2, <1>6 DEF ExactlyOnce
<1>8. ConsumedIsOpened /\ Unheld
  BY Zenon, <1>4, <1>6 DEF ConsumedIsOpened, Unheld, OpenedAt
<1>9. Store
  BY Zenon, <1>3, <1>4, <1>5, <1>7, <1>8 DEF Store
<1>10. LaneOk(lane, pending) /\ lane.cands = <<>> /\ lane.pc = "idle"
  BY Zenon, <1>1, IdleOk
<1>11. lane.pc \notin {"page", "body", "note"}
  BY <1>10
<1>12. CandsOk(lane.cands, order, current, receivers)
  BY Zenon, <1>10, NoCands
<1>13. Lanes
  BY Zenon, <1>1, <1>10, <1>11, <1>12 DEF Lanes, Locked, LogLocked, FileOk
<1> QED
  BY Zenon, <1>9, <1>13 DEF ReceptionInv

LEMMA ReceptionStep == ASSUME ReceptionInv, [Next]_vars PROVE ReceptionInv'
<1>1. CASE UNCHANGED vars
  <2>1. /\ UNCHANGED <<order, proj, current, receivers, pending, processed, transcript,
                       file, relinquished>>
        /\ lane' = lane
    BY Zenon, <1>1 DEF vars
  <2>2. LaneOk(lane', pending) /\ CandsOk(lane'.cands, order, current, receivers)
    BY Zenon, <2>1 DEF ReceptionInv, Lanes
  <2>3. lane'.pc \in {"page", "body", "note"} => require_source(current)
    BY Zenon, <2>1 DEF ReceptionInv, Lanes, Locked, LogLocked
  <2> QED
    BY Zenon, <2>1, <2>2, <2>3, LaneMoves
<1>2. ASSUME NEW e \in Events, AppendEvent(e) PROVE ReceptionInv'
  BY Zenon, <1>2, AppendKeeps
<1>3. ASSUME NEW e \in Events, FilePrepare(e) PROVE ReceptionInv'
  BY Zenon, <1>3, FilePrepareKeeps
<1> QED
  BY ZenonT(40), <1>1, <1>2, <1>3, ReorderKeeps, ProjectKeeps, InstallCurrentKeeps, StartKeeps,
     PageKeeps, BodyKeeps, NoteKeeps, CommitKeeps, CommittedKeeps, FileCommitKeeps, CrashKeeps
     DEF Next

-----------------------------------------------------------------------------
(* The theorems.                                                             *)

(* The invariant of both lanes, the repository and the projection.           *)
THEOREM ReceptionInvariant == Spec => []ReceptionInv
<1>1. Init => ReceptionInv
  BY Zenon, ReceptionInit
<1>2. ReceptionInv /\ [Next]_vars => ReceptionInv'
  BY Zenon, ReceptionStep
<1> QED
  BY <1>1, <1>2, PTL DEF Spec

(* install_receive_on consumes a source once: a message or file card enters  *)
(* the transcript at most once and exactly when it leaves the pending table, *)
(* whatever the two lanes, appends, rebuilds and crashes do in between.      *)
THEOREM ReceivedOnce == Spec => []ExactlyOnce
<1>1. ReceptionInv => ExactlyOnce
  BY Zenon DEF ReceptionInv, Store
<1> QED
  BY <1>1, ReceptionInvariant, PTL

(* The revision check of install_receive_on is enough: the positions a       *)
(* receiver row can no longer open are the ones it opened, never had or lost *)
(* to the cap, so no lane overwrites the checkpoint of the other and none    *)
(* publishes a key without its message.                                      *)
THEOREM NothingConsumedUnread == Spec => []ConsumedIsOpened
<1>1. ReceptionInv => ConsumedIsOpened
  BY Zenon DEF ReceptionInv, Store
<1> QED
  BY <1>1, ReceptionInvariant, PTL

(* require_source fences every commit: plaintext is published only while the *)
(* projection's current state is the state of the ready order.               *)
THEOREM PublishedUnderAuthority == Spec => AuthorityFence
<1> DEFINE A == transcript' # transcript => current = Source /\ order.ready
<1>1. ASSUME ReceptionInv, [Next]_vars PROVE [A]_vars
  <2>1. ASSUME NEW p, Installable(p), Authorised(p, order, current)
        PROVE  current = Source /\ order.ready
    <3>1. order.ready /\ p.src = Source
      BY Zenon, <2>1 DEF Installable, require_source
    <3> QED
      BY Zenon, <3>1, <2>1 DEF Authorised, Source, SourceOf
  <2>2. CASE Commit /\ Installable(Head(lane.cands))
    <3>1. lane.cands \in Seq(Candidates) /\ lane.cands # <<>>
      BY Zenon, <2>2, <1>1 DEF ReceptionInv, Lanes, CandsOk, Commit
    <3>2. Head(lane.cands) = lane.cands[1] /\ 1 \in 1..Len(lane.cands)
      BY <3>1
    <3>3. Authorised(Head(lane.cands), order, current)
      BY Zenon, <3>2, <1>1 DEF ReceptionInv, Lanes, CandsOk
    <3> QED
      BY Zenon, <3>3, <2>1, <2>2
  <2>3. CASE FileCommit /\ Installable(file)
    <3>1. Authorised(file, order, current)
      BY Zenon, <2>3, <1>1 DEF ReceptionInv, Lanes, FileOk, FileCommit
    <3> QED
      BY Zenon, <3>1, <2>1, <2>3
  <2>4. CASE UNCHANGED transcript
    BY Zenon, <2>4
  <2>5. \/ Commit /\ Installable(Head(lane.cands))
        \/ FileCommit /\ Installable(file)
        \/ UNCHANGED transcript
    <3>1. CASE UNCHANGED vars
      BY Zenon, <3>1 DEF vars
    <3>2. CASE \E e \in Events : AppendEvent(e) \/ FilePrepare(e)
      BY Zenon, <3>2 DEF AppendEvent, FilePrepare, durable
    <3>3. CASE Reorder \/ ProjectRow \/ install_current
      BY Zenon, <3>3 DEF Reorder, ProjectRow, install_current
    <3>4. CASE Start \/ Page \/ Body \/ Note \/ Committed
      BY Zenon, <3>4 DEF Start, Page, Body, Note, Committed, durable
    <3>5. CASE Commit
      BY Zenon, <3>5 DEF Commit
    <3>6. CASE FileCommit
      BY Zenon, <3>6 DEF FileCommit
    <3>7. CASE Crash
      BY Zenon, <3>7 DEF Crash, durable
    <3> QED
      BY ZenonT(40), <3>1, <3>2, <3>3, <3>4, <3>5, <3>6, <3>7, <1>1 DEF Next
  <2> QED
    BY Zenon, <2>2, <2>3, <2>4, <2>5
<1>2. ReceptionInv /\ [Next]_vars => [A]_vars
  BY Zenon, <1>1
<1> QED
  BY <1>2, ReceptionInvariant, PTL DEF Spec, AuthorityFence

===============================================================================
