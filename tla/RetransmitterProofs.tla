------------------------ MODULE RetransmitterProofs ------------------------
(* Proofs about the retransmitter of ib_transport_protocol, for every      *)
(* number of queue pairs, table size, FIFO depth and stream of operations. *)
EXTENDS Retransmitter, BasicLemmas, FiniteSetTheorems, SequenceTheorems

-----------------------------------------------------------------------------
(* Types *)

Asking == {"INSERT_0", "UPDATE_0", "RETRANS_0", "TIMER_RETRANS_0"}
Locking == {"INSERT_0", "UPDATE_0"}
Walking == {"UPDATE_1", "RETRANS_1", "RETRANS_2"}
States == {"MAIN", "INSERT_1"} \cup Asking \cup Walking

PReq == fifo["ptrReq"]
PUpd == fifo["ptrUpd"]
PRsp == fifo["ptrRsp"]
MReq == fifo["metaReq"]
MRsp == fifo["metaRsp"]
Fifos == {"ptrReq", "ptrUpd", "ptrRsp", "metaReq", "metaRsp"}

PtrEntry == [valid : BOOLEAN, head : Indices, tail : Indices]
MetaEntry == {m \in [valid : BOOLEAN, isTail : BOOLEAN, next : Indices, e : Request \cup {<<>>}] :
                m.valid => m.e \in Request}
PtrRequests == [qpn : Qps, lock : BOOLEAN]
PtrUpdates == [qpn : Qps, entry : PtrEntry]
Reads == [kind : {"read"}, idx : Indices]
Writes == [kind : {"write"}, idx : Indices, entry : MetaEntry]
Links == [kind : {"append"}, idx : Indices, next : Indices]
MetaRequests == Reads \cup Writes \cup Links
Table == [Indices -> MetaEntry]
AnyOp == Answer \cup Demand \cup Insertion

Queued(f) == DOMAIN f = Kinds /\ \A k \in Kinds : f[k] \in Seq(Operations(k))
FsmTypes == fsm \in [state : States, op : Seq(AnyOp), idx : Indices, ptr : PtrEntry]
HoldsOp ==
  /\ fsm.state \in {"INSERT_0", "INSERT_1"} => fsm.op[1] \in Insertion
  /\ fsm.state \in {"UPDATE_0", "UPDATE_1"} => fsm.op[1] \in Answer
  /\ fsm.state \in {"RETRANS_0", "RETRANS_1", "RETRANS_2", "TIMER_RETRANS_0"}
        => fsm.op[1] \in Demand
PtrTypes == ptr \in [table : [Qps -> PtrEntry], locked : Seq(Qps), wait : Seq(Qps)]
MetaTypes == meta \in Table
FreeTypes == free \in [counter : 0 .. TableSize, list : Seq(Indices), release : Seq(Indices)]
FifoTypes ==
  /\ DOMAIN fifo = Fifos
  /\ PReq \in Seq(PtrRequests) /\ PUpd \in Seq(PtrUpdates) /\ PRsp \in Seq(PtrEntry)
  /\ MReq \in Seq(MetaRequests) /\ MRsp \in Seq(MetaEntry)
Types == /\ Queued(script) /\ Queued(in) /\ FsmTypes /\ HoldsOp /\ PtrTypes /\ MetaTypes
         /\ FreeTypes /\ FifoTypes

(* The pointer of a queue pair is asked for, answered, and written back    *)
(* while its lock is held, before the next one is asked for.               *)
LockHeld == \/ fsm.state \in Locking /\ PRsp # <<>>
            \/ fsm.state \in {"INSERT_1", "UPDATE_1"}
Asked == /\ fsm.state \in Asking =>
              \/ PRsp = <<>> /\ PReq = <<[qpn |-> Qpn, lock |-> fsm.state \in Locking]>>
              \/ PReq = <<>> /\ PUpd = <<>> /\ PRsp = <<ptr.table[Qpn]>>
         /\ fsm.state \notin Asking => PReq = <<>> /\ PRsp = <<>>
         /\ fsm.state \notin Asking \cup {"MAIN"} => PUpd = <<>>
         /\ Len(PUpd) <= 1
Locked == /\ ptr.wait = <<>>
          /\ ptr.locked = IF PUpd # <<>> THEN <<PUpd[1].qpn>>
                          ELSE IF LockHeld THEN <<Qpn>> ELSE <<>>
Register ==
  /\ fsm.state = "INSERT_1" =>
       ptr.table[Qpn].valid /\ fsm.ptr = [ptr.table[Qpn] EXCEPT !.tail = fsm.idx]
  /\ fsm.state = "UPDATE_1" =>
       ptr.table[Qpn].valid /\ fsm.ptr = ptr.table[Qpn] /\ fsm.idx = fsm.ptr.head

(* One entry is read at a time, after everything that was written.         *)
Reading ==
  /\ fsm.state \notin Walking => MRsp = <<>>
  /\ fsm.state \in Walking =>
       \/ MRsp = <<>> /\ MReq # <<>> /\ MReq[Len(MReq)].kind = "read"
       \/ Len(MRsp) = 1 /\ MReq = <<>>
       \/ MRsp = <<>> /\ MReq = <<>> /\ fsm.state = "RETRANS_1"
  /\ \A i \in 1 .. Len(MReq) : MReq[i].kind = "read" => i = Len(MReq) /\ fsm.state \in Walking

Control == Asked /\ Locked /\ Register /\ Reading

-----------------------------------------------------------------------------
(* The lists *)

IsList(p, t, s) ==
  /\ s \in Seq(Indices)
  /\ p.valid <=> s # <<>>
  /\ s # <<>> => s[1] = p.head /\ s[Len(s)] = p.tail
  /\ \A k \in 1 .. Len(s) : t[s[k]].valid
  /\ \A k \in 1 .. Len(s) - 1 : t[s[k]].next = s[k + 1] /\ ~t[s[k]].isTail

(* The entry at the end says so, but while the next one is being written.  *)
Growing(q) == fsm.state = "INSERT_1" /\ Qpn = q
EndsWell(q, t, s) ==
  s # <<>> => IF Growing(q) THEN t[s[Len(s)]].next = fsm.idx /\ ~t[s[Len(s)]].isTail
              ELSE t[s[Len(s)]].isTail
Lists == \A q \in Qps : /\ IsList(PtrOf(q), MetaNow, Chain(q))
                        /\ EndsWell(q, MetaNow, Chain(q))

(* An assignment of indices to places in which each index has one spot.    *)
Ledger(at) ==
  /\ \A i \in Indices : \E x \in Tags : \E k \in 1 .. Len(at[x]) : at[x][k] = i
  /\ \A x, y \in Tags : \A j \in 1 .. Len(at[x]), k \in 1 .. Len(at[y]) :
        at[x][j] = at[y][k] => x = y /\ j = k

(* A walk is at an entry of the list.                                      *)
WalkAt(k) ==
  \/ MRsp # <<>> /\ MRsp[1] = MetaNow[Chain(Qpn)[k]]
  \/ MRsp = <<>> /\ MReq # <<>> /\ MReq[Len(MReq)].idx = Chain(Qpn)[k]
InList ==
  fsm.state \in Walking /\ (MRsp # <<>> \/ MReq # <<>>) =>
     \E k \in 1 .. Len(Chain(Qpn)) : WalkAt(k) /\ (fsm.state = "UPDATE_1" => k = 1)

Inv == Types /\ Control /\ Lists /\ Ledger(Places) /\ InList
-----------------------------------------------------------------------------
(* The table after the requests on their way *)

(* A request leaves a table of entries. *)
LEMMA AppliedType ==
  ASSUME NEW t \in Table, NEW r \in MetaRequests
  PROVE  Applied(t, r) \in Table
<1>1. CASE r \in Reads
  BY <1>1 DEF Applied, Reads
<1>2. CASE r \in Writes
  BY <1>2 DEF Applied, Writes, Table
<1>3. CASE r \in Links
  <2>1. r.kind = "append" /\ r.idx \in Indices /\ r.next \in Indices
    BY <1>3 DEF Links
  <2>2. t[r.idx] \in MetaEntry
    BY <2>1 DEF Table
  <2>3. [t[r.idx] EXCEPT !.next = r.next, !.isTail = FALSE] \in MetaEntry
    BY <2>1, <2>2 DEF MetaEntry
  <2>4. Applied(t, r) = [t EXCEPT ![r.idx] = [t[r.idx] EXCEPT !.next = r.next, !.isTail = FALSE]]
    BY <2>1 DEF Applied, Table
  <2> QED
    BY <2>1, <2>3, <2>4 DEF Table
<1> QED
  BY <1>1, <1>2, <1>3 DEF MetaRequests

(* The tables after each of the requests. *)
Stages(t, reqs, g) ==
  /\ g \in [0 .. Len(reqs) -> Table] /\ g[0] = t
  /\ \A n \in 1 .. Len(reqs) : g[n] = Applied(g[n - 1], reqs[n])

(* There is one such sequence of tables. *)
LEMMA StagesExist ==
  ASSUME NEW t \in Table, NEW reqs \in Seq(MetaRequests)
  PROVE  \E g : Stages(t, reqs, g)
<1> DEFINE Part(n, g) == /\ g \in [0 .. n -> Table] /\ g[0] = t
                         /\ \A m \in 1 .. n : g[m] = Applied(g[m - 1], reqs[m])
           Bad == {n \in Nat : n <= Len(reqs) /\ ~\E g : Part(n, g)}
<1>1. Len(reqs) \in Nat /\ \A n \in 1 .. Len(reqs) : reqs[n] \in MetaRequests
  OBVIOUS
<1>2. Bad = {}
  <2> SUFFICES ASSUME Bad # {} PROVE FALSE
    OBVIOUS
  <2>1. PICK n \in Bad : \A m \in Bad : n <= m
    BY LeastNumber
  <2>2. n # 0
    <3>1. Part(0, [m \in 0 .. 0 |-> t])
      OBVIOUS
    <3> QED
      BY <3>1
  <2>3. n \in Nat \ {0} /\ n - 1 \in Nat /\ n <= Len(reqs) /\ n - 1 <= Len(reqs) /\ n - 1 \notin Bad
    <3>1. n \in Nat \ {0} /\ n <= Len(reqs)
      BY <2>1, <2>2
    <3>2. ~(n <= n - 1)
      BY <3>1
    <3>3. n - 1 \notin Bad
      <4> HIDE DEF Bad
      <4> QED
        BY <2>1, <3>2
    <3> QED
      BY <1>1, <3>1, <3>3
  <2>4. PICK g : Part(n - 1, g)
    BY <2>3
  <2> DEFINE h == [m \in 0 .. n |-> IF m = n THEN Applied(g[n - 1], reqs[n]) ELSE g[m]]
  <2>5. g \in [0 .. n - 1 -> Table] /\ g[0] = t
        /\ \A m \in 1 .. n - 1 : g[m] = Applied(g[m - 1], reqs[m])
    BY <2>4
  <2>6. Applied(g[n - 1], reqs[n]) \in Table
    BY <2>3, <2>5, <1>1, AppliedType
  <2>7. h \in [0 .. n -> Table] /\ h[0] = t
    BY <2>3, <2>5, <2>6
  <2>8. ASSUME NEW m \in 1 .. n PROVE h[m] = Applied(h[m - 1], reqs[m])
    <3>1. h[m - 1] = g[m - 1]
      BY <2>3
    <3>2. CASE m = n
      BY <3>1, <3>2
    <3>3. CASE m # n
      BY <2>3, <2>5, <3>1, <3>3
    <3> QED
      BY <3>2, <3>3
  <2>9. Part(n, h)
    BY <2>7, <2>8
  <2> QED
    BY <2>9, <2>1
<1>3. \E g : Part(Len(reqs), g)
  BY <1>1, <1>2
<1> QED
  BY <1>3 DEF Stages

LEMMA StagesUnique ==
  ASSUME NEW t \in Table, NEW reqs \in Seq(MetaRequests), NEW g, NEW h,
         Stages(t, reqs, g), Stages(t, reqs, h)
  PROVE  g = h
<1> DEFINE Bad == {n \in Nat : n <= Len(reqs) /\ g[n] # h[n]}
<1>1. Len(reqs) \in Nat
  OBVIOUS
<1>2. Bad = {}
  <2> SUFFICES ASSUME Bad # {} PROVE FALSE
    OBVIOUS
  <2>1. PICK n \in Bad : \A m \in Bad : n <= m
    BY LeastNumber
  <2>2. n # 0
    BY <2>1 DEF Stages
  <2>3. n \in 1 .. Len(reqs) /\ n - 1 \in Nat /\ n - 1 <= Len(reqs) /\ n - 1 \notin Bad
    BY <2>1, <2>2, <1>1
  <2>4. g[n - 1] = h[n - 1]
    BY <2>3
  <2> QED
    BY <2>1, <2>3, <2>4 DEF Stages
<1>3. \A n \in 0 .. Len(reqs) : g[n] = h[n]
  BY <1>1, <1>2
<1> QED
  BY <1>3 DEF Stages

LEMMA AllAppliedIs ==
  ASSUME NEW t \in Table, NEW reqs \in Seq(MetaRequests), NEW g, Stages(t, reqs, g)
  PROVE  AllApplied(t, reqs) = g[Len(reqs)] /\ AllApplied(t, reqs) \in Table
<1> DEFINE Def(f) == [n \in 0 .. Len(reqs) |->
                         IF n = 0 THEN t ELSE Applied(f[n - 1], reqs[n])]
           after == CHOOSE f : f = Def(f)
<1>1. Len(reqs) \in Nat
  OBVIOUS
<1>2. g = Def(g)
  <2>1. \A n \in 0 .. Len(reqs) : g[n] = Def(g)[n]
    BY <1>1 DEF Stages
  <2> QED
    BY <2>1 DEF Stages
<1>3. after = Def(after)
  BY <1>2
<1>4. AllApplied(t, reqs) = after[Len(reqs)]
  BY DEF AllApplied
<1> HIDE DEF after
<1>5. DOMAIN after = 0 .. Len(reqs) /\ after[0] = t
      /\ \A n \in 1 .. Len(reqs) : after[n] = Applied(after[n - 1], reqs[n])
  <2>1. DOMAIN after = DOMAIN Def(after) /\ \A n \in 0 .. Len(reqs) : after[n] = Def(after)[n]
    BY <1>3
  <2> QED
    BY <2>1, <1>1
<1> DEFINE Bad == {n \in Nat : n <= Len(reqs) /\ g[n] # after[n]}
<1>6. Bad = {}
  <2> SUFFICES ASSUME Bad # {} PROVE FALSE
    OBVIOUS
  <2>1. PICK n \in Bad : \A m \in Bad : n <= m
    BY LeastNumber
  <2>2. n # 0
    BY <2>1, <1>5 DEF Stages
  <2>3. n \in 1 .. Len(reqs) /\ n - 1 \in Nat /\ n - 1 <= Len(reqs) /\ n - 1 \notin Bad
    BY <2>1, <2>2, <1>1
  <2>4. g[n - 1] = after[n - 1]
    BY <2>3
  <2> QED
    BY <2>1, <2>3, <2>4, <1>5 DEF Stages
<1>7. g[Len(reqs)] = after[Len(reqs)]
  BY <1>1, <1>6
<1> QED
  BY <1>1, <1>4, <1>7 DEF Stages

(* A table of entries again; and when nothing is on its way, the table. *)
LEMMA AllAppliedType ==
  ASSUME NEW t \in Table, NEW reqs \in Seq(MetaRequests)
  PROVE  AllApplied(t, reqs) \in Table /\ (reqs = <<>> => AllApplied(t, reqs) = t)
<1>1. PICK g : Stages(t, reqs, g)
  BY StagesExist
<1>2. reqs = <<>> => Len(reqs) = 0
  OBVIOUS
<1> QED
  BY <1>1, <1>2, AllAppliedIs DEF Stages

(* One more request is applied last. *)
LEMMA AllAppliedAppend ==
  ASSUME NEW t \in Table, NEW reqs \in Seq(MetaRequests), NEW r \in MetaRequests
  PROVE  AllApplied(t, Append(reqs, r)) = Applied(AllApplied(t, reqs), r)
<1> DEFINE n == Len(reqs)
           more == Append(reqs, r)
<1>3. n \in Nat /\ more \in Seq(MetaRequests) /\ Len(more) = n + 1 /\ more[n + 1] = r
      /\ \A i \in 1 .. n : more[i] = reqs[i]
  BY Appended
<1> HIDE DEF more
<1>2. PICK h : Stages(t, more, h)
  BY <1>3, StagesExist
<1> DEFINE short == [i \in 0 .. n |-> h[i]]
<1>4. h \in [0 .. n + 1 -> Table] /\ h[0] = t
      /\ \A i \in 1 .. n + 1 : h[i] = Applied(h[i - 1], more[i])
  BY <1>2, <1>3 DEF Stages
<1>5. Stages(t, reqs, short)
  <2>1. short \in [0 .. n -> Table] /\ short[0] = t
    BY <1>3, <1>4
  <2>2. \A i \in 1 .. n : short[i] = Applied(short[i - 1], reqs[i])
    BY <1>3, <1>4
  <2> QED
    BY <2>1, <2>2 DEF Stages
<1>6. AllApplied(t, reqs) = h[n]
  BY <1>5, <1>3, AllAppliedIs
<1>7. AllApplied(t, more) = h[n + 1]
  BY <1>2, <1>3, AllAppliedIs
<1>8. h[n + 1] = Applied(h[n], r)
  BY <1>3, <1>4
<1> QED
  BY <1>6, <1>7, <1>8 DEF more

(* Taking the first request changes nothing in the end. *)
LEMMA AllAppliedTail ==
  ASSUME NEW t \in Table, NEW reqs \in Seq(MetaRequests), reqs # <<>>
  PROVE  AllApplied(Applied(t, reqs[1]), Tail(reqs)) = AllApplied(t, reqs)
<1> DEFINE n == Len(reqs)
           rest == Tail(reqs)
<1>1. PICK g : Stages(t, reqs, g)
  BY StagesExist
<1>2. n \in Nat \ {0} /\ rest \in Seq(MetaRequests) /\ Len(rest) = n - 1
      /\ \A i \in 1 .. n - 1 : rest[i] = reqs[i + 1]
  BY HeadAndTail
<1>3. Applied(t, reqs[1]) \in Table
  BY <1>2, AppliedType
<1> HIDE DEF rest
<1> DEFINE h == [i \in 0 .. n - 1 |-> g[i + 1]]
<1>4. g \in [0 .. n -> Table] /\ g[0] = t /\ \A i \in 1 .. n : g[i] = Applied(g[i - 1], reqs[i])
  BY <1>1 DEF Stages
<1>5. Stages(Applied(t, reqs[1]), rest, h)
  <2>1. h \in [0 .. n - 1 -> Table]
    <3>1. \A i \in 0 .. n - 1 : i + 1 \in 0 .. n
      BY <1>2
    <3> QED
      BY <1>4, <3>1
  <2>2. h[0] = Applied(t, reqs[1])
    <3>1. 0 \in 0 .. n - 1 /\ 1 \in 1 .. n
      BY <1>2
    <3> QED
      BY <1>4, <3>1
  <2>3. ASSUME NEW i \in 1 .. n - 1 PROVE h[i] = Applied(h[i - 1], rest[i])
    <3>1. i + 1 \in 1 .. n /\ i \in 0 .. n - 1 /\ i - 1 \in 0 .. n - 1 /\ (i + 1) - 1 = i
          /\ (i - 1) + 1 = i
      BY <1>2
    <3>2. h[i] = g[i + 1] /\ h[i - 1] = g[i] /\ rest[i] = reqs[i + 1]
      BY <1>2, <3>1
    <3> QED
      BY <1>4, <3>1, <3>2
  <2> QED
    BY <1>2, <2>1, <2>2, <2>3 DEF Stages
<1>6. AllApplied(Applied(t, reqs[1]), rest) = h[n - 1]
  BY <1>2, <1>3, <1>5, AllAppliedIs
<1>7. AllApplied(t, reqs) = g[n]
  BY <1>1, AllAppliedIs
<1>8. h[n - 1] = g[n]
  BY <1>2
<1> QED
  BY <1>6, <1>7, <1>8 DEF rest
-----------------------------------------------------------------------------
(* The indices of a list *)

Injective(s) == \A j, k \in 1 .. Len(s) : s[j] = s[k] => j = k

(* A list in which no index is twice is not longer than the table. *)
LEMMA ListFits ==
  ASSUME NEW s \in Seq(Indices), Injective(s)
  PROVE  Len(s) <= TableSize
<1>1. TableSize \in Nat \ {0}
  BY RetransAssumption
<1>2. s \in Injection(1 .. Len(s), Indices)
  BY DEF Injective, Injection, IsInjective
<1>3. IsFiniteSet(Indices) /\ Cardinality(Indices) = TableSize
  BY <1>1, FS_Interval DEF Indices
<1>4. Cardinality(1 .. Len(s)) = Len(s)
  <2>1. Len(s) \in Nat /\ Len(s) \in Int /\ 1 \in Int
    OBVIOUS
  <2>2. Cardinality(1 .. Len(s)) = IF 1 > Len(s) THEN 0 ELSE Len(s) - 1 + 1
    BY <2>1, FS_Interval
  <2> QED
    BY <2>1, <2>2
<1> QED
  BY <1>2, <1>3, <1>4, FS_Injection

(* The walk from the head to the tail of a pointer finds its list. *)
LEMMA WalkIs ==
  ASSUME NEW p \in PtrEntry, NEW t \in Table, NEW s, IsList(p, t, s), Injective(s)
  PROVE  Walk(p, t) = s
<1> DEFINE Def(f) ==
      [n \in 1 .. TableSize |->
         IF n = 1 THEN <<p.head>>
         ELSE IF Last(f[n - 1]) = p.tail THEN f[n - 1]
         ELSE Append(f[n - 1], t[Last(f[n - 1])].next)]
    walk == CHOOSE f : f = Def(f)
    N == Len(s)
    Part(n) == [i \in 1 .. (IF n <= N THEN n ELSE N) |-> s[i]]
    g == [n \in 1 .. TableSize |-> Part(n)]
<1>1. s \in Seq(Indices) /\ N \in Nat /\ TableSize \in Nat \ {0} /\ N <= TableSize
  BY ListFits, RetransAssumption DEF IsList
<1>2. Walk(p, t) = IF p.valid THEN walk[TableSize] ELSE <<>>
  BY DEF Walk
<1>3. CASE ~p.valid
  BY <1>2, <1>3 DEF IsList, PtrEntry
<1>4. CASE p.valid
  <2>1. N # 0 /\ s # <<>> /\ s[1] = p.head /\ s[N] = p.tail
    BY <1>1, <1>4 DEF IsList
  <2>2. ASSUME NEW n \in 1 .. TableSize
        PROVE  /\ Part(n) \in Seq(Indices)
               /\ Len(Part(n)) = IF n <= N THEN n ELSE N
               /\ Last(Part(n)) = s[IF n <= N THEN n ELSE N]
    <3> DEFINE m == IF n <= N THEN n ELSE N
    <3>1. m \in 1 .. N
      BY <1>1, <2>1
    <3> HIDE DEF m
    <3>2. [i \in 1 .. m |-> s[i]] \in Seq(Indices) /\ Len([i \in 1 .. m |-> s[i]]) = m
      <4>1. [i \in 1 .. m |-> s[i]] \in [1 .. m -> Indices]
        BY <1>1, <3>1
      <4> QED
        BY <3>1, <4>1, FunctionIsSeq
    <3>3. Last([i \in 1 .. m |-> s[i]]) = s[m]
      BY <3>1, <3>2 DEF Last
    <3> QED
      BY <3>2, <3>3 DEF m
  <2>3. \A n \in 1 .. TableSize : g[n] = Def(g)[n]
    <3> SUFFICES ASSUME NEW n \in 1 .. TableSize PROVE g[n] = Def(g)[n]
      OBVIOUS
    <3>1. CASE n = 1
      <4>1. Part(1) = [i \in 1 .. 1 |-> s[i]]
        BY <1>1, <2>1
      <4>2. [i \in 1 .. 1 |-> s[i]] = <<s[1]>>
        OBVIOUS
      <4>3. g[1] = Part(1) /\ Def(g)[1] = <<p.head>>
        BY <1>1
      <4> HIDE DEF g, Def, Part
      <4> QED
        BY <2>1, <3>1, <4>1, <4>2, <4>3
    <3>2. CASE n # 1
      <4>1. n - 1 \in 1 .. TableSize /\ n - 1 \in Nat \ {0}
        BY <1>1, <3>2
      <4>2. g[n] = Part(n) /\ g[n - 1] = Part(n - 1)
        BY <4>1
      <4>3. Def(g)[n] = IF Last(Part(n - 1)) = p.tail THEN Part(n - 1)
                        ELSE Append(Part(n - 1), t[Last(Part(n - 1))].next)
        BY <3>2, <4>1, <4>2
      <4> HIDE DEF g, Def
      <4>4. CASE n <= N
        <5>1. Len(Part(n - 1)) = n - 1 /\ Last(Part(n - 1)) = s[n - 1] /\ Part(n - 1) \in Seq(Indices)
          <6>1. n - 1 <= N
            BY <4>4, <1>1
          <6> QED
            BY <2>2, <4>1, <6>1
        <5>2. n - 1 \in 1 .. N /\ N \in 1 .. N /\ n - 1 # N /\ n - 1 \in 1 .. N - 1 /\ n \in 1 .. N
          BY <4>1, <4>4, <1>1
        <5>3. s[n - 1] # p.tail
          BY <2>1, <5>2 DEF Injective
        <5>4. t[s[n - 1]].next = s[n]
          BY <5>2 DEF IsList
        <5>5. s[n] \in Indices
          BY <1>1, <5>2
        <5>6. Append(Part(n - 1), s[n]) = Part(n)
          <6>1. Part(n) = [i \in 1 .. n |-> s[i]] /\ Part(n - 1) = [i \in 1 .. n - 1 |-> s[i]]
            BY <4>4, <4>1, <1>1
          <6>2. Append(Part(n - 1), s[n]) \in Seq(Indices) /\ Len(Append(Part(n - 1), s[n])) = n
                /\ Append(Part(n - 1), s[n])[n] = s[n]
                /\ \A i \in 1 .. n - 1 : Append(Part(n - 1), s[n])[i] = Part(n - 1)[i]
            <7> HIDE DEF Part
            <7>1. (n - 1) + 1 = n
              BY <4>1
            <7> QED
              BY <5>1, <5>5, <7>1, Appended
          <6>3. DOMAIN Append(Part(n - 1), s[n]) = 1 .. n
            BY <6>2
          <6>4. \A i \in 1 .. n : Append(Part(n - 1), s[n])[i] = s[i]
            BY <6>1, <6>2, <4>1
          <6>5. Append(Part(n - 1), s[n]) = [i \in 1 .. n |-> s[i]]
            BY <6>2, <6>3, <6>4
          <6> QED
            BY <6>1, <6>5
        <5> HIDE DEF Part
        <5> QED
          BY <4>2, <4>3, <5>1, <5>3, <5>4, <5>6
      <4>5. CASE ~(n <= N)
        <5>1. n - 1 >= N
          BY <4>5, <4>1, <1>1
        <5>2. Part(n - 1) = [i \in 1 .. N |-> s[i]] /\ Part(n) = [i \in 1 .. N |-> s[i]]
          BY <4>5, <5>1, <4>1, <1>1
        <5>3. Last(Part(n - 1)) = s[N]
          <6>1. (IF n - 1 <= N THEN n - 1 ELSE N) = N
            BY <5>1, <4>1, <1>1
          <6> HIDE DEF Part
          <6> QED
            BY <2>2, <4>1, <6>1
        <5> HIDE DEF Part
        <5> QED
          BY <4>2, <4>3, <5>2, <5>3, <2>1
      <4> QED
        BY <4>4, <4>5
    <3> QED
      BY <3>1, <3>2
  <2>4. g = Def(g)
    BY <2>3
  <2>5. walk = Def(walk)
    <3> HIDE DEF g, Def
    <3> QED
      BY <2>4
  <2> HIDE DEF walk
  <2> DEFINE Bad == {n \in Nat : n \in 1 .. TableSize /\ g[n] # walk[n]}
  <2>6. Bad = {}
    <3> SUFFICES ASSUME Bad # {} PROVE FALSE
      OBVIOUS
    <3>1. PICK n \in Bad : \A m \in Bad : n <= m
      <4>1. Bad \in SUBSET Nat
        OBVIOUS
      <4> HIDE DEF Bad
      <4> QED
        BY <4>1, LeastNumber
    <3>2. n \in 1 .. TableSize /\ g[n] # walk[n]
      BY <3>1
    <3>3. g[n] = Def(g)[n] /\ walk[n] = Def(walk)[n]
      <4> HIDE DEF g, Def, Bad
      <4> QED
        BY <2>3, <2>5, <3>2
    <3>4. n # 1
      <4> HIDE DEF g
      <4> QED
        BY <3>2, <3>3
    <3>5. n - 1 \in Nat /\ n - 1 \in 1 .. TableSize /\ ~(n <= n - 1)
      BY <3>2, <3>4, <1>1
    <3>6. n - 1 \notin Bad
      <4> HIDE DEF Bad
      <4> QED
        BY <3>1, <3>5
    <3>7. g[n - 1] = walk[n - 1]
      <4> HIDE DEF g
      <4> QED
        BY <3>5, <3>6
    <3>8. Def(g)[n] = Def(walk)[n]
      <4> HIDE DEF g
      <4> QED
        BY <3>2, <3>4, <3>7
    <3> HIDE DEF g, Def, Bad
    <3> QED
      BY <3>2, <3>3, <3>8
  <2>7. walk[TableSize] = g[TableSize]
    <3>1. TableSize \in 1 .. TableSize /\ TableSize \in Nat
      BY <1>1
    <3> HIDE DEF g
    <3> QED
      BY <2>6, <3>1
  <2>8. g[TableSize] = [i \in 1 .. N |-> s[i]]
    <3>1. (IF TableSize <= N THEN TableSize ELSE N) = N
      BY <1>1
    <3>2. g[TableSize] = [i \in 1 .. (IF TableSize <= N THEN TableSize ELSE N) |-> s[i]]
      BY <1>1
    <3> HIDE DEF g
    <3> QED
      BY <3>1, <3>2
  <2>9. s = [i \in 1 .. N |-> s[i]]
    BY <1>1
  <2> HIDE DEF g
  <2> QED
    BY <1>2, <1>4, <2>7, <2>8, <2>9
<1> QED
  BY <1>3, <1>4

-----------------------------------------------------------------------------
(* The ledger *)

(* The first index of one place moves to the end of another. *)
LEMMA MoveIndex ==
  ASSUME NEW at \in [Tags -> Seq(Indices)], NEW new \in [Tags -> Seq(Indices)],
         NEW x \in Tags, NEW y \in Tags, x # y, Ledger(at), at[x] # <<>>,
         new[x] = Tail(at[x]), new[y] = Append(at[y], at[x][1]),
         \A z \in Tags \ {x, y} : new[z] = at[z]
  PROVE  Ledger(new)
<1> DEFINE i == at[x][1]
           Spots(f) == {w \in Tags \X Nat : w[2] \in 1 .. Len(f[w[1]])}
<1>1. /\ i \in Indices /\ Len(at[x]) \in Nat \ {0} /\ Len(new[x]) = Len(at[x]) - 1
      /\ \A k \in 1 .. Len(at[x]) - 1 : new[x][k] = at[x][k + 1]
  BY HeadAndTail
<1>2. /\ Len(at[y]) \in Nat /\ Len(new[y]) = Len(at[y]) + 1
      /\ \A k \in 1 .. Len(at[y]) : new[y][k] = at[y][k]
      /\ new[y][Len(at[y]) + 1] = i
  BY <1>1, Appended
<1>3. \A z \in Tags : Len(at[z]) \in Nat
  OBVIOUS
<1> DEFINE OldSpot(z, k) == IF z = x THEN <<x, k + 1>>
                            ELSE IF z = y /\ k = Len(at[y]) + 1 THEN <<x, 1>>
                            ELSE <<z, k>>
<1> HIDE DEF i
<1>4. ASSUME NEW z \in Tags, NEW k \in 1 .. Len(new[z])
      PROVE  LET w == OldSpot(z, k)
             IN w[1] \in Tags /\ w[2] \in 1 .. Len(at[w[1]]) /\ at[w[1]][w[2]] = new[z][k]
  <2>1. CASE z = x
    <3>1. k + 1 \in 1 .. Len(at[x]) /\ k \in 1 .. Len(at[x]) - 1
      BY <1>1, <2>1
    <3> QED
      BY <1>1, <2>1, <3>1
  <2>2. CASE z = y /\ k = Len(at[y]) + 1
    BY <1>1, <1>2, <2>2 DEF i
  <2>3. CASE z = y /\ k # Len(at[y]) + 1
    <3>1. k \in 1 .. Len(at[y])
      BY <1>2, <2>3
    <3> QED
      BY <1>2, <2>3, <3>1
  <2>4. CASE z \in Tags \ {x, y}
    BY <2>4
  <2> QED
    BY <2>1, <2>2, <2>3, <2>4
<1>5. ASSUME NEW z \in Tags, NEW k \in 1 .. Len(new[z]), NEW u \in Tags,
             NEW j \in 1 .. Len(new[u]), OldSpot(z, k) = OldSpot(u, j)
      PROVE  z = u /\ k = j
  <2>1. k \in Nat \ {0} /\ j \in Nat \ {0}
    OBVIOUS
  <2>2. z = u
    BY <1>5, <2>1
  <2> QED
    BY <1>5, <2>1, <2>2, <1>2
<1>6. \A z, u \in Tags : \A k \in 1 .. Len(new[z]), j \in 1 .. Len(new[u]) :
        new[z][k] = new[u][j] => z = u /\ k = j
  <2> SUFFICES ASSUME NEW z \in Tags, NEW u \in Tags, NEW k \in 1 .. Len(new[z]),
                      NEW j \in 1 .. Len(new[u]), new[z][k] = new[u][j]
               PROVE  z = u /\ k = j
    OBVIOUS
  <2> DEFINE a == OldSpot(z, k)
             b == OldSpot(u, j)
  <2>1. /\ a[1] \in Tags /\ a[2] \in 1 .. Len(at[a[1]]) /\ at[a[1]][a[2]] = new[z][k]
        /\ b[1] \in Tags /\ b[2] \in 1 .. Len(at[b[1]]) /\ at[b[1]][b[2]] = new[u][j]
    BY <1>4
  <2>2. a = <<a[1], a[2]>> /\ b = <<b[1], b[2]>>
    OBVIOUS
  <2>3. a[1] = b[1] /\ a[2] = b[2]
    <3> HIDE DEF a, b
    <3>1. at[a[1]][a[2]] = at[b[1]][b[2]]
      BY <2>1
    <3>2. \A v, w \in Tags : \A l \in 1 .. Len(at[v]), m \in 1 .. Len(at[w]) :
            at[v][l] = at[w][m] => v = w /\ l = m
      BY DEF Ledger
    <3>3. \A l \in 1 .. Len(at[a[1]]), m \in 1 .. Len(at[b[1]]) :
            at[a[1]][l] = at[b[1]][m] => a[1] = b[1] /\ l = m
      BY <2>1, <3>2
    <3> QED
      BY <2>1, <3>1, <3>3
  <2>4. a = b
    BY <2>2, <2>3
  <2> QED
    BY <1>5, <2>4
<1>7. ASSUME NEW n \in Indices
      PROVE  \E z \in Tags : \E k \in 1 .. Len(new[z]) : new[z][k] = n
  <2>6. PICK z \in Tags : \E k \in 1 .. Len(at[z]) : at[z][k] = n
    BY DEF Ledger
  <2>1. PICK k \in 1 .. Len(at[z]) : at[z][k] = n
    BY <2>6
  <2>2. CASE z = x /\ k = 1
    <3>1. Len(at[y]) + 1 \in 1 .. Len(new[y]) /\ new[y][Len(at[y]) + 1] = n
      BY <1>2, <2>1, <2>2 DEF i
    <3> QED
      BY <3>1
  <2>3. CASE z = x /\ k # 1
    <3>1. k - 1 \in 1 .. Len(at[x]) - 1 /\ (k - 1) + 1 = k
      BY <1>1, <2>3
    <3>2. k - 1 \in 1 .. Len(new[x]) /\ new[x][k - 1] = n
      BY <1>1, <2>1, <2>3, <3>1
    <3> QED
      BY <3>2
  <2>4. CASE z = y
    <3>1. k \in 1 .. Len(new[y]) /\ new[y][k] = n
      BY <1>2, <2>1, <2>4
    <3> QED
      BY <3>1
  <2>5. CASE z \in Tags \ {x, y}
    <3>1. k \in 1 .. Len(new[z]) /\ new[z][k] = n
      BY <2>1, <2>5
    <3> QED
      BY <3>1
  <2> QED
    BY <2>2, <2>3, <2>4, <2>5
<1> QED
  BY <1>6, <1>7 DEF Ledger
-----------------------------------------------------------------------------
(* The effect of each action, and types *)

FsmStep(state, op, idx, p) ==
  fsm'.state = state /\ fsm'.op = op /\ fsm'.idx = idx /\ fsm'.ptr = p
FifoStep(req, upd, rsp, mreq, mrsp) ==
  PReq' = req /\ PUpd' = upd /\ PRsp' = rsp /\ MReq' = mreq /\ MRsp' = mrsp

(* The parts of the type invariant that a step leaves alone. *)
LEMMA TypeFrame ==
  ASSUME Types
  PROVE  /\ UNCHANGED script => Queued(script)'
         /\ UNCHANGED in => Queued(in)'
         /\ UNCHANGED fsm => (FsmTypes /\ HoldsOp)'
         /\ UNCHANGED ptr => PtrTypes'
         /\ UNCHANGED meta => MetaTypes'
         /\ UNCHANGED free => FreeTypes'
         /\ UNCHANGED fifo => FifoTypes'
  BY DEF Types, Queued, FsmTypes, HoldsOp, PtrTypes, MetaTypes, FreeTypes, FifoTypes,
         PReq, PUpd, PRsp, MReq, MRsp

LEMMA OpTypes ==
  ASSUME NEW f, Queued(f), NEW k \in Kinds, f[k] # <<>>
  PROVE  /\ Head(f[k]) \in Operations(k) /\ Head(f[k]) = f[k][1] /\ Head(f[k]).qpn \in Qps
         /\ Queued([f EXCEPT ![k] = Tail(@)])
         /\ \A o \in Operations(k) : Queued([f EXCEPT ![k] = Append(@, o)])
<1>1. Head(f[k]) \in Operations(k) /\ Head(f[k]) = f[k][1] /\ Tail(f[k]) \in Seq(Operations(k))
  BY HeadAndTail DEF Queued
<1>2. \A o \in Operations(k) : Append(f[k], o) \in Seq(Operations(k))
  BY DEF Queued
<1>3. Head(f[k]).qpn \in Qps
  BY <1>1 DEF Operations, Kinds, Answer, Demand, Insertion
<1> QED
  BY <1>1, <1>2, <1>3 DEF Queued

LEMMA StateOp == Types => (fsm.state # "MAIN" => Qpn \in Qps)
  BY DEF Types, FsmTypes, HoldsOp, Qpn, States, Asking, Walking, Answer, Demand, Insertion

LEMMA FsmFields ==
  Types => fsm.state \in States /\ fsm.op \in Seq(AnyOp) /\ fsm.idx \in Indices /\ fsm.ptr \in PtrEntry
  BY DEF Types, FsmTypes

(* Arrive *)
LEMMA ArriveEffect ==
  ASSUME Types, Arrive
  PROVE  Types' /\ UNCHANGED <<fsm, ptr, meta, free, fifo, events, init>>
<1>1. PICK k \in Kinds :
        /\ script[k] # <<>>
        /\ in' = [in EXCEPT ![k] = Append(@, Head(script[k]))]
        /\ script' = [script EXCEPT ![k] = Tail(@)]
        /\ UNCHANGED <<fsm, ptr, meta, free, fifo, events, init>>
  BY DEF Arrive
<1>2. Queued(script)' /\ Head(script[k]) \in Operations(k)
  <2>1. Queued([script EXCEPT ![k] = Tail(@)]) /\ Head(script[k]) \in Operations(k)
    BY <1>1, OpTypes DEF Types
  <2> QED
    BY <1>1, <2>1 DEF Queued
<1>3. Queued(in)'
  <2>1. Append(in[k], Head(script[k])) \in Seq(Operations(k))
    BY <1>2 DEF Types, Queued
  <2> QED
    BY <1>1, <2>1 DEF Types, Queued
<1> QED
  BY <1>1, <1>2, <1>3, TypeFrame DEF Types

(* retrans_pointer_table *)
LEMMA PtrUpdateEffect ==
  ASSUME Types, PtrUpdate
  PROVE  /\ Types' /\ UNCHANGED <<script, in, fsm, meta, free, events, init>>
         /\ PUpd # <<>> /\ PUpd[1] \in PtrUpdates
         /\ FifoStep(PReq, Tail(PUpd), PRsp, MReq, MRsp)
         /\ ptr'.table = [ptr.table EXCEPT ![PUpd[1].qpn] = PUpd[1].entry]
         /\ ptr'.locked = (IF ptr.locked = <<PUpd[1].qpn>> THEN <<>> ELSE ptr.locked)
         /\ ptr'.wait = ptr.wait
<1>1. PUpd # <<>> /\ UNCHANGED <<script, in, fsm, meta, free, events, init>>
  BY DEF PtrUpdate, PUpd, env
<1>2. Head(PUpd) = PUpd[1] /\ PUpd[1] \in PtrUpdates /\ Tail(PUpd) \in Seq(PtrUpdates)
  BY <1>1, HeadAndTail DEF Types, FifoTypes
<1>3. FifoStep(PReq, Tail(PUpd), PRsp, MReq, MRsp) /\ DOMAIN fifo' = Fifos
  BY DEF PtrUpdate, FifoStep, PReq, PUpd, PRsp, MReq, MRsp, Types, FifoTypes, Fifos
<1>4. ptr' = [ptr EXCEPT !.table[PUpd[1].qpn] = PUpd[1].entry,
                         !.locked = IF @ = <<PUpd[1].qpn>> THEN <<>> ELSE @]
  BY <1>2 DEF PtrUpdate, PUpd
<1>5. /\ ptr'.table = [ptr.table EXCEPT ![PUpd[1].qpn] = PUpd[1].entry]
      /\ ptr'.locked = (IF ptr.locked = <<PUpd[1].qpn>> THEN <<>> ELSE ptr.locked)
      /\ ptr'.wait = ptr.wait
  BY <1>4 DEF Types, PtrTypes
<1>6. PtrTypes'
  <2>1. PUpd[1].qpn \in Qps /\ PUpd[1].entry \in PtrEntry
    BY <1>2 DEF PtrUpdates
  <2>2. ptr.table \in [Qps -> PtrEntry] /\ ptr.locked \in Seq(Qps)
    BY DEF Types, PtrTypes
  <2>3. [ptr.table EXCEPT ![PUpd[1].qpn] = PUpd[1].entry] \in [Qps -> PtrEntry]
    BY <2>1, <2>2
  <2>4. (IF ptr.locked = <<PUpd[1].qpn>> THEN <<>> ELSE ptr.locked) \in Seq(Qps)
    BY <2>2
  <2>5. ptr' = [ptr EXCEPT !.table = [ptr.table EXCEPT ![PUpd[1].qpn] = PUpd[1].entry],
                           !.locked = IF ptr.locked = <<PUpd[1].qpn>> THEN <<>> ELSE ptr.locked]
    BY <1>4 DEF Types, PtrTypes
  <2> QED
    BY <2>3, <2>4, <2>5 DEF Types, PtrTypes
<1>7. FifoTypes'
  BY <1>2, <1>3 DEF FifoStep, Types, FifoTypes
<1> QED
  BY <1>1, <1>2, <1>3, <1>5, <1>6, <1>7, TypeFrame DEF Types

LEMMA PtrRequestEffect ==
  ASSUME Types, PtrRequest
  PROVE  LET r == PReq[1]
             blocked == r.lock /\ ptr.locked # <<>>
         IN /\ Types' /\ UNCHANGED <<script, in, fsm, meta, free, events, init>>
            /\ PUpd = <<>> /\ PReq # <<>> /\ r \in PtrRequests
            /\ FifoStep(Tail(PReq), PUpd,
                        IF blocked THEN PRsp ELSE Append(PRsp, ptr.table[r.qpn]), MReq, MRsp)
            /\ ptr'.table = ptr.table
            /\ ptr'.locked = (IF r.lock /\ ~blocked THEN <<r.qpn>> ELSE ptr.locked)
            /\ ptr'.wait = (IF blocked THEN <<r.qpn>> ELSE ptr.wait)
<1> DEFINE r == PReq[1]
           blocked == r.lock /\ ptr.locked # <<>>
<1>1. PReq # <<>> /\ PUpd = <<>> /\ UNCHANGED <<script, in, fsm, meta, free, events, init>>
  BY DEF PtrRequest, PReq, PUpd, env
<1>2. Head(PReq) = r /\ r \in PtrRequests /\ Tail(PReq) \in Seq(PtrRequests)
  BY <1>1, HeadAndTail DEF Types, FifoTypes
<1>3. /\ fifo' = [fifo EXCEPT !["ptrReq"] = Tail(@),
                    !["ptrRsp"] = IF blocked THEN @ ELSE Append(@, ptr.table[r.qpn])]
      /\ ptr' = [ptr EXCEPT !.wait = IF blocked THEN <<r.qpn>> ELSE @,
                            !.locked = IF r.lock /\ ~blocked THEN <<r.qpn>> ELSE @]
  BY <1>2 DEF PtrRequest, PReq
<1>4. r.qpn \in Qps /\ r.lock \in BOOLEAN /\ blocked \in BOOLEAN
  BY <1>2 DEF PtrRequests
<1>5. ptr.table[r.qpn] \in PtrEntry
  BY <1>4 DEF Types, PtrTypes
<1> HIDE DEF r, blocked
<1>6. /\ FifoStep(Tail(PReq), PUpd,
                  IF blocked THEN PRsp ELSE Append(PRsp, ptr.table[r.qpn]), MReq, MRsp)
      /\ DOMAIN fifo' = Fifos
  BY <1>3 DEF FifoStep, PReq, PUpd, PRsp, MReq, MRsp, Types, FifoTypes, Fifos
<1>7. FifoTypes'
  BY <1>2, <1>5, <1>6 DEF FifoStep, Types, FifoTypes
<1>8. /\ ptr'.table = ptr.table
      /\ ptr'.locked = (IF r.lock /\ ~blocked THEN <<r.qpn>> ELSE ptr.locked)
      /\ ptr'.wait = (IF blocked THEN <<r.qpn>> ELSE ptr.wait)
  BY <1>3 DEF Types, PtrTypes
<1>9. PtrTypes'
  <2>1. ptr.wait \in Seq(Qps) /\ ptr.locked \in Seq(Qps) /\ <<r.qpn>> \in Seq(Qps)
    BY <1>4 DEF Types, PtrTypes
  <2>2. (IF blocked THEN <<r.qpn>> ELSE ptr.wait) \in Seq(Qps)
    BY <2>1
  <2>3. (IF r.lock /\ ~blocked THEN <<r.qpn>> ELSE ptr.locked) \in Seq(Qps)
    BY <2>1
  <2>4. ptr' = [ptr EXCEPT !.wait = IF blocked THEN <<r.qpn>> ELSE ptr.wait,
                           !.locked = IF r.lock /\ ~blocked THEN <<r.qpn>> ELSE ptr.locked]
    BY <1>3
  <2> QED
    BY <2>2, <2>3, <2>4 DEF Types, PtrTypes
<1> QED
  BY <1>1, <1>2, <1>6, <1>7, <1>8, <1>9, TypeFrame DEF Types, r, blocked

(* retrans_meta_table *)
LEMMA MetaTableEffect ==
  ASSUME Types, MetaTable
  PROVE  LET r == MReq[1]
         IN /\ Types' /\ UNCHANGED <<script, in, fsm, ptr, free, events, init>>
            /\ MReq # <<>> /\ r \in MetaRequests
            /\ FifoStep(PReq, PUpd, PRsp, Tail(MReq),
                        IF r.kind = "read" THEN Append(MRsp, meta[r.idx]) ELSE MRsp)
            /\ meta' = Applied(meta, r)
<1> DEFINE r == MReq[1]
<1>1. MReq # <<>> /\ UNCHANGED <<script, in, fsm, ptr, free, events, init>>
  BY DEF MetaTable, MReq, env
<1>2. Head(MReq) = r /\ r \in MetaRequests /\ Tail(MReq) \in Seq(MetaRequests)
  BY <1>1, HeadAndTail DEF Types, FifoTypes
<1>3. /\ fifo' = [fifo EXCEPT !["metaReq"] = Tail(@),
                    !["metaRsp"] = IF r.kind = "read" THEN Append(@, meta[r.idx]) ELSE @]
      /\ meta' = Applied(meta, r)
  BY <1>2 DEF MetaTable, MReq
<1>4. r.idx \in Indices
  BY <1>2 DEF MetaRequests, Reads, Writes, Links
<1>5. meta[r.idx] \in MetaEntry
  BY <1>4 DEF Types, MetaTypes, Table
<1> HIDE DEF r
<1>6. /\ FifoStep(PReq, PUpd, PRsp, Tail(MReq),
                  IF r.kind = "read" THEN Append(MRsp, meta[r.idx]) ELSE MRsp)
      /\ DOMAIN fifo' = Fifos
  BY <1>3 DEF FifoStep, PReq, PUpd, PRsp, MReq, MRsp, Types, FifoTypes, Fifos
<1>7. FifoTypes'
  BY <1>2, <1>5, <1>6 DEF FifoStep, Types, FifoTypes
<1>8. MetaTypes'
  BY <1>2, <1>3, AppliedType DEF Types, MetaTypes
<1> QED
  BY <1>1, <1>2, <1>3, <1>6, <1>7, <1>8, TypeFrame DEF Types, r

(* freelist_handler *)
LEMMA FreeListEffect ==
  ASSUME Types, FreeList
  PROVE  /\ Types' /\ UNCHANGED <<script, in, fsm, ptr, meta, fifo, events, init>>
         /\ \/ /\ free.release # <<>> /\ free'.release = Tail(free.release)
               /\ free'.list = Append(free.list, free.release[1]) /\ free'.counter = free.counter
            \/ /\ free.counter < TableSize /\ free'.release = free.release
               /\ free'.list = Append(free.list, free.counter)
               /\ free'.counter = free.counter + 1
<1>1. UNCHANGED <<script, in, fsm, ptr, meta, fifo, events, init>>
  BY DEF FreeList, env
<1>2. /\ TableSize \in Nat /\ free.counter \in 0 .. TableSize /\ free.list \in Seq(Indices)
      /\ free.release \in Seq(Indices)
  BY RetransAssumption DEF Types, FreeTypes
<1>3. CASE /\ free.release # <<>>
           /\ free' = [free EXCEPT !.release = Tail(@), !.list = Append(@, Head(free.release))]
  <2>1. Head(free.release) = free.release[1] /\ free.release[1] \in Indices
        /\ Tail(free.release) \in Seq(Indices)
    BY <1>2, <1>3, HeadAndTail
  <2>4. Append(free.list, Head(free.release)) \in Seq(Indices)
    BY <1>2, <2>1
  <2>2. FreeTypes'
    BY <1>3, <2>1, <2>4 DEF Types, FreeTypes
  <2>3. /\ free'.release = Tail(free.release)
        /\ free'.list = Append(free.list, free.release[1]) /\ free'.counter = free.counter
    BY <1>3, <2>1 DEF Types, FreeTypes
  <2> QED
    BY <1>1, <1>3, <2>2, <2>3, TypeFrame DEF Types
<1>4. CASE /\ free.release = <<>> /\ free.counter < TableSize
           /\ free' = [free EXCEPT !.counter = @ + 1, !.list = Append(@, free.counter)]
  <2>1. free.counter \in Indices /\ free.counter + 1 \in 0 .. TableSize
    BY <1>2, <1>4 DEF Indices
  <2>4. Append(free.list, free.counter) \in Seq(Indices)
    BY <1>2, <2>1
  <2>2. FreeTypes'
    BY <1>4, <2>1, <2>4 DEF Types, FreeTypes
  <2>3. /\ free'.release = free.release
        /\ free'.list = Append(free.list, free.counter) /\ free'.counter = free.counter + 1
    BY <1>4 DEF Types, FreeTypes
  <2> QED
    BY <1>1, <1>4, <2>2, <2>3, TypeFrame DEF Types
<1> QED
  BY <1>3, <1>4 DEF FreeList
(* process_retransmissions: what it sends. *)
LEMMA Messages ==
  /\ \A i \in Indices : Read(i) \in MetaRequests /\ Read(i).kind = "read" /\ Read(i).idx = i
  /\ \A i \in Indices, m \in MetaEntry :
        /\ Write(i, m) \in MetaRequests /\ Write(i, m).kind = "write"
        /\ Write(i, m).idx = i /\ Write(i, m).entry = m
  /\ \A i, n \in Indices :
        /\ Link(i, n) \in MetaRequests /\ Link(i, n).kind = "append"
        /\ Link(i, n).idx = i /\ Link(i, n).next = n
  /\ \A e \in Request : TailEntry(e) \in MetaEntry
  /\ \A q \in Qps, p \in PtrEntry :
        PtrUpd(q, p) \in PtrUpdates /\ PtrUpd(q, p).qpn = q /\ PtrUpd(q, p).entry = p
<1>1. 0 \in Indices
  BY RetransAssumption DEF Indices
<1>2. \A e \in Request : TailEntry(e) \in MetaEntry
  BY <1>1 DEF TailEntry, MetaEntry
<1>3. \A q \in Qps, p \in PtrEntry :
        PtrUpd(q, p) \in PtrUpdates /\ PtrUpd(q, p).qpn = q /\ PtrUpd(q, p).entry = p
  BY DEF PtrUpd, PtrUpdates
<1> QED
  BY <1>2, <1>3 DEF Read, Write, Link, MetaRequests, Reads, Writes, Links

LEMMA FifoTyped ==
  ASSUME NEW a \in Seq(PtrRequests), NEW b \in Seq(PtrUpdates), NEW c \in Seq(PtrEntry),
         NEW d \in Seq(MetaRequests), NEW e \in Seq(MetaEntry),
         FifoStep(a, b, c, d, e), DOMAIN fifo' = Fifos
  PROVE  FifoTypes'
  BY DEF FifoStep, FifoTypes

LEMMA AdvancedType ==
  ASSUME NEW m \in MetaEntry, m.valid
  PROVE  [m EXCEPT !.e = Advanced(@)] \in MetaEntry
<1>1. m.e \in Request
  BY DEF MetaEntry
<1>2. (m.e.psn + 1) % PsnMod \in 0 .. PsnMod - 1
  <2>1. PsnMod \in Nat \ {0} /\ m.e.psn \in 0 .. PsnMod - 1
    BY <1>1, RetransAssumption DEF Request
  <2>2. m.e.psn + 1 \in Int
    BY <2>1
  <2> QED
    BY <2>1, <2>2, ModRange
<1> DEFINE n == (m.e.psn + 1) % PsnMod
<1>3. Advanced(m.e) = [m.e EXCEPT !.laddr = @ + 1, !.raddr = @ + 1, !.len = @ - 1, !.psn = n]
  BY <1>1 DEF Advanced, Request
<1> HIDE DEF n
<1>4. Advanced(m.e) \in Request
  <2>1. n \in 0 .. PsnMod - 1
    BY <1>2 DEF n
  <2>2. m.e.laddr + 1 \in Nat /\ m.e.raddr + 1 \in Nat /\ m.e.len - 1 \in Int
    BY <1>1 DEF Request
  <2> QED
    BY <1>1, <1>3, <2>1, <2>2 DEF Request
<1> QED
  BY <1>4 DEF MetaEntry

(* MAIN *)
LEMMA TakeEffect ==
  ASSUME Types, NEW k \in Kinds, NEW lock \in BOOLEAN, Take(k, lock)
  PROVE  /\ fsm.state = "MAIN" /\ in[k] # <<>>
         /\ Head(in[k]) \in Operations(k) /\ Head(in[k]).qpn \in Qps
         /\ (Queued(script) /\ Queued(in) /\ PtrTypes /\ MetaTypes /\ FifoTypes)'
         /\ in' = [in EXCEPT ![k] = Tail(@)]
         /\ UNCHANGED <<script, ptr, meta, events, init>>
         /\ FifoStep(Append(PReq, [qpn |-> Head(in[k]).qpn, lock |-> lock]), PUpd, PRsp, MReq, MRsp)
<1>1. fsm.state = "MAIN" /\ in[k] # <<>> /\ UNCHANGED <<script, ptr, meta, events, init>>
  BY DEF Take
<1>2. /\ Head(in[k]) \in Operations(k) /\ Head(in[k]).qpn \in Qps
      /\ Queued([in EXCEPT ![k] = Tail(@)])
  BY <1>1, OpTypes DEF Types
<1> DEFINE r == [qpn |-> Head(in[k]).qpn, lock |-> lock]
<1>3. r \in PtrRequests
  BY <1>2 DEF PtrRequests
<1>4. fifo' = [fifo EXCEPT !["ptrReq"] = Append(@, r)] /\ in' = [in EXCEPT ![k] = Tail(@)]
  BY DEF Take
<1> HIDE DEF r
<1>5. FifoStep(Append(PReq, r), PUpd, PRsp, MReq, MRsp) /\ DOMAIN fifo' = Fifos
  BY <1>4 DEF FifoStep, PReq, PUpd, PRsp, MReq, MRsp, Types, FifoTypes, Fifos
<1>6. FifoTypes'
  BY <1>3, <1>5 DEF FifoStep, Types, FifoTypes
<1>7. Queued(in)'
  BY <1>2, <1>4 DEF Queued
<1> QED
  BY <1>1, <1>2, <1>4, <1>5, <1>6, <1>7, TypeFrame DEF Types, r

LEMMA MainUpdateEffect ==
  ASSUME Types, MainUpdate
  PROVE  LET o == Head(in["upd"])
         IN /\ Types' /\ UNCHANGED <<script, ptr, meta, free, events, init>>
            /\ fsm.state = "MAIN" /\ in["upd"] # <<>> /\ o \in Answer /\ o.qpn \in Qps
            /\ in' = [in EXCEPT !["upd"] = Tail(@)]
            /\ FsmStep("UPDATE_0", <<o>>, fsm.idx, fsm.ptr)
            /\ FifoStep(Append(PReq, [qpn |-> o.qpn, lock |-> TRUE]), PUpd, PRsp, MReq, MRsp)
<1> DEFINE o == Head(in["upd"])
<1>1. Take("upd", TRUE) /\ UNCHANGED free /\ "upd" \in Kinds
      /\ fsm' = [fsm EXCEPT !.state = "UPDATE_0", !.op = <<o>>]
  BY DEF MainUpdate, Kinds
<1>2. o \in Answer
  <2>1. o \in Operations("upd")
    BY <1>1, TakeEffect
  <2> QED
    BY <2>1 DEF Operations
<1>3. <<o>> \in Seq(AnyOp) /\ "UPDATE_0" \in States
  BY <1>2 DEF AnyOp, States, Asking
<1>4. FsmTypes' /\ FsmStep("UPDATE_0", <<o>>, fsm.idx, fsm.ptr)
  BY <1>1, <1>3 DEF Types, FsmTypes, FsmStep
<1>5. HoldsOp'
  BY <1>2, <1>4 DEF HoldsOp, FsmStep
<1> QED
  BY <1>1, <1>2, <1>4, <1>5, TakeEffect, TypeFrame DEF Types

LEMMA MainNakEffect ==
  ASSUME Types, MainNak
  PROVE  LET o == Head(in["nak"])
         IN /\ Types' /\ UNCHANGED <<script, ptr, meta, free, events, init>>
            /\ fsm.state = "MAIN" /\ in["nak"] # <<>> /\ o \in Demand /\ o.qpn \in Qps
            /\ in' = [in EXCEPT !["nak"] = Tail(@)]
            /\ FsmStep("RETRANS_0", <<o>>, fsm.idx, fsm.ptr)
            /\ FifoStep(Append(PReq, [qpn |-> o.qpn, lock |-> FALSE]), PUpd, PRsp, MReq, MRsp)
<1> DEFINE o == Head(in["nak"])
<1>1. Take("nak", FALSE) /\ UNCHANGED free /\ "nak" \in Kinds
      /\ fsm' = [fsm EXCEPT !.state = "RETRANS_0", !.op = <<o>>]
  BY DEF MainNak, Kinds
<1>2. o \in Demand
  <2>1. o \in Operations("nak")
    BY <1>1, TakeEffect
  <2> QED
    BY <2>1 DEF Operations
<1>3. <<o>> \in Seq(AnyOp) /\ "RETRANS_0" \in States
  BY <1>2 DEF AnyOp, States, Asking
<1>4. FsmTypes' /\ FsmStep("RETRANS_0", <<o>>, fsm.idx, fsm.ptr)
  BY <1>1, <1>3 DEF Types, FsmTypes, FsmStep
<1>5. HoldsOp'
  BY <1>2, <1>4 DEF HoldsOp, FsmStep
<1> QED
  BY <1>1, <1>2, <1>4, <1>5, TakeEffect, TypeFrame DEF Types

LEMMA MainTimeoutEffect ==
  ASSUME Types, MainTimeout
  PROVE  LET o == Head(in["timeout"])
         IN /\ Types' /\ UNCHANGED <<script, ptr, meta, free, events, init>>
            /\ fsm.state = "MAIN" /\ in["timeout"] # <<>> /\ o \in Demand /\ o.qpn \in Qps
            /\ in' = [in EXCEPT !["timeout"] = Tail(@)]
            /\ FsmStep("TIMER_RETRANS_0", <<o>>, fsm.idx, fsm.ptr)
            /\ FifoStep(Append(PReq, [qpn |-> o.qpn, lock |-> FALSE]), PUpd, PRsp, MReq, MRsp)
<1> DEFINE o == Head(in["timeout"])
<1>1. Take("timeout", FALSE) /\ UNCHANGED free /\ "timeout" \in Kinds
      /\ fsm' = [fsm EXCEPT !.state = "TIMER_RETRANS_0", !.op = <<o>>]
  BY DEF MainTimeout, Kinds
<1>2. o \in Demand
  <2>1. o \in Operations("timeout")
    BY <1>1, TakeEffect
  <2> QED
    BY <2>1 DEF Operations
<1>3. <<o>> \in Seq(AnyOp) /\ "TIMER_RETRANS_0" \in States
  BY <1>2 DEF AnyOp, States, Asking
<1>4. FsmTypes' /\ FsmStep("TIMER_RETRANS_0", <<o>>, fsm.idx, fsm.ptr)
  BY <1>1, <1>3 DEF Types, FsmTypes, FsmStep
<1>5. HoldsOp'
  BY <1>2, <1>4 DEF HoldsOp, FsmStep
<1> QED
  BY <1>1, <1>2, <1>4, <1>5, TakeEffect, TypeFrame DEF Types

LEMMA MainInsertEffect ==
  ASSUME Types, MainInsert
  PROVE  LET o == Head(in["insert"])
         IN /\ Types' /\ UNCHANGED <<script, ptr, meta, events, init>>
            /\ fsm.state = "MAIN" /\ in["insert"] # <<>> /\ o \in Insertion /\ o.qpn \in Qps
            /\ in' = [in EXCEPT !["insert"] = Tail(@)]
            /\ FsmStep("INSERT_0", <<o>>, free.list[1], fsm.ptr)
            /\ FifoStep(Append(PReq, [qpn |-> o.qpn, lock |-> TRUE]), PUpd, PRsp, MReq, MRsp)
            /\ free.list # <<>> /\ free'.list = Tail(free.list)
            /\ free'.release = free.release /\ free'.counter = free.counter
<1> DEFINE o == Head(in["insert"])
<1>1. Take("insert", TRUE) /\ "insert" \in Kinds /\ free.list # <<>>
      /\ fsm' = [fsm EXCEPT !.state = "INSERT_0", !.op = <<o>>, !.idx = Head(free.list)]
      /\ free' = [free EXCEPT !.list = Tail(@)]
  BY DEF MainInsert, Kinds
<1>2. o \in Insertion
  <2>1. o \in Operations("insert")
    BY <1>1, TakeEffect
  <2> QED
    BY <2>1 DEF Operations
<1>3. <<o>> \in Seq(AnyOp) /\ "INSERT_0" \in States
  BY <1>2 DEF AnyOp, States, Asking
<1>4. Head(free.list) = free.list[1] /\ free.list[1] \in Indices /\ Tail(free.list) \in Seq(Indices)
  <2>1. free.list \in Seq(Indices)
    BY DEF Types, FreeTypes
  <2> QED
    BY <1>1, <2>1, HeadAndTail
<1>5. FsmTypes' /\ FsmStep("INSERT_0", <<o>>, free.list[1], fsm.ptr)
  BY <1>1, <1>3, <1>4 DEF Types, FsmTypes, FsmStep
<1>6. HoldsOp'
  BY <1>2, <1>5 DEF HoldsOp, FsmStep
<1>7. /\ FreeTypes' /\ free'.list = Tail(free.list)
      /\ free'.release = free.release /\ free'.counter = free.counter
  BY <1>1, <1>4 DEF Types, FreeTypes
<1> QED
  BY <1>1, <1>2, <1>5, <1>6, <1>7, TakeEffect, TypeFrame DEF Types

(* The states that wait. *)
LEMMA PtrAnswer ==
  ASSUME Types, PRsp # <<>>
  PROVE  PRsp[1] \in PtrEntry /\ Head(PRsp) = PRsp[1] /\ Tail(PRsp) \in Seq(PtrEntry)
  BY HeadAndTail DEF Types, FifoTypes

LEMMA MetaAnswer ==
  ASSUME Types, MRsp # <<>>
  PROVE  MRsp[1] \in MetaEntry /\ Head(MRsp) = MRsp[1] /\ Tail(MRsp) \in Seq(MetaEntry)
  BY HeadAndTail DEF Types, FifoTypes

LEMMA PtrFields == \A p \in PtrEntry : p.valid \in BOOLEAN /\ p.head \in Indices /\ p.tail \in Indices
  BY DEF PtrEntry

LEMMA MetaFields ==
  \A m \in MetaEntry : m.valid \in BOOLEAN /\ m.isTail \in BOOLEAN /\ m.next \in Indices
  BY DEF MetaEntry

LEMMA Insert0FirstEffect ==
  ASSUME Types, Insert0First
  PROVE  LET p == [valid |-> TRUE, head |-> fsm.idx, tail |-> fsm.idx]
             m == TailEntry(fsm.op[1].entry)
         IN /\ Types' /\ UNCHANGED <<script, in, ptr, meta, free, events, init>>
            /\ fsm.state = "INSERT_0" /\ PRsp # <<>> /\ ~PRsp[1].valid /\ Qpn \in Qps
            /\ p \in PtrEntry /\ m \in MetaEntry
            /\ FsmStep("MAIN", fsm.op, fsm.idx, fsm.ptr)
            /\ FifoStep(PReq, Append(PUpd, PtrUpd(Qpn, p)), Tail(PRsp),
                        Append(MReq, Write(fsm.idx, m)), MRsp)
<1> DEFINE p == [valid |-> TRUE, head |-> fsm.idx, tail |-> fsm.idx]
           m == TailEntry(fsm.op[1].entry)
<1>1. fsm.state = "INSERT_0" /\ PRsp # <<>> /\ ~PRsp[1].valid /\ Tail(PRsp) \in Seq(PtrEntry)
      /\ UNCHANGED <<script, in, ptr, meta, free, events, init>>
  <2>1. fsm.state = "INSERT_0" /\ PRsp # <<>> /\ ~Head(PRsp).valid
        /\ UNCHANGED <<script, in, ptr, meta, free, events, init>>
    BY DEF Insert0First, GotPtr, PRsp, env
  <2> QED
    BY <2>1, PtrAnswer
<1>2. Qpn \in Qps /\ fsm.op[1] \in Insertion /\ fsm.idx \in Indices
  BY <1>1, StateOp, FsmFields DEF Types, HoldsOp
<1>3. fsm.op[1].entry \in Request
  BY <1>2 DEF Insertion
<1>4. p \in PtrEntry /\ m \in MetaEntry
  BY <1>2, <1>3, Messages DEF PtrEntry
<1>5. fifo' = [fifo EXCEPT !["ptrRsp"] = Tail(@), !["metaReq"] = Append(@, Write(fsm.idx, m)),
                           !["ptrUpd"] = Append(@, PtrUpd(Qpn, p))]
      /\ fsm' = [fsm EXCEPT !.state = "MAIN"]
  BY DEF Insert0First
<1> HIDE DEF p, m
<1>6. PtrUpd(Qpn, p) \in PtrUpdates /\ Write(fsm.idx, m) \in MetaRequests
  BY <1>2, <1>4, Messages
<1>7. FsmTypes' /\ FsmStep("MAIN", fsm.op, fsm.idx, fsm.ptr)
  BY <1>5 DEF Types, FsmTypes, FsmStep, States
<1>8. HoldsOp'
  BY <1>7 DEF HoldsOp, FsmStep
<1>9. FifoStep(PReq, Append(PUpd, PtrUpd(Qpn, p)), Tail(PRsp), Append(MReq, Write(fsm.idx, m)), MRsp)
      /\ DOMAIN fifo' = Fifos
  BY <1>5 DEF FifoStep, PReq, PUpd, PRsp, MReq, MRsp, Types, FifoTypes, Fifos
<1>10. FifoTypes'
  BY <1>1, <1>6, <1>9 DEF FifoStep, Types, FifoTypes
<1> QED
  BY <1>1, <1>2, <1>4, <1>7, <1>8, <1>9, <1>10, TypeFrame DEF Types, p, m

LEMMA Insert0AppendEffect ==
  ASSUME Types, Insert0Append
  PROVE  LET p == PRsp[1]
         IN /\ Types' /\ UNCHANGED <<script, in, ptr, meta, free, events, init>>
            /\ fsm.state = "INSERT_0" /\ PRsp # <<>> /\ p.valid /\ Qpn \in Qps /\ p \in PtrEntry
            /\ FsmStep("INSERT_1", fsm.op, fsm.idx, [p EXCEPT !.tail = fsm.idx])
            /\ FifoStep(PReq, PUpd, Tail(PRsp), Append(MReq, Link(p.tail, fsm.idx)), MRsp)
<1> DEFINE p == PRsp[1]
<1>1. fsm.state = "INSERT_0" /\ PRsp # <<>> /\ p.valid /\ Tail(PRsp) \in Seq(PtrEntry)
      /\ Head(PRsp) = p /\ p \in PtrEntry
      /\ UNCHANGED <<script, in, ptr, meta, free, events, init>>
  <2>1. fsm.state = "INSERT_0" /\ PRsp # <<>> /\ Head(PRsp).valid
        /\ UNCHANGED <<script, in, ptr, meta, free, events, init>>
    BY DEF Insert0Append, GotPtr, PRsp, env
  <2> QED
    BY <2>1, PtrAnswer
<1>2. Qpn \in Qps /\ fsm.op[1] \in Insertion /\ fsm.idx \in Indices
  BY <1>1, StateOp, FsmFields DEF Types, HoldsOp
<1>3. p.tail \in Indices /\ [p EXCEPT !.tail = fsm.idx] \in PtrEntry
  BY <1>1, <1>2 DEF PtrEntry
<1>4. fifo' = [fifo EXCEPT !["ptrRsp"] = Tail(@), !["metaReq"] = Append(@, Link(p.tail, fsm.idx))]
      /\ fsm' = [fsm EXCEPT !.state = "INSERT_1", !.ptr = [p EXCEPT !.tail = fsm.idx]]
  BY <1>1 DEF Insert0Append, PRsp
<1> HIDE DEF p
<1>5. Link(p.tail, fsm.idx) \in MetaRequests
  BY <1>2, <1>3, Messages
<1>6. FsmTypes' /\ FsmStep("INSERT_1", fsm.op, fsm.idx, [p EXCEPT !.tail = fsm.idx])
  BY <1>3, <1>4 DEF Types, FsmTypes, FsmStep, States
<1>7. HoldsOp'
  BY <1>2, <1>6 DEF HoldsOp, FsmStep
<1>8. FifoStep(PReq, PUpd, Tail(PRsp), Append(MReq, Link(p.tail, fsm.idx)), MRsp)
      /\ DOMAIN fifo' = Fifos
  BY <1>4 DEF FifoStep, PReq, PUpd, PRsp, MReq, MRsp, Types, FifoTypes, Fifos
<1>9. FifoTypes'
  BY <1>1, <1>5, <1>8 DEF FifoStep, Types, FifoTypes
<1> QED
  BY <1>1, <1>2, <1>6, <1>7, <1>8, <1>9, TypeFrame DEF Types, p

LEMMA Insert1Effect ==
  ASSUME Types, Insert1
  PROVE  LET m == TailEntry(fsm.op[1].entry)
         IN /\ Types' /\ UNCHANGED <<script, in, ptr, meta, free, events, init>>
            /\ fsm.state = "INSERT_1" /\ Qpn \in Qps /\ m \in MetaEntry
            /\ FsmStep("MAIN", fsm.op, fsm.idx, fsm.ptr)
            /\ FifoStep(PReq, Append(PUpd, PtrUpd(Qpn, fsm.ptr)), PRsp,
                        Append(MReq, Write(fsm.idx, m)), MRsp)
<1> DEFINE m == TailEntry(fsm.op[1].entry)
<1>1. fsm.state = "INSERT_1" /\ UNCHANGED <<script, in, ptr, meta, free, events, init>>
  BY DEF Insert1, env
<1>2. Qpn \in Qps /\ fsm.op[1] \in Insertion /\ fsm.idx \in Indices /\ fsm.ptr \in PtrEntry
  BY <1>1, StateOp, FsmFields DEF Types, HoldsOp
<1>3. fsm.op[1].entry \in Request
  BY <1>2 DEF Insertion
<1>4. m \in MetaEntry
  BY <1>2, <1>3, Messages
<1>5. fifo' = [fifo EXCEPT !["metaReq"] = Append(@, Write(fsm.idx, m)),
                           !["ptrUpd"] = Append(@, PtrUpd(Qpn, fsm.ptr))]
      /\ fsm' = [fsm EXCEPT !.state = "MAIN"]
  BY DEF Insert1
<1> HIDE DEF m
<1>6. PtrUpd(Qpn, fsm.ptr) \in PtrUpdates /\ Write(fsm.idx, m) \in MetaRequests
  BY <1>2, <1>4, Messages
<1>7. FsmTypes' /\ FsmStep("MAIN", fsm.op, fsm.idx, fsm.ptr)
  BY <1>5 DEF Types, FsmTypes, FsmStep, States
<1>8. HoldsOp'
  BY <1>7 DEF HoldsOp, FsmStep
<1>9. FifoStep(PReq, Append(PUpd, PtrUpd(Qpn, fsm.ptr)), PRsp, Append(MReq, Write(fsm.idx, m)), MRsp)
      /\ DOMAIN fifo' = Fifos
  BY <1>5 DEF FifoStep, PReq, PUpd, PRsp, MReq, MRsp, Types, FifoTypes, Fifos
<1>10. FifoTypes'
  BY <1>6, <1>9 DEF FifoStep, Types, FifoTypes
<1> QED
  BY <1>1, <1>2, <1>4, <1>7, <1>8, <1>9, <1>10, TypeFrame DEF Types, m

LEMMA Update0Effect ==
  ASSUME Types, Update0
  PROVE  LET p == PRsp[1]
         IN /\ Types' /\ UNCHANGED <<script, in, ptr, meta, free, events, init>>
            /\ fsm.state = "UPDATE_0" /\ PRsp # <<>> /\ Qpn \in Qps /\ p \in PtrEntry
            /\ FsmStep(IF p.valid THEN "UPDATE_1" ELSE "MAIN", fsm.op,
                       IF p.valid THEN p.head ELSE fsm.idx, p)
            /\ FifoStep(PReq, IF p.valid THEN PUpd ELSE Append(PUpd, PtrUpd(Qpn, p)), Tail(PRsp),
                        IF p.valid THEN Append(MReq, Read(p.head)) ELSE MReq, MRsp)
<1> DEFINE p == PRsp[1]
<1>1. fsm.state = "UPDATE_0" /\ PRsp # <<>> /\ Tail(PRsp) \in Seq(PtrEntry)
      /\ Head(PRsp) = p /\ p \in PtrEntry
      /\ UNCHANGED <<script, in, ptr, meta, free, events, init>>
  <2>1. fsm.state = "UPDATE_0" /\ PRsp # <<>>
        /\ UNCHANGED <<script, in, ptr, meta, free, events, init>>
    BY DEF Update0, GotPtr, PRsp, env
  <2> QED
    BY <2>1, PtrAnswer
<1>2. Qpn \in Qps /\ fsm.op[1] \in Answer /\ fsm.idx \in Indices
  BY <1>1, StateOp, FsmFields DEF Types, HoldsOp
<1>3. p.head \in Indices /\ p.valid \in BOOLEAN
  BY <1>1, PtrFields
<1>4. fifo' = [fifo EXCEPT !["ptrRsp"] = Tail(@),
                           !["metaReq"] = IF p.valid THEN Append(@, Read(p.head)) ELSE @,
                           !["ptrUpd"] = IF p.valid THEN @ ELSE Append(@, PtrUpd(Qpn, p))]
      /\ fsm' = [fsm EXCEPT !.state = IF p.valid THEN "UPDATE_1" ELSE "MAIN",
                            !.ptr = p, !.idx = IF p.valid THEN p.head ELSE @]
  BY <1>1 DEF Update0, PRsp
<1>5. Read(p.head) \in MetaRequests /\ PtrUpd(Qpn, p) \in PtrUpdates
  BY <1>1, <1>2, <1>3, Messages
<1> HIDE DEF p
<1>6. FsmTypes' /\ FsmStep(IF p.valid THEN "UPDATE_1" ELSE "MAIN", fsm.op,
                           IF p.valid THEN p.head ELSE fsm.idx, p)
  BY <1>1, <1>3, <1>4 DEF Types, FsmTypes, FsmStep, States, Walking
<1>7. HoldsOp'
  BY <1>2, <1>6 DEF HoldsOp, FsmStep
<1>8. FifoStep(PReq, IF p.valid THEN PUpd ELSE Append(PUpd, PtrUpd(Qpn, p)), Tail(PRsp),
               IF p.valid THEN Append(MReq, Read(p.head)) ELSE MReq, MRsp)
      /\ DOMAIN fifo' = Fifos
  BY <1>4 DEF FifoStep, PReq, PUpd, PRsp, MReq, MRsp, Types, FifoTypes, Fifos
<1>9. FifoTypes'
  BY <1>1, <1>5, <1>8 DEF FifoStep, Types, FifoTypes
<1> QED
  BY <1>1, <1>2, <1>6, <1>7, <1>8, <1>9, TypeFrame DEF Types, p
LEMMA Update1KeepEffect ==
  ASSUME Types, Update1Keep
  PROVE  LET m == MRsp[1]
         IN /\ Types' /\ UNCHANGED <<script, in, ptr, meta, free, events>>
            /\ fsm.state = "UPDATE_1" /\ MRsp # <<>> /\ m \in MetaEntry /\ m.valid /\ Qpn \in Qps
            /\ fsm.op[1].op \in KeepsEntry
            /\ init' = (IF fsm.op[1].op \in ForwardsAddress THEN Append(init, m.e.laddr) ELSE init)
            /\ fsm.ptr \in PtrEntry
            /\ FsmStep("MAIN", fsm.op, fsm.idx, fsm.ptr)
            /\ FifoStep(PReq, Append(PUpd, PtrUpd(Qpn, fsm.ptr)), PRsp,
                        Append(MReq, Write(fsm.ptr.head, [m EXCEPT !.e = Advanced(@)])), Tail(MRsp))
<1> DEFINE m == MRsp[1]
           p == fsm.ptr
<1>1. fsm.state = "UPDATE_1" /\ MRsp # <<>> /\ m.valid /\ Tail(MRsp) \in Seq(MetaEntry)
      /\ Head(MRsp) = m /\ m \in MetaEntry /\ fsm.op[1].op \in KeepsEntry
      /\ UNCHANGED <<script, in, ptr, meta, free, events>>
  <2>1. fsm.state = "UPDATE_1" /\ MRsp # <<>> /\ Head(MRsp).valid
        /\ fsm.op[1].op \in KeepsEntry /\ UNCHANGED <<script, in, ptr, meta, free, events>>
    BY DEF Update1Keep, GotMeta, MRsp, env
  <2> QED
    BY <2>1, MetaAnswer
<1>2. Qpn \in Qps /\ fsm.idx \in Indices /\ fsm.ptr \in PtrEntry
  BY <1>1, StateOp, FsmFields
<1>3. p \in PtrEntry /\ fsm.ptr.head \in Indices
  BY <1>1, <1>2, MetaFields DEF PtrEntry
<1>4. /\ fifo' = [fifo EXCEPT !["metaRsp"] = Tail(@),
                    !["metaReq"] = Append(@, Write(fsm.ptr.head, [m EXCEPT !.e = Advanced(@)])),
                    !["ptrUpd"] = Append(@, PtrUpd(Qpn, p))]
      /\ init' = (IF fsm.op[1].op \in ForwardsAddress THEN Append(init, m.e.laddr) ELSE init)
      /\ fsm' = [fsm EXCEPT !.state = "MAIN"]
  BY <1>1 DEF Update1Keep, MRsp
<1> HIDE DEF m, p
<1>5. PtrUpd(Qpn, p) \in PtrUpdates /\ Write(fsm.ptr.head, [m EXCEPT !.e = Advanced(@)]) \in MetaRequests
  BY <1>1, <1>2, <1>3, Messages, AdvancedType
<1>6. FsmTypes' /\ FsmStep("MAIN", fsm.op, fsm.idx, fsm.ptr)
  BY <1>4 DEF Types, FsmTypes, FsmStep, States
<1>7. HoldsOp'
  BY <1>6 DEF HoldsOp, FsmStep
<1>8. FifoStep(PReq, Append(PUpd, PtrUpd(Qpn, p)), PRsp,
               Append(MReq, Write(fsm.ptr.head, [m EXCEPT !.e = Advanced(@)])), Tail(MRsp))
      /\ DOMAIN fifo' = Fifos
  BY <1>4 DEF FifoStep, PReq, PUpd, PRsp, MReq, MRsp, Types, FifoTypes, Fifos
<1>9. FifoTypes'
  BY <1>1, <1>5, <1>8 DEF FifoStep, Types, FifoTypes
<1> QED
  BY <1>1, <1>2, <1>3, <1>4, <1>6, <1>7, <1>8, <1>9, TypeFrame DEF Types, m, p

LEMMA Update1ReleaseEffect ==
  ASSUME Types, Update1Release
  PROVE  LET m == MRsp[1]
         IN /\ Types' /\ UNCHANGED <<script, in, ptr, meta, events>>
            /\ fsm.state = "UPDATE_1" /\ MRsp # <<>> /\ m \in MetaEntry /\ m.valid /\ Qpn \in Qps
            /\ fsm.op[1].op \notin KeepsEntry
            /\ init' = (IF fsm.op[1].op \in ForwardsAddress THEN Append(init, m.e.laddr) ELSE init)
            /\ [fsm.ptr EXCEPT !.head = m.next, !.valid = ~m.isTail] \in PtrEntry
            /\ FsmStep("MAIN", fsm.op, fsm.idx, fsm.ptr)
            /\ FifoStep(PReq, Append(PUpd, PtrUpd(Qpn, [fsm.ptr EXCEPT !.head = m.next, !.valid = ~m.isTail])), PRsp,
                        MReq, Tail(MRsp))
            /\ free'.list = free.list /\ free'.counter = free.counter
            /\ free'.release = Append(free.release, fsm.idx)
<1> DEFINE m == MRsp[1]
           p == [fsm.ptr EXCEPT !.head = m.next, !.valid = ~m.isTail]
<1>1. fsm.state = "UPDATE_1" /\ MRsp # <<>> /\ m.valid /\ Tail(MRsp) \in Seq(MetaEntry)
      /\ Head(MRsp) = m /\ m \in MetaEntry /\ fsm.op[1].op \notin KeepsEntry
      /\ UNCHANGED <<script, in, ptr, meta, events>>
  <2>1. fsm.state = "UPDATE_1" /\ MRsp # <<>> /\ Head(MRsp).valid
        /\ fsm.op[1].op \notin KeepsEntry /\ UNCHANGED <<script, in, ptr, meta, events>>
    BY DEF Update1Release, GotMeta, MRsp, env
  <2> QED
    BY <2>1, MetaAnswer
<1>2. Qpn \in Qps /\ fsm.idx \in Indices /\ fsm.ptr \in PtrEntry
  BY <1>1, StateOp, FsmFields
<1>3. p \in PtrEntry /\ fsm.ptr.head \in Indices
  BY <1>1, <1>2, MetaFields DEF PtrEntry
<1>4. /\ fifo' = [fifo EXCEPT !["metaRsp"] = Tail(@),
                    
                    !["ptrUpd"] = Append(@, PtrUpd(Qpn, p))]
      /\ init' = (IF fsm.op[1].op \in ForwardsAddress THEN Append(init, m.e.laddr) ELSE init)
      /\ fsm' = [fsm EXCEPT !.state = "MAIN"]
  BY <1>1 DEF Update1Release, MRsp
<1> HIDE DEF m, p
<1>5. PtrUpd(Qpn, p) \in PtrUpdates
  BY <1>1, <1>2, <1>3, Messages
<1>6. FsmTypes' /\ FsmStep("MAIN", fsm.op, fsm.idx, fsm.ptr)
  BY <1>4 DEF Types, FsmTypes, FsmStep, States
<1>7. HoldsOp'
  BY <1>6 DEF HoldsOp, FsmStep
<1>8. FifoStep(PReq, Append(PUpd, PtrUpd(Qpn, p)), PRsp,
               MReq, Tail(MRsp))
      /\ DOMAIN fifo' = Fifos
  BY <1>4 DEF FifoStep, PReq, PUpd, PRsp, MReq, MRsp, Types, FifoTypes, Fifos
<1>9. FifoTypes'
  BY <1>1, <1>5, <1>8 DEF FifoStep, Types, FifoTypes
<1>10. /\ FreeTypes' /\ free'.list = free.list /\ free'.counter = free.counter
       /\ free'.release = Append(free.release, fsm.idx)
  <2>1. free' = [free EXCEPT !.release = Append(@, fsm.idx)]
    BY DEF Update1Release
  <2>2. Append(free.release, fsm.idx) \in Seq(Indices)
    BY <1>2 DEF Types, FreeTypes
  <2> QED
    BY <2>1, <2>2 DEF Types, FreeTypes
<1> QED
  BY <1>1, <1>2, <1>3, <1>4, <1>6, <1>7, <1>8, <1>9, <1>10, TypeFrame DEF Types, m, p

LEMMA StartRetransEffect ==
  ASSUME Types, NEW state, NEW next, StartRetrans(state, next),
         <<state, next>> \in {<<"RETRANS_0", "RETRANS_1">>, <<"TIMER_RETRANS_0", "RETRANS_2">>}
  PROVE  LET p == PRsp[1]
         IN /\ Types' /\ UNCHANGED <<script, in, ptr, meta, free, events, init>>
            /\ fsm.state = state /\ PRsp # <<>> /\ Qpn \in Qps /\ p \in PtrEntry
            /\ FsmStep(IF p.valid THEN next ELSE "MAIN", fsm.op, fsm.idx, fsm.ptr)
            /\ FifoStep(PReq, PUpd, Tail(PRsp),
                        IF p.valid THEN Append(MReq, Read(p.head)) ELSE MReq, MRsp)
<1> DEFINE p == PRsp[1]
<1>1. fsm.state = state /\ PRsp # <<>> /\ Tail(PRsp) \in Seq(PtrEntry)
      /\ Head(PRsp) = p /\ p \in PtrEntry
      /\ UNCHANGED <<script, in, ptr, meta, free, events, init>>
  <2>1. fsm.state = state /\ PRsp # <<>>
        /\ UNCHANGED <<script, in, ptr, meta, free, events, init>>
    BY DEF StartRetrans, GotPtr, PRsp, env
  <2> QED
    BY <2>1, PtrAnswer
<1>0. /\ state \in {"RETRANS_0", "TIMER_RETRANS_0"} /\ next \in {"RETRANS_1", "RETRANS_2"}
  OBVIOUS
<1>2. Qpn \in Qps /\ fsm.op[1] \in Demand
  BY <1>0, <1>1, StateOp DEF Types, HoldsOp
<1>3. p.head \in Indices /\ p.valid \in BOOLEAN
  BY <1>1, PtrFields
<1>4. fifo' = [fifo EXCEPT !["ptrRsp"] = Tail(@),
                           !["metaReq"] = IF p.valid THEN Append(@, Read(p.head)) ELSE @]
      /\ fsm' = [fsm EXCEPT !.state = IF p.valid THEN next ELSE "MAIN"]
  BY <1>1 DEF StartRetrans, PRsp
<1>5. Read(p.head) \in MetaRequests
  BY <1>3, Messages
<1> HIDE DEF p
<1>6. FsmTypes' /\ FsmStep(IF p.valid THEN next ELSE "MAIN", fsm.op, fsm.idx, fsm.ptr)
  BY <1>0, <1>3, <1>4 DEF Types, FsmTypes, FsmStep, States, Walking
<1>7. HoldsOp'
  BY <1>0, <1>2, <1>6 DEF HoldsOp, FsmStep
<1>8. FifoStep(PReq, PUpd, Tail(PRsp), IF p.valid THEN Append(MReq, Read(p.head)) ELSE MReq, MRsp)
      /\ DOMAIN fifo' = Fifos
  BY <1>4 DEF FifoStep, PReq, PUpd, PRsp, MReq, MRsp, Types, FifoTypes, Fifos
<1>9. FifoTypes'
  BY <1>1, <1>5, <1>8 DEF FifoStep, Types, FifoTypes
<1> QED
  BY <1>1, <1>2, <1>6, <1>7, <1>8, <1>9, TypeFrame DEF Types, p

LEMMA Retrans1Effect ==
  ASSUME Types, Retrans1
  PROVE  LET m == MRsp[1]
         IN /\ Types' /\ UNCHANGED <<script, in, ptr, meta, free, init>>
            /\ fsm.state = "RETRANS_1" /\ MRsp # <<>> /\ m \in MetaEntry /\ m.valid /\ Qpn \in Qps
            /\ events' = (IF m.e.psn = fsm.op[1].psn THEN Append(events, m.e) ELSE events)
            /\ FsmStep(IF ~(m.e.psn = fsm.op[1].psn) THEN "RETRANS_1" ELSE IF m.isTail THEN "MAIN" ELSE "RETRANS_2", fsm.op, fsm.idx, fsm.ptr)
            /\ FifoStep(PReq, PUpd, PRsp, IF m.isTail THEN MReq ELSE Append(MReq, Read(m.next)),
                        Tail(MRsp))
<1> DEFINE m == MRsp[1]
<1>1. fsm.state = "RETRANS_1" /\ MRsp # <<>> /\ m.valid /\ Tail(MRsp) \in Seq(MetaEntry)
      /\ Head(MRsp) = m /\ m \in MetaEntry
      /\ UNCHANGED <<script, in, ptr, meta, free, init>>
  <2>1. fsm.state = "RETRANS_1" /\ MRsp # <<>> /\ Head(MRsp).valid
        /\ UNCHANGED <<script, in, ptr, meta, free, init>>
    BY DEF Retrans1, GotMeta, MRsp, env
  <2> QED
    BY <2>1, MetaAnswer
<1>2. Qpn \in Qps /\ fsm.op[1] \in Demand
  BY <1>1, StateOp DEF Types, HoldsOp
<1>3. m.next \in Indices /\ m.isTail \in BOOLEAN
  BY <1>1, MetaFields
<1>4. fifo' = [fifo EXCEPT !["metaRsp"] = Tail(@),
                           !["metaReq"] = IF m.isTail THEN @ ELSE Append(@, Read(m.next))]
      /\ fsm' = [fsm EXCEPT !.state = IF ~(m.e.psn = fsm.op[1].psn) THEN "RETRANS_1" ELSE IF m.isTail THEN "MAIN" ELSE "RETRANS_2"]
      /\ events' = (IF m.e.psn = fsm.op[1].psn THEN Append(events, m.e) ELSE events)
  BY <1>1 DEF Retrans1, MRsp
<1>5. Read(m.next) \in MetaRequests
  BY <1>3, Messages
<1> HIDE DEF m
<1>6. FsmTypes' /\ FsmStep(IF ~(m.e.psn = fsm.op[1].psn) THEN "RETRANS_1" ELSE IF m.isTail THEN "MAIN" ELSE "RETRANS_2", fsm.op, fsm.idx, fsm.ptr)
  BY <1>3, <1>4 DEF Types, FsmTypes, FsmStep, States, Walking
<1>7. HoldsOp'
  BY <1>2, <1>6 DEF HoldsOp, FsmStep
<1>8. FifoStep(PReq, PUpd, PRsp, IF m.isTail THEN MReq ELSE Append(MReq, Read(m.next)), Tail(MRsp))
      /\ DOMAIN fifo' = Fifos
  BY <1>4 DEF FifoStep, PReq, PUpd, PRsp, MReq, MRsp, Types, FifoTypes, Fifos
<1>9. FifoTypes'
  BY <1>1, <1>5, <1>8 DEF FifoStep, Types, FifoTypes
<1> QED
  BY <1>1, <1>2, <1>4, <1>6, <1>7, <1>8, <1>9, TypeFrame DEF Types, m

LEMMA Retrans2Effect ==
  ASSUME Types, Retrans2
  PROVE  LET m == MRsp[1]
         IN /\ Types' /\ UNCHANGED <<script, in, ptr, meta, free, init>>
            /\ fsm.state = "RETRANS_2" /\ MRsp # <<>> /\ m \in MetaEntry /\ m.valid /\ Qpn \in Qps
            /\ events' = Append(events, m.e)
            /\ FsmStep(IF m.isTail THEN "MAIN" ELSE "RETRANS_2", fsm.op, fsm.idx, fsm.ptr)
            /\ FifoStep(PReq, PUpd, PRsp, IF m.isTail THEN MReq ELSE Append(MReq, Read(m.next)),
                        Tail(MRsp))
<1> DEFINE m == MRsp[1]
<1>1. fsm.state = "RETRANS_2" /\ MRsp # <<>> /\ m.valid /\ Tail(MRsp) \in Seq(MetaEntry)
      /\ Head(MRsp) = m /\ m \in MetaEntry
      /\ UNCHANGED <<script, in, ptr, meta, free, init>>
  <2>1. fsm.state = "RETRANS_2" /\ MRsp # <<>> /\ Head(MRsp).valid
        /\ UNCHANGED <<script, in, ptr, meta, free, init>>
    BY DEF Retrans2, GotMeta, MRsp, env
  <2> QED
    BY <2>1, MetaAnswer
<1>2. Qpn \in Qps /\ fsm.op[1] \in Demand
  BY <1>1, StateOp DEF Types, HoldsOp
<1>3. m.next \in Indices /\ m.isTail \in BOOLEAN
  BY <1>1, MetaFields
<1>4. fifo' = [fifo EXCEPT !["metaRsp"] = Tail(@),
                           !["metaReq"] = IF m.isTail THEN @ ELSE Append(@, Read(m.next))]
      /\ fsm' = [fsm EXCEPT !.state = IF m.isTail THEN "MAIN" ELSE "RETRANS_2"]
      /\ events' = Append(events, m.e)
  BY <1>1 DEF Retrans2, MRsp
<1>5. Read(m.next) \in MetaRequests
  BY <1>3, Messages
<1> HIDE DEF m
<1>6. FsmTypes' /\ FsmStep(IF m.isTail THEN "MAIN" ELSE "RETRANS_2", fsm.op, fsm.idx, fsm.ptr)
  BY <1>3, <1>4 DEF Types, FsmTypes, FsmStep, States, Walking
<1>7. HoldsOp'
  BY <1>2, <1>6 DEF HoldsOp, FsmStep
<1>8. FifoStep(PReq, PUpd, PRsp, IF m.isTail THEN MReq ELSE Append(MReq, Read(m.next)), Tail(MRsp))
      /\ DOMAIN fifo' = Fifos
  BY <1>4 DEF FifoStep, PReq, PUpd, PRsp, MReq, MRsp, Types, FifoTypes, Fifos
<1>9. FifoTypes'
  BY <1>1, <1>5, <1>8 DEF FifoStep, Types, FifoTypes
<1> QED
  BY <1>1, <1>2, <1>4, <1>6, <1>7, <1>8, <1>9, TypeFrame DEF Types, m
-----------------------------------------------------------------------------
(* Pointers are asked for and written back in turn *)

LEMMA Singles ==
  /\ \A x : Tail(<<x>>) = <<>> /\ Append(<<>>, x) = <<x>> /\ <<x>> # <<>> /\ <<x>>[1] = x
            /\ Len(<<x>>) = 1 /\ Head(<<x>>) = x
  /\ Len(<<>>) = 0
  OBVIOUS

LEMMA LenZero == \A S : \A s \in Seq(S) : Len(s) = 0 => s = <<>>
  OBVIOUS

LEMMA AtMostOne ==
  ASSUME NEW S, NEW s \in Seq(S), Len(s) <= 1, s # <<>>
  PROVE  Tail(s) = <<>> /\ Len(s) = 1
<1>1. Len(s) \in Nat \ {0} /\ Tail(s) \in Seq(S) /\ Len(Tail(s)) = Len(s) - 1
  BY HeadAndTail
<1>2. Len(s) = 1 /\ Len(Tail(s)) = 0
  BY <1>1
<1> QED
  BY <1>1, <1>2, LenZero

LEMMA ControlFrame ==
  ASSUME Types, Control
  PROVE  /\ UNCHANGED <<fsm, ptr, fifo>> => Control'
         /\ UNCHANGED <<fsm, fifo>> => Reading'
  BY DEF Control, Asked, Locked, Register, Reading, LockHeld, Qpn, PReq, PUpd, PRsp, MReq, MRsp

LEMMA ReadingFrame ==
  ASSUME Types, Reading, MReq' = MReq, MRsp' = MRsp, fsm'.state = fsm.state
  PROVE  Reading'
  BY DEF Reading

LEMMA PtrUpdateControl ==
  ASSUME Types, Control, PtrUpdate
  PROVE  Control'
<1> DEFINE u == PUpd[1]
<1>1. /\ UNCHANGED <<script, in, fsm, meta, free, events, init>>
      /\ PUpd # <<>> /\ u \in PtrUpdates
      /\ FifoStep(PReq, Tail(PUpd), PRsp, MReq, MRsp)
      /\ ptr'.table = [ptr.table EXCEPT ![u.qpn] = u.entry]
      /\ ptr'.locked = (IF ptr.locked = <<u.qpn>> THEN <<>> ELSE ptr.locked)
      /\ ptr'.wait = ptr.wait
  BY PtrUpdateEffect
<1>2. Tail(PUpd) = <<>> /\ Len(PUpd) = 1
  BY <1>1, AtMostOne DEF Control, Asked, Types, FifoTypes
<1>3. PUpd' = <<>> /\ Len(PUpd') <= 1 /\ ptr'.wait = <<>> /\ ptr'.locked = <<>>
  BY <1>1, <1>2, Singles DEF Control, Locked, FifoStep
<1>4. Qpn' = Qpn
  BY <1>1 DEF Qpn
<1>5. fsm.state \in Asking \cup {"MAIN"} /\ (fsm.state \in Asking => PRsp = <<>>)
  BY <1>1 DEF Control, Asked, Types, FsmTypes
<1>6. ~LockHeld /\ ~LockHeld'
  BY <1>1, <1>5 DEF LockHeld, FifoStep, Asking, Locking
<1>7. Asked'
  BY <1>1, <1>3, <1>4, <1>5 DEF Control, Asked, FifoStep
<1>8. Locked'
  BY <1>3, <1>6 DEF Locked
<1>9. Register'
  BY <1>1, <1>5 DEF Register, Asking
<1>10. Reading'
  BY <1>1, ReadingFrame DEF Control, FifoStep
<1> QED
  BY <1>7, <1>8, <1>9, <1>10 DEF Control

LEMMA PtrRequestControl ==
  ASSUME Types, Control, PtrRequest
  PROVE  /\ Control' /\ PRsp = <<>> /\ PRsp' = <<ptr.table[Qpn]>> /\ fsm.state \in Asking
         /\ ptr'.table = ptr.table
<1> DEFINE r == PReq[1]
           blocked == r.lock /\ ptr.locked # <<>>
<1>1. /\ UNCHANGED <<script, in, fsm, meta, free, events, init>>
      /\ PUpd = <<>> /\ PReq # <<>> /\ r \in PtrRequests
      /\ FifoStep(Tail(PReq), PUpd, IF blocked THEN PRsp ELSE Append(PRsp, ptr.table[r.qpn]), MReq, MRsp)
      /\ ptr'.table = ptr.table
      /\ ptr'.locked = (IF r.lock /\ ~blocked THEN <<r.qpn>> ELSE ptr.locked)
      /\ ptr'.wait = (IF blocked THEN <<r.qpn>> ELSE ptr.wait)
  BY PtrRequestEffect
<1>2. /\ fsm.state \in Asking /\ PRsp = <<>>
      /\ PReq = <<[qpn |-> Qpn, lock |-> fsm.state \in Locking]>>
  BY <1>1 DEF Control, Asked
<1>3. r = [qpn |-> Qpn, lock |-> fsm.state \in Locking] /\ Tail(PReq) = <<>>
  BY <1>2
<1>4. ~LockHeld /\ ptr.locked = <<>> /\ ptr.wait = <<>>
  BY <1>1, <1>2 DEF LockHeld, Control, Locked, Asking
<1>5. ~blocked
  BY <1>4
<1>6. /\ PReq' = <<>> /\ PUpd' = <<>> /\ PRsp' = <<ptr.table[Qpn]>>
      /\ MReq' = MReq /\ MRsp' = MRsp /\ ptr'.wait = <<>>
      /\ ptr'.locked = IF fsm.state \in Locking THEN <<Qpn>> ELSE <<>>
  <2> HIDE DEF blocked
  <2> QED
    BY <1>1, <1>2, <1>3, <1>4, <1>5, Singles DEF FifoStep
<1>7. Qpn' = Qpn /\ fsm' = fsm
  BY <1>1 DEF Qpn
<1>8. Asked'
  BY <1>1, <1>2, <1>6, <1>7, Singles DEF Asked
<1>9. LockHeld' <=> fsm.state \in Locking
  BY <1>2, <1>6, <1>7, Singles DEF LockHeld, Asking
<1>10. Locked'
  BY <1>6, <1>7, <1>9 DEF Locked
<1>11. Register'
  BY <1>2, <1>7 DEF Register, Asking
<1>12. Reading'
  BY <1>6, <1>7, ReadingFrame DEF Control
<1> QED
  BY <1>1, <1>2, <1>6, <1>8, <1>10, <1>11, <1>12 DEF Control

LEMMA MetaTableControl ==
  ASSUME Types, Control, MetaTable
  PROVE  /\ Control'
         /\ MReq[1].kind = "read" => /\ Tail(MReq) = <<>> /\ Len(MReq) = 1 /\ MRsp = <<>>
                                     /\ MRsp' = <<meta[MReq[1].idx]>> /\ fsm.state \in Walking
         /\ MReq[1].kind # "read" => MRsp' = MRsp
<1> DEFINE r == MReq[1]
<1>1. /\ UNCHANGED <<script, in, fsm, ptr, free, events, init>>
      /\ MReq # <<>> /\ r \in MetaRequests
      /\ FifoStep(PReq, PUpd, PRsp, Tail(MReq),
                  IF r.kind = "read" THEN Append(MRsp, meta[r.idx]) ELSE MRsp)
      /\ Types'
  BY MetaTableEffect
<1>2. Asked' /\ Locked' /\ Register'
  BY <1>1 DEF Control, Asked, Locked, Register, LockHeld, Qpn, FifoStep
<1>3. /\ Len(MReq) \in Nat \ {0} /\ Tail(MReq) \in Seq(MetaRequests) /\ Len(Tail(MReq)) = Len(MReq) - 1
      /\ \A i \in 1 .. Len(MReq) - 1 : Tail(MReq)[i] = MReq[i + 1]
  BY <1>1, HeadAndTail DEF Types, FifoTypes
<1>4. CASE r.kind = "read"
  <2>1. Len(MReq) = 1 /\ fsm.state \in Walking
    <3>1. 1 \in 1 .. Len(MReq)
      BY <1>3
    <3> QED
      BY <1>4, <3>1 DEF Control, Reading
  <2>2. Tail(MReq) = <<>> /\ MRsp = <<>>
    <3>1. Len(Tail(MReq)) = 0
      BY <1>3, <2>1
    <3> QED
      BY <1>1, <1>3, <2>1, <3>1, LenZero DEF Control, Reading
  <2>3. MRsp' = <<meta[r.idx]>> /\ MReq' = <<>>
    BY <1>1, <1>4, <2>2, Singles DEF FifoStep
  <2>4. Reading'
    BY <1>1, <2>1, <2>3, Singles DEF Reading
  <2> QED
    BY <1>2, <1>4, <2>1, <2>2, <2>3, <2>4 DEF Control
<1>5. CASE r.kind # "read"
  <2>1. MRsp' = MRsp /\ MReq' = Tail(MReq) /\ fsm' = fsm
    BY <1>1, <1>5 DEF FifoStep
  <2>2. \A i \in 1 .. Len(MReq') : MReq'[i].kind = "read" => i = Len(MReq') /\ fsm'.state \in Walking
    <3> SUFFICES ASSUME NEW i \in 1 .. Len(MReq) - 1, Tail(MReq)[i].kind = "read"
                 PROVE  i = Len(MReq) - 1 /\ fsm.state \in Walking
      BY <1>3, <2>1
    <3>1. i + 1 \in 1 .. Len(MReq) /\ MReq[i + 1].kind = "read"
      BY <1>3
    <3>2. i + 1 = Len(MReq) /\ fsm.state \in Walking
      BY <3>1 DEF Control, Reading
    <3>3. Len(MReq) \in Nat /\ i \in Int
      BY <1>3
    <3> QED
      BY <3>2, <3>3
  <2>3. fsm.state \in Walking => MRsp = <<>> /\ MReq # <<>> /\ MReq[Len(MReq)].kind = "read"
    BY <1>1 DEF Control, Reading
  <2>4. fsm.state \in Walking => Tail(MReq) # <<>> /\ Tail(MReq)[Len(MReq) - 1].kind = "read"
    <3> SUFFICES ASSUME fsm.state \in Walking
                 PROVE  Tail(MReq) # <<>> /\ Tail(MReq)[Len(MReq) - 1].kind = "read"
      OBVIOUS
    <3>1. Len(MReq) # 1
      BY <1>5, <2>3
    <3>2. Len(MReq) - 1 \in 1 .. Len(MReq) - 1 /\ Len(Tail(MReq)) # 0
          /\ (Len(MReq) - 1) + 1 = Len(MReq)
      BY <1>3, <3>1
    <3>3. Tail(MReq)[Len(MReq) - 1] = MReq[Len(MReq)]
      BY <1>3, <3>2
    <3> QED
      BY <2>3, <3>2, <3>3, Singles
  <2>5. Reading'
    BY <1>3, <2>1, <2>2, <2>3, <2>4 DEF Control, Reading
  <2> QED
    BY <1>2, <1>5, <2>1, <2>5 DEF Control
<1> QED
  BY <1>4, <1>5

LEMMA MainUpdateControl ==
  ASSUME Types, Control, MainUpdate
  PROVE  Control'
<1> DEFINE o == Head(in["upd"])
<1>1. /\ UNCHANGED ptr /\ fsm.state = "MAIN" /\ o.qpn \in Qps
      /\ FsmStep("UPDATE_0", <<o>>, fsm.idx, fsm.ptr)
      /\ FifoStep(Append(PReq, [qpn |-> o.qpn, lock |-> TRUE]), PUpd, PRsp, MReq, MRsp)
  BY MainUpdateEffect
<1> HIDE DEF o
<1>2. PReq = <<>> /\ PRsp = <<>> /\ MRsp = <<>>
  BY <1>1 DEF Control, Asked, Reading, Asking, Walking
<1>3. Qpn' = o.qpn
  BY <1>1 DEF Qpn, FsmStep
<1>4. PReq' = <<[qpn |-> o.qpn, lock |-> TRUE]>> /\ PRsp' = <<>> /\ PUpd' = PUpd
      /\ fsm'.state = "UPDATE_0"
  BY <1>1, <1>2, Singles DEF FifoStep, FsmStep
<1>5. Asked'
  <2>1. (fsm'.state \in Locking) = TRUE /\ fsm'.state \in Asking
    BY <1>4 DEF Locking, Asking
  <2> QED
    BY <1>3, <1>4, <2>1 DEF Control, Asked
<1>6. ~LockHeld /\ ~LockHeld'
  BY <1>1, <1>4 DEF LockHeld, Locking
<1>7. Locked'
  BY <1>1, <1>4, <1>6 DEF Control, Locked
<1>8. Register'
  BY <1>4 DEF Register
<1>9. Reading'
  BY <1>1, <1>2, <1>4 DEF Control, Reading, FifoStep, Walking
<1> QED
  BY <1>5, <1>7, <1>8, <1>9 DEF Control

LEMMA MainNakControl ==
  ASSUME Types, Control, MainNak
  PROVE  Control'
<1> DEFINE o == Head(in["nak"])
<1>1. /\ UNCHANGED ptr /\ fsm.state = "MAIN" /\ o.qpn \in Qps
      /\ FsmStep("RETRANS_0", <<o>>, fsm.idx, fsm.ptr)
      /\ FifoStep(Append(PReq, [qpn |-> o.qpn, lock |-> FALSE]), PUpd, PRsp, MReq, MRsp)
  BY MainNakEffect
<1> HIDE DEF o
<1>2. PReq = <<>> /\ PRsp = <<>> /\ MRsp = <<>>
  BY <1>1 DEF Control, Asked, Reading, Asking, Walking
<1>3. Qpn' = o.qpn
  BY <1>1 DEF Qpn, FsmStep
<1>4. PReq' = <<[qpn |-> o.qpn, lock |-> FALSE]>> /\ PRsp' = <<>> /\ PUpd' = PUpd
      /\ fsm'.state = "RETRANS_0"
  BY <1>1, <1>2, Singles DEF FifoStep, FsmStep
<1>5. Asked'
  <2>1. (fsm'.state \in Locking) = FALSE /\ fsm'.state \in Asking
    BY <1>4 DEF Locking, Asking
  <2> QED
    BY <1>3, <1>4, <2>1 DEF Control, Asked
<1>6. ~LockHeld /\ ~LockHeld'
  BY <1>1, <1>4 DEF LockHeld, Locking
<1>7. Locked'
  BY <1>1, <1>4, <1>6 DEF Control, Locked
<1>8. Register'
  BY <1>4 DEF Register
<1>9. Reading'
  BY <1>1, <1>2, <1>4 DEF Control, Reading, FifoStep, Walking
<1> QED
  BY <1>5, <1>7, <1>8, <1>9 DEF Control

LEMMA MainTimeoutControl ==
  ASSUME Types, Control, MainTimeout
  PROVE  Control'
<1> DEFINE o == Head(in["timeout"])
<1>1. /\ UNCHANGED ptr /\ fsm.state = "MAIN" /\ o.qpn \in Qps
      /\ FsmStep("TIMER_RETRANS_0", <<o>>, fsm.idx, fsm.ptr)
      /\ FifoStep(Append(PReq, [qpn |-> o.qpn, lock |-> FALSE]), PUpd, PRsp, MReq, MRsp)
  BY MainTimeoutEffect
<1> HIDE DEF o
<1>2. PReq = <<>> /\ PRsp = <<>> /\ MRsp = <<>>
  BY <1>1 DEF Control, Asked, Reading, Asking, Walking
<1>3. Qpn' = o.qpn
  BY <1>1 DEF Qpn, FsmStep
<1>4. PReq' = <<[qpn |-> o.qpn, lock |-> FALSE]>> /\ PRsp' = <<>> /\ PUpd' = PUpd
      /\ fsm'.state = "TIMER_RETRANS_0"
  BY <1>1, <1>2, Singles DEF FifoStep, FsmStep
<1>5. Asked'
  <2>1. (fsm'.state \in Locking) = FALSE /\ fsm'.state \in Asking
    BY <1>4 DEF Locking, Asking
  <2> QED
    BY <1>3, <1>4, <2>1 DEF Control, Asked
<1>6. ~LockHeld /\ ~LockHeld'
  BY <1>1, <1>4 DEF LockHeld, Locking
<1>7. Locked'
  BY <1>1, <1>4, <1>6 DEF Control, Locked
<1>8. Register'
  BY <1>4 DEF Register
<1>9. Reading'
  BY <1>1, <1>2, <1>4 DEF Control, Reading, FifoStep, Walking
<1> QED
  BY <1>5, <1>7, <1>8, <1>9 DEF Control

LEMMA MainInsertControl ==
  ASSUME Types, Control, MainInsert
  PROVE  Control'
<1> DEFINE o == Head(in["insert"])
<1>1. /\ UNCHANGED ptr /\ fsm.state = "MAIN" /\ o.qpn \in Qps
      /\ FsmStep("INSERT_0", <<o>>, free.list[1], fsm.ptr)
      /\ FifoStep(Append(PReq, [qpn |-> o.qpn, lock |-> TRUE]), PUpd, PRsp, MReq, MRsp)
  BY MainInsertEffect
<1> HIDE DEF o
<1>2. PReq = <<>> /\ PRsp = <<>> /\ MRsp = <<>>
  BY <1>1 DEF Control, Asked, Reading, Asking, Walking
<1>3. Qpn' = o.qpn
  BY <1>1 DEF Qpn, FsmStep
<1>4. PReq' = <<[qpn |-> o.qpn, lock |-> TRUE]>> /\ PRsp' = <<>> /\ PUpd' = PUpd
      /\ fsm'.state = "INSERT_0"
  BY <1>1, <1>2, Singles DEF FifoStep, FsmStep
<1>5. Asked'
  <2>1. (fsm'.state \in Locking) = TRUE /\ fsm'.state \in Asking
    BY <1>4 DEF Locking, Asking
  <2> QED
    BY <1>3, <1>4, <2>1 DEF Control, Asked
<1>6. ~LockHeld /\ ~LockHeld'
  BY <1>1, <1>4 DEF LockHeld, Locking
<1>7. Locked'
  BY <1>1, <1>4, <1>6 DEF Control, Locked
<1>8. Register'
  BY <1>4 DEF Register
<1>9. Reading'
  BY <1>1, <1>2, <1>4 DEF Control, Reading, FifoStep, Walking
<1> QED
  BY <1>5, <1>7, <1>8, <1>9 DEF Control

(* A state that waits has the answer of the pointer table. *)
LEMMA Answered1 ==
  ASSUME Types, Control, PRsp # <<>>
  PROVE  /\ fsm.state \in Asking /\ PReq = <<>> /\ PUpd = <<>> /\ PRsp = <<ptr.table[Qpn]>>
         /\ PRsp[1] = ptr.table[Qpn] /\ Tail(PRsp) = <<>> /\ MRsp = <<>>
         /\ \A i \in 1 .. Len(MReq) : MReq[i].kind # "read"
<1>1. fsm.state \in Asking /\ PReq = <<>> /\ PUpd = <<>> /\ PRsp = <<ptr.table[Qpn]>>
  BY DEF Control, Asked
<1>2. fsm.state \notin Walking
  BY <1>1 DEF Asking, Walking
<1> QED
  BY <1>1, <1>2, Singles DEF Control, Reading

(* One more request of the entry table. *)
LEMMA ReadingAppend ==
  ASSUME Types, Reading, fsm.state \notin Walking, NEW r \in MetaRequests,
         MReq' = Append(MReq, r), MRsp' = MRsp, r.kind = "read" <=> fsm'.state \in Walking
  PROVE  Reading'
<1>1. /\ Len(MReq) \in Nat /\ Len(Append(MReq, r)) = Len(MReq) + 1
      /\ \A i \in 1 .. Len(MReq) : Append(MReq, r)[i] = MReq[i]
      /\ Append(MReq, r)[Len(MReq) + 1] = r
  BY Appended DEF Types, FifoTypes
<1>4. Append(MReq, r) # <<>>
  BY <1>1, Singles
<1>2. \A i \in 1 .. Len(MReq) : MReq[i].kind # "read"
  BY DEF Reading
<1>3. \A i \in 1 .. Len(MReq) + 1 : i \in 1 .. Len(MReq) \/ i = Len(MReq) + 1
  BY <1>1
<1> QED
  BY <1>1, <1>2, <1>3, <1>4 DEF Reading

LEMMA ReadingStays ==
  ASSUME Types, Reading, fsm.state \notin Walking, fsm'.state \notin Walking,
         MReq' = MReq, MRsp' = MRsp
  PROVE  Reading'
  BY DEF Reading

LEMMA Insert0FirstControl ==
  ASSUME Types, Control, Insert0First
  PROVE  Control' /\ PUpd = <<>> /\ ptr.table[Qpn] = PRsp[1]
<1> DEFINE p == [valid |-> TRUE, head |-> fsm.idx, tail |-> fsm.idx]
           m == TailEntry(fsm.op[1].entry)
<1>1. /\ UNCHANGED ptr /\ fsm.state = "INSERT_0" /\ PRsp # <<>> /\ Qpn \in Qps
      /\ p \in PtrEntry /\ m \in MetaEntry
      /\ FsmStep("MAIN", fsm.op, fsm.idx, fsm.ptr)
      /\ FifoStep(PReq, Append(PUpd, PtrUpd(Qpn, p)), Tail(PRsp), Append(MReq, Write(fsm.idx, m)), MRsp)
  BY Insert0FirstEffect
<1> HIDE DEF p, m
<1>2. PReq = <<>> /\ PUpd = <<>> /\ Tail(PRsp) = <<>> /\ PRsp[1] = ptr.table[Qpn]
  BY <1>1, Answered1
<1>3. PUpd' = <<PtrUpd(Qpn, p)>> /\ PReq' = <<>> /\ PRsp' = <<>> /\ fsm'.state = "MAIN"
  BY <1>1, <1>2, Singles DEF FifoStep, FsmStep
<1>4. Asked'
  BY <1>3, Singles DEF Asked, Asking
<1>5. Locked'
  <2>1. LockHeld
    BY <1>1 DEF LockHeld, Locking
  <2>2. ptr'.locked = <<Qpn>> /\ ptr'.wait = <<>>
    BY <1>1, <1>2, <2>1 DEF Control, Locked
  <2>3. PUpd'[1].qpn = Qpn /\ PUpd' # <<>>
    BY <1>1, <1>3, Messages, Singles
  <2> QED
    BY <2>2, <2>3 DEF Locked
<1>6. Register'
  BY <1>3 DEF Register
<1>7. Reading'
  <2>1. fsm.idx \in Indices
    BY FsmFields
  <2>2. Write(fsm.idx, m) \in MetaRequests /\ Write(fsm.idx, m).kind = "write"
    BY <1>1, <2>1, Messages
  <2>3. MReq' = Append(MReq, Write(fsm.idx, m)) /\ MRsp' = MRsp
    BY <1>1 DEF FifoStep
  <2> QED
    BY <1>1, <1>3, <2>2, <2>3, ReadingAppend DEF Control, Walking
<1> QED
  BY <1>2, <1>4, <1>5, <1>6, <1>7 DEF Control

LEMMA Insert0AppendControl ==
  ASSUME Types, Control, Insert0Append
  PROVE  Control' /\ PUpd = <<>> /\ ptr.table[Qpn] = PRsp[1]
<1> DEFINE p == PRsp[1]
<1>1. /\ UNCHANGED ptr /\ fsm.state = "INSERT_0" /\ PRsp # <<>> /\ p.valid /\ Qpn \in Qps
      /\ p \in PtrEntry
      /\ FsmStep("INSERT_1", fsm.op, fsm.idx, [p EXCEPT !.tail = fsm.idx])
      /\ FifoStep(PReq, PUpd, Tail(PRsp), Append(MReq, Link(p.tail, fsm.idx)), MRsp)
  BY Insert0AppendEffect
<1>2. PReq = <<>> /\ PUpd = <<>> /\ Tail(PRsp) = <<>> /\ p = ptr.table[Qpn]
  BY <1>1, Answered1
<1> HIDE DEF p
<1>3. PUpd' = <<>> /\ PReq' = <<>> /\ PRsp' = <<>> /\ fsm'.state = "INSERT_1" /\ Qpn' = Qpn
      /\ fsm'.ptr = [p EXCEPT !.tail = fsm.idx] /\ fsm'.idx = fsm.idx
  BY <1>1, <1>2 DEF FifoStep, FsmStep, Qpn
<1>4. Asked'
  BY <1>3, Singles DEF Asked, Asking
<1>5. Locked'
  <2>1. LockHeld /\ LockHeld'
    BY <1>1, <1>3 DEF LockHeld, Locking
  <2>2. ptr'.locked = <<Qpn>> /\ ptr'.wait = <<>>
    BY <1>1, <1>2, <2>1 DEF Control, Locked
  <2> QED
    BY <1>3, <2>1, <2>2 DEF Locked
<1>6. Register'
  BY <1>1, <1>2, <1>3 DEF Register
<1>7. Reading'
  <2>1. fsm.idx \in Indices /\ p.tail \in Indices
    BY <1>1, FsmFields, PtrFields
  <2>2. Link(p.tail, fsm.idx) \in MetaRequests /\ Link(p.tail, fsm.idx).kind = "append"
    BY <2>1, Messages
  <2>3. MReq' = Append(MReq, Link(p.tail, fsm.idx)) /\ MRsp' = MRsp
    BY <1>1 DEF FifoStep
  <2> QED
    BY <1>1, <1>3, <2>2, <2>3, ReadingAppend DEF Control, Walking
<1> QED
  BY <1>2, <1>4, <1>5, <1>6, <1>7 DEF Control, p

LEMMA Insert1Control ==
  ASSUME Types, Control, Insert1
  PROVE  Control' /\ PUpd = <<>>
<1> DEFINE m == TailEntry(fsm.op[1].entry)
<1>1. /\ UNCHANGED ptr /\ fsm.state = "INSERT_1" /\ Qpn \in Qps /\ m \in MetaEntry
      /\ FsmStep("MAIN", fsm.op, fsm.idx, fsm.ptr)
      /\ FifoStep(PReq, Append(PUpd, PtrUpd(Qpn, fsm.ptr)), PRsp, Append(MReq, Write(fsm.idx, m)), MRsp)
  BY Insert1Effect
<1> HIDE DEF m
<1>2. PReq = <<>> /\ PUpd = <<>> /\ PRsp = <<>> /\ fsm.ptr \in PtrEntry
  BY <1>1, FsmFields DEF Control, Asked, Asking
<1>3. PUpd' = <<PtrUpd(Qpn, fsm.ptr)>> /\ PReq' = <<>> /\ PRsp' = <<>> /\ fsm'.state = "MAIN"
  BY <1>1, <1>2, Singles DEF FifoStep, FsmStep
<1>4. Asked'
  BY <1>3, Singles DEF Asked, Asking
<1>5. Locked'
  <2>1. LockHeld
    BY <1>1 DEF LockHeld
  <2>2. ptr'.locked = <<Qpn>> /\ ptr'.wait = <<>>
    BY <1>1, <1>2, <2>1 DEF Control, Locked
  <2>3. PUpd'[1].qpn = Qpn /\ PUpd' # <<>>
    BY <1>1, <1>2, <1>3, Messages, Singles
  <2> QED
    BY <2>2, <2>3 DEF Locked
<1>6. Register'
  BY <1>3 DEF Register
<1>7. Reading'
  <2>1. fsm.idx \in Indices
    BY FsmFields
  <2>2. Write(fsm.idx, m) \in MetaRequests /\ Write(fsm.idx, m).kind = "write"
    BY <1>1, <2>1, Messages
  <2>3. MReq' = Append(MReq, Write(fsm.idx, m)) /\ MRsp' = MRsp
    BY <1>1 DEF FifoStep
  <2> QED
    BY <1>1, <1>3, <2>2, <2>3, ReadingAppend DEF Control, Walking
<1> QED
  BY <1>2, <1>4, <1>5, <1>6, <1>7 DEF Control
LEMMA Update0Control ==
  ASSUME Types, Control, Update0
  PROVE  Control' /\ PUpd = <<>> /\ ptr.table[Qpn] = PRsp[1] /\ MRsp = <<>>
<1> DEFINE p == PRsp[1]
<1>1. /\ UNCHANGED ptr /\ fsm.state = "UPDATE_0" /\ PRsp # <<>> /\ Qpn \in Qps /\ p \in PtrEntry
      /\ FsmStep(IF p.valid THEN "UPDATE_1" ELSE "MAIN", fsm.op,
                 IF p.valid THEN p.head ELSE fsm.idx, p)
      /\ FifoStep(PReq, IF p.valid THEN PUpd ELSE Append(PUpd, PtrUpd(Qpn, p)), Tail(PRsp),
                  IF p.valid THEN Append(MReq, Read(p.head)) ELSE MReq, MRsp)
  BY Update0Effect
<1>2. PReq = <<>> /\ PUpd = <<>> /\ Tail(PRsp) = <<>> /\ p = ptr.table[Qpn] /\ MRsp = <<>>
  BY <1>1, Answered1
<1> HIDE DEF p
<1>3. LockHeld /\ ptr.locked = <<Qpn>> /\ ptr.wait = <<>>
  BY <1>1, <1>2 DEF LockHeld, Locking, Control, Locked
<1>4. CASE p.valid
  <2>1. /\ fsm'.state = "UPDATE_1" /\ Qpn' = Qpn /\ fsm'.ptr = p /\ fsm'.idx = p.head
        /\ PReq' = <<>> /\ PRsp' = <<>> /\ PUpd' = <<>>
        /\ MReq' = Append(MReq, Read(p.head)) /\ MRsp' = MRsp
    BY <1>1, <1>2, <1>4 DEF FsmStep, FifoStep, Qpn
  <2>2. Asked'
    BY <2>1, Singles DEF Asked, Asking
  <2>3. Locked'
    BY <1>1, <1>3, <2>1 DEF Locked, LockHeld
  <2>4. Register'
    BY <1>1, <1>2, <1>4, <2>1 DEF Register
  <2>5. Reading'
    <3>1. Read(p.head) \in MetaRequests /\ Read(p.head).kind = "read"
      BY <1>1, PtrFields, Messages
    <3> QED
      BY <1>1, <2>1, <3>1, ReadingAppend DEF Control, Walking
  <2> QED
    BY <1>2, <2>2, <2>3, <2>4, <2>5 DEF Control, p
<1>5. CASE ~p.valid
  <2>1. /\ fsm'.state = "MAIN" /\ PReq' = <<>> /\ PRsp' = <<>> /\ PUpd' = <<PtrUpd(Qpn, p)>>
        /\ MReq' = MReq /\ MRsp' = MRsp
    BY <1>1, <1>2, <1>5, Singles DEF FsmStep, FifoStep
  <2>2. Asked'
    BY <2>1, Singles DEF Asked, Asking
  <2>3. Locked'
    <3>1. PUpd'[1].qpn = Qpn /\ PUpd' # <<>>
      BY <1>1, <2>1, Messages, Singles
    <3> QED
      BY <1>1, <1>3, <3>1 DEF Locked
  <2>4. Register'
    BY <2>1 DEF Register
  <2>5. Reading'
    BY <1>1, <2>1, ReadingStays DEF Control, Walking
  <2> QED
    BY <1>2, <2>2, <2>3, <2>4, <2>5 DEF Control, p
<1> QED
  BY <1>1, <1>4, <1>5, PtrFields

(* A state that waits has the answer of the entry table. *)
LEMMA Answered2 ==
  ASSUME Types, Control, MRsp # <<>>
  PROVE  /\ fsm.state \in Walking /\ Len(MRsp) = 1 /\ MReq = <<>> /\ Tail(MRsp) = <<>>
         /\ PReq = <<>> /\ PRsp = <<>> /\ PUpd = <<>>
<1>1. fsm.state \in Walking /\ Len(MRsp) = 1 /\ MReq = <<>>
  BY DEF Control, Reading
<1>2. Tail(MRsp) = <<>>
  <2>1. Len(MRsp) <= 1
    BY <1>1
  <2> QED
    BY <2>1, AtMostOne DEF Types, FifoTypes
<1> QED
  BY <1>1, <1>2 DEF Control, Asked, Asking, Walking

LEMMA Update1KeepControl ==
  ASSUME Types, Control, Update1Keep
  PROVE  Control' /\ PUpd = <<>> /\ MReq = <<>>
<1> DEFINE m == MRsp[1]
           p == fsm.ptr
<1>1. /\ UNCHANGED ptr /\ fsm.state = "UPDATE_1" /\ MRsp # <<>> /\ m \in MetaEntry /\ m.valid
      /\ Qpn \in Qps /\ p \in PtrEntry
      /\ FsmStep("MAIN", fsm.op, fsm.idx, fsm.ptr)
      /\ FifoStep(PReq, Append(PUpd, PtrUpd(Qpn, p)), PRsp,
                  Append(MReq, Write(fsm.ptr.head, [m EXCEPT !.e = Advanced(@)])), Tail(MRsp))
  BY Update1KeepEffect
<1> HIDE DEF p, m
<1>2. PReq = <<>> /\ PUpd = <<>> /\ PRsp = <<>> /\ MReq = <<>> /\ Tail(MRsp) = <<>>
  BY <1>1, Answered2
<1>3. PUpd' = <<PtrUpd(Qpn, p)>> /\ PReq' = <<>> /\ PRsp' = <<>> /\ fsm'.state = "MAIN" /\ MRsp' = <<>>
  BY <1>1, <1>2, Singles DEF FifoStep, FsmStep
<1>4. Asked'
  BY <1>3, Singles DEF Asked, Asking
<1>5. Locked'
  <2>1. LockHeld
    BY <1>1 DEF LockHeld
  <2>2. ptr'.locked = <<Qpn>> /\ ptr'.wait = <<>>
    BY <1>1, <1>2, <2>1 DEF Control, Locked
  <2>3. PUpd'[1].qpn = Qpn /\ PUpd' # <<>>
    BY <1>1, <1>3, Messages, Singles
  <2> QED
    BY <2>2, <2>3 DEF Locked
<1>6. Register'
  BY <1>3 DEF Register
<1>7. Reading'
  <2> DEFINE n == [m EXCEPT !.e = Advanced(@)]
             r == Write(fsm.ptr.head, n)
  <2>1. n \in MetaEntry /\ fsm.ptr.head \in Indices
    BY <1>1, AdvancedType, FsmFields, PtrFields
  <2>2. MReq' = <<r>>
    BY <1>1, <1>2, Singles DEF FifoStep
  <2> HIDE DEF n
  <2>3. r.kind = "write"
    BY <2>1, Messages
  <2> HIDE DEF r
  <2>4. \A i \in 1 .. Len(<<r>>) : <<r>>[i].kind # "read"
    BY <2>3
  <2> QED
    BY <1>3, <2>2, <2>4 DEF Reading, Walking
<1> QED
  BY <1>2, <1>4, <1>5, <1>6, <1>7 DEF Control

LEMMA Update1ReleaseControl ==
  ASSUME Types, Control, Update1Release
  PROVE  Control' /\ PUpd = <<>> /\ MReq = <<>>
<1> DEFINE m == MRsp[1]
           p == [fsm.ptr EXCEPT !.head = m.next, !.valid = ~m.isTail]
<1>1. /\ UNCHANGED ptr /\ fsm.state = "UPDATE_1" /\ MRsp # <<>> /\ m \in MetaEntry /\ m.valid
      /\ Qpn \in Qps /\ p \in PtrEntry
      /\ FsmStep("MAIN", fsm.op, fsm.idx, fsm.ptr)
      /\ FifoStep(PReq, Append(PUpd, PtrUpd(Qpn, p)), PRsp,
                  MReq, Tail(MRsp))
  BY Update1ReleaseEffect
<1> HIDE DEF p, m
<1>2. PReq = <<>> /\ PUpd = <<>> /\ PRsp = <<>> /\ MReq = <<>> /\ Tail(MRsp) = <<>>
  BY <1>1, Answered2
<1>3. PUpd' = <<PtrUpd(Qpn, p)>> /\ PReq' = <<>> /\ PRsp' = <<>> /\ fsm'.state = "MAIN" /\ MRsp' = <<>>
  BY <1>1, <1>2, Singles DEF FifoStep, FsmStep
<1>4. Asked'
  BY <1>3, Singles DEF Asked, Asking
<1>5. Locked'
  <2>1. LockHeld
    BY <1>1 DEF LockHeld
  <2>2. ptr'.locked = <<Qpn>> /\ ptr'.wait = <<>>
    BY <1>1, <1>2, <2>1 DEF Control, Locked
  <2>3. PUpd'[1].qpn = Qpn /\ PUpd' # <<>>
    BY <1>1, <1>3, Messages, Singles
  <2> QED
    BY <2>2, <2>3 DEF Locked
<1>6. Register'
  BY <1>3 DEF Register
<1>7. Reading'
  <2>1. MReq' = <<>>
    BY <1>1, <1>2 DEF FifoStep
  <2>2. \A i \in 1 .. Len(<<>>) : FALSE
    OBVIOUS
  <2> QED
    BY <1>3, <2>1, <2>2 DEF Reading, Walking
<1> QED
  BY <1>2, <1>4, <1>5, <1>6, <1>7 DEF Control

LEMMA StartRetransControl ==
  ASSUME Types, Control, NEW state, NEW next, StartRetrans(state, next),
         <<state, next>> \in {<<"RETRANS_0", "RETRANS_1">>, <<"TIMER_RETRANS_0", "RETRANS_2">>}
  PROVE  Control' /\ PUpd = <<>> /\ ptr.table[Qpn] = PRsp[1] /\ MRsp = <<>>
<1> DEFINE p == PRsp[1]
<1>1. /\ UNCHANGED ptr /\ fsm.state = state /\ PRsp # <<>> /\ Qpn \in Qps /\ p \in PtrEntry
      /\ FsmStep(IF p.valid THEN next ELSE "MAIN", fsm.op, fsm.idx, fsm.ptr)
      /\ FifoStep(PReq, PUpd, Tail(PRsp), IF p.valid THEN Append(MReq, Read(p.head)) ELSE MReq, MRsp)
  BY StartRetransEffect
<1>0. state \in {"RETRANS_0", "TIMER_RETRANS_0"} /\ next \in {"RETRANS_1", "RETRANS_2"}
  OBVIOUS
<1>2. PReq = <<>> /\ PUpd = <<>> /\ Tail(PRsp) = <<>> /\ p = ptr.table[Qpn] /\ MRsp = <<>>
  BY <1>1, Answered1
<1> HIDE DEF p
<1>3. ~LockHeld /\ ptr.locked = <<>> /\ ptr.wait = <<>>
  BY <1>0, <1>1, <1>2 DEF LockHeld, Locking, Control, Locked
<1>4. /\ fsm'.state \in {"MAIN", "RETRANS_1", "RETRANS_2"}
      /\ PReq' = <<>> /\ PRsp' = <<>> /\ PUpd' = <<>> /\ MRsp' = MRsp
  BY <1>0, <1>1, <1>2 DEF FsmStep, FifoStep
<1>5. Asked'
  BY <1>4, Singles DEF Asked, Asking
<1>6. ~LockHeld'
  BY <1>4 DEF LockHeld, Locking
<1>7. Locked'
  BY <1>1, <1>3, <1>4, <1>6 DEF Locked
<1>8. Register'
  BY <1>4 DEF Register
<1>9. CASE p.valid
  <2>1. fsm'.state = next /\ MReq' = Append(MReq, Read(p.head))
    BY <1>1, <1>9 DEF FsmStep, FifoStep
  <2>2. Read(p.head) \in MetaRequests /\ Read(p.head).kind = "read"
    BY <1>1, PtrFields, Messages
  <2>3. fsm.state \notin Walking /\ fsm'.state \in Walking
    BY <1>0, <1>1, <2>1 DEF Walking
  <2>4. Reading'
    BY <1>4, <2>1, <2>2, <2>3, ReadingAppend DEF Control
  <2> QED
    BY <1>2, <1>5, <1>7, <1>8, <2>4 DEF Control, p
<1>10. CASE ~p.valid
  <2>1. fsm'.state = "MAIN" /\ MReq' = MReq
    BY <1>1, <1>10 DEF FsmStep, FifoStep
  <2>2. Reading'
    BY <1>0, <1>1, <1>4, <2>1, ReadingStays DEF Control, Walking
  <2> QED
    BY <1>2, <1>5, <1>7, <1>8, <2>2 DEF Control, p
<1> QED
  BY <1>1, <1>9, <1>10, PtrFields

LEMMA Retrans1Control ==
  ASSUME Types, Control, Retrans1
  PROVE  Control' /\ PUpd = <<>> /\ MReq = <<>>
<1> DEFINE m == MRsp[1]
<1>1. /\ UNCHANGED ptr /\ fsm.state = "RETRANS_1" /\ MRsp # <<>> /\ m \in MetaEntry /\ Qpn \in Qps
      /\ FsmStep(IF ~(m.e.psn = fsm.op[1].psn) THEN "RETRANS_1" ELSE IF m.isTail THEN "MAIN" ELSE "RETRANS_2", fsm.op, fsm.idx, fsm.ptr)
      /\ FifoStep(PReq, PUpd, PRsp, IF m.isTail THEN MReq ELSE Append(MReq, Read(m.next)), Tail(MRsp))
  BY Retrans1Effect
<1> HIDE DEF m
<1>2. PReq = <<>> /\ PUpd = <<>> /\ PRsp = <<>> /\ MReq = <<>> /\ Tail(MRsp) = <<>>
  BY <1>1, Answered2
<1>3. PUpd' = <<>> /\ PReq' = <<>> /\ PRsp' = <<>> /\ MRsp' = <<>>
      /\ fsm'.state \in {"MAIN", "RETRANS_1", "RETRANS_2"}
      /\ (fsm'.state = "MAIN" => m.isTail) /\ (m.isTail => fsm'.state \in {"MAIN", "RETRANS_1"})
  BY <1>1, <1>2, MetaFields DEF FifoStep, FsmStep
<1>4. Asked'
  BY <1>3, Singles DEF Asked, Asking
<1>5. ~LockHeld /\ ~LockHeld'
  BY <1>1, <1>3 DEF LockHeld, Locking
<1>6. Locked'
  BY <1>1, <1>2, <1>3, <1>5 DEF Control, Locked
<1>7. Register'
  BY <1>3 DEF Register
<1>8. Reading'
  <2>1. CASE m.isTail
    <3>1. MReq' = <<>>
      BY <1>1, <1>2, <2>1 DEF FifoStep
    <3>2. \A i \in 1 .. Len(<<>>) : FALSE
      OBVIOUS
    <3> QED
      BY <1>3, <2>1, <3>1, <3>2 DEF Reading, Walking
  <2>2. CASE ~m.isTail
    <3> DEFINE r == Read(m.next)
    <3>1. MReq' = <<r>> /\ fsm'.state \in Walking
      BY <1>1, <1>2, <1>3, <2>2, Singles DEF FifoStep, Walking
    <3>2. r.kind = "read"
      BY <1>1, MetaFields, Messages
    <3> HIDE DEF r
    <3>3. <<r>> # <<>> /\ <<r>>[Len(<<r>>)] = r /\ \A i \in 1 .. Len(<<r>>) : i = Len(<<r>>)
      OBVIOUS
    <3> QED
      BY <1>3, <3>1, <3>2, <3>3 DEF Reading
  <2> QED
    BY <1>1, <2>1, <2>2, MetaFields
<1> QED
  BY <1>2, <1>4, <1>6, <1>7, <1>8 DEF Control

LEMMA Retrans2Control ==
  ASSUME Types, Control, Retrans2
  PROVE  Control' /\ PUpd = <<>> /\ MReq = <<>>
<1> DEFINE m == MRsp[1]
<1>1. /\ UNCHANGED ptr /\ fsm.state = "RETRANS_2" /\ MRsp # <<>> /\ m \in MetaEntry /\ Qpn \in Qps
      /\ FsmStep(IF m.isTail THEN "MAIN" ELSE "RETRANS_2", fsm.op, fsm.idx, fsm.ptr)
      /\ FifoStep(PReq, PUpd, PRsp, IF m.isTail THEN MReq ELSE Append(MReq, Read(m.next)), Tail(MRsp))
  BY Retrans2Effect
<1> HIDE DEF m
<1>2. PReq = <<>> /\ PUpd = <<>> /\ PRsp = <<>> /\ MReq = <<>> /\ Tail(MRsp) = <<>>
  BY <1>1, Answered2
<1>3. PUpd' = <<>> /\ PReq' = <<>> /\ PRsp' = <<>> /\ MRsp' = <<>>
      /\ fsm'.state \in {"MAIN", "RETRANS_1", "RETRANS_2"}
      /\ (fsm'.state = "MAIN" => m.isTail) /\ (m.isTail => fsm'.state \in {"MAIN", "RETRANS_1"})
  BY <1>1, <1>2, MetaFields DEF FifoStep, FsmStep
<1>4. Asked'
  BY <1>3, Singles DEF Asked, Asking
<1>5. ~LockHeld /\ ~LockHeld'
  BY <1>1, <1>3 DEF LockHeld, Locking
<1>6. Locked'
  BY <1>1, <1>2, <1>3, <1>5 DEF Control, Locked
<1>7. Register'
  BY <1>3 DEF Register
<1>8. Reading'
  <2>1. CASE m.isTail
    <3>1. MReq' = <<>>
      BY <1>1, <1>2, <2>1 DEF FifoStep
    <3>2. \A i \in 1 .. Len(<<>>) : FALSE
      OBVIOUS
    <3> QED
      BY <1>3, <2>1, <3>1, <3>2 DEF Reading, Walking
  <2>2. CASE ~m.isTail
    <3> DEFINE r == Read(m.next)
    <3>1. MReq' = <<r>> /\ fsm'.state \in Walking
      BY <1>1, <1>2, <1>3, <2>2, Singles DEF FifoStep, Walking
    <3>2. r.kind = "read"
      BY <1>1, MetaFields, Messages
    <3> HIDE DEF r
    <3>3. <<r>> # <<>> /\ <<r>>[Len(<<r>>)] = r /\ \A i \in 1 .. Len(<<r>>) : i = Len(<<r>>)
      OBVIOUS
    <3> QED
      BY <1>3, <3>1, <3>2, <3>3 DEF Reading
  <2> QED
    BY <1>1, <2>1, <2>2, MetaFields
<1> QED
  BY <1>2, <1>4, <1>6, <1>7, <1>8 DEF Control
-----------------------------------------------------------------------------
(* The lists and the places of the indices *)

(* The pointer of a queue pair, and that it is one. *)
PtrOfFacts ==
  Types /\ Len(PUpd) <= 1 =>
    \A q \in Qps :
       /\ PtrOf(q) = IF PUpd # <<>> /\ PUpd[1].qpn = q THEN PUpd[1].entry ELSE ptr.table[q]
       /\ PtrOf(q) \in PtrEntry
LEMMA PtrOfIs == PtrOfFacts
<1> SUFFICES ASSUME Types, Len(PUpd) <= 1, NEW q \in Qps
             PROVE  /\ PtrOf(q) = IF PUpd # <<>> /\ PUpd[1].qpn = q THEN PUpd[1].entry
                                  ELSE ptr.table[q]
                    /\ PtrOf(q) \in PtrEntry
  BY DEF PtrOfFacts
<1> DEFINE upd == {i \in DOMAIN PUpd : PUpd[i].qpn = q}
<1>1. PtrOf(q) = IF upd = {} THEN ptr.table[q] ELSE PUpd[Max(upd)].entry
  BY DEF PtrOf, PUpd
<1>2. ptr.table[q] \in PtrEntry /\ PUpd \in Seq(PtrUpdates) /\ Len(PUpd) \in Nat
  BY DEF Types, PtrTypes, FifoTypes
<1>3. CASE PUpd = <<>>
  <2>1. upd = {}
    BY <1>3
  <2> QED
    BY <1>1, <1>2, <1>3, <2>1
<1>4. CASE PUpd # <<>>
  <2>1. Len(PUpd) = 1
    BY <1>2, <1>4, AtMostOne
  <2>2. DOMAIN PUpd = {1} /\ PUpd[1] \in PtrUpdates
    BY <1>2, <2>1
  <2>3. PUpd[1].entry \in PtrEntry
    BY <2>2 DEF PtrUpdates
  <2>4. CASE PUpd[1].qpn = q
    <3>1. upd = {1}
      BY <2>2, <2>4
    <3>2. Max({1}) = 1
      BY DEF Max
    <3> QED
      BY <1>1, <1>4, <2>3, <2>4, <3>1, <3>2
  <2>5. CASE PUpd[1].qpn # q
    <3>1. upd = {}
      BY <2>2, <2>5
    <3> QED
      BY <1>1, <1>2, <2>5, <3>1
  <2> QED
    BY <2>4, <2>5
<1> QED
  BY <1>3, <1>4

LEMMA PtrOfNext == PtrOfFacts'
  BY PtrOfIs, PTL

NowFacts == Types => MetaNow \in Table /\ (MReq = <<>> => MetaNow = meta)
LEMMA NowType == NowFacts
  BY AllAppliedType DEF NowFacts, Types, FifoTypes, MetaTypes, MetaNow, MReq

LEMMA NowTypeNext == NowFacts'
  BY NowType, PTL

LEMMA NowAppend ==
  ASSUME Types, meta' = meta, NEW r \in MetaRequests, MReq' = Append(MReq, r)
  PROVE  MetaNow' = Applied(MetaNow, r)
<1>1. MetaNow' = AllApplied(meta, Append(MReq, r)) /\ MetaNow = AllApplied(meta, MReq)
  BY DEF MetaNow, MReq
<1> QED
  BY <1>1, AllAppliedAppend DEF Types, FifoTypes, MetaTypes

LEMMA NowSame ==
  ASSUME meta' = meta, MReq' = MReq
  PROVE  MetaNow' = MetaNow
  BY DEF MetaNow, MReq

LEMMA NowRead ==
  ASSUME Types, meta' = meta, NEW i \in Indices, MReq' = Append(MReq, Read(i))
  PROVE  MetaNow' = MetaNow
<1>1. Read(i) \in MetaRequests /\ Read(i).kind = "read"
  BY Messages
<1>2. MetaNow' = Applied(MetaNow, Read(i))
  BY <1>1, NowAppend
<1> QED
  BY <1>1, <1>2 DEF Applied

FreeTag == <<"free", 0>>
ReleaseTag == <<"release", 0>>
HandTag == <<"hand", 0>>
UnusedTag == <<"unused", 0>>
ListTag(q) == <<"list", q>>
Hand == IF fsm.state \in {"INSERT_0", "INSERT_1"} THEN <<fsm.idx>> ELSE <<>>
Unused == [k \in 1 .. TableSize - free.counter |-> free.counter + k - 1]

LEMMA TagFacts ==
  /\ {FreeTag, ReleaseTag, HandTag, UnusedTag} \subseteq Tags
  /\ \A q \in Qps : ListTag(q) \in Tags
  /\ \A x \in Tags : x \in {FreeTag, ReleaseTag, HandTag, UnusedTag} \/ \E q \in Qps : x = ListTag(q)
  /\ \A q : ListTag(q) \notin {FreeTag, ReleaseTag, HandTag, UnusedTag}
  /\ \A q, r : ListTag(q) = ListTag(r) => q = r
  /\ FreeTag # ReleaseTag /\ FreeTag # HandTag /\ FreeTag # UnusedTag
  /\ ReleaseTag # HandTag /\ ReleaseTag # UnusedTag /\ HandTag # UnusedTag
<1>1. \A q : ListTag(q)[1] = "list" /\ ListTag(q)[2] = q
  BY DEF ListTag
<1>2. FreeTag[1] = "free" /\ ReleaseTag[1] = "release" /\ HandTag[1] = "hand" /\ UnusedTag[1] = "unused"
  BY DEF FreeTag, ReleaseTag, HandTag, UnusedTag
<1>3. /\ FreeTag # ReleaseTag /\ FreeTag # HandTag /\ FreeTag # UnusedTag
      /\ ReleaseTag # HandTag /\ ReleaseTag # UnusedTag /\ HandTag # UnusedTag
  BY <1>2
<1>4. \A q : ListTag(q) \notin {FreeTag, ReleaseTag, HandTag, UnusedTag}
  BY <1>1, <1>2
<1>5. \A q, r : ListTag(q) = ListTag(r) => q = r
  BY <1>1
<1>6. {FreeTag, ReleaseTag, HandTag, UnusedTag} \subseteq Tags
  BY DEF Tags, FreeTag, ReleaseTag, HandTag, UnusedTag
<1>7. \A q \in Qps : ListTag(q) \in Tags
  BY DEF Tags, ListTag
<1>8. ASSUME NEW x \in Tags
      PROVE  x \in {FreeTag, ReleaseTag, HandTag, UnusedTag} \/ \E q \in Qps : x = ListTag(q)
  <2>1. x \in {"list"} \X Qps \/ x \in {FreeTag, ReleaseTag, HandTag, UnusedTag}
    BY DEF Tags, FreeTag, ReleaseTag, HandTag, UnusedTag
  <2>2. x \in {"list"} \X Qps => x[2] \in Qps /\ x = ListTag(x[2])
    BY DEF ListTag
  <2> QED
    BY <2>1, <2>2
<1> QED
  BY <1>3, <1>4, <1>5, <1>6, <1>7, <1>8

PlacesFacts ==
  /\ DOMAIN Places = Tags /\ Places = [x \in Tags |-> Places[x]]
  /\ Places[FreeTag] = free.list /\ Places[ReleaseTag] = free.release
  /\ Places[HandTag] = Hand /\ Places[UnusedTag] = Unused
  /\ \A q \in Qps : Places[ListTag(q)] = Chain(q)
LEMMA PlacesAre == PlacesFacts
<1>1. \A q : ListTag(q)[1] = "list" /\ ListTag(q)[2] = q
  BY DEF ListTag
<1>2. FreeTag[1] = "free" /\ ReleaseTag[1] = "release" /\ HandTag[1] = "hand" /\ UnusedTag[1] = "unused"
  BY DEF FreeTag, ReleaseTag, HandTag, UnusedTag
<1>3. DOMAIN Places = Tags /\ Places = [x \in Tags |-> Places[x]]
  <2> DEFINE Seqs(x) ==
        CASE x[1] = "list" -> Chain(x[2])
          [] x[1] = "free" -> free.list
          [] x[1] = "release" -> free.release
          [] x[1] = "hand" -> IF fsm.state \in {"INSERT_0", "INSERT_1"} THEN <<fsm.idx>> ELSE <<>>
          [] x[1] = "unused" -> [k \in 1 .. TableSize - free.counter |-> free.counter + k - 1]
  <2>1. Places = [x \in Tags |-> Seqs(x)]
    BY DEF Places
  <2> HIDE DEF Seqs
  <2> QED
    BY <2>1
<1>4. Places[FreeTag] = free.list
  BY <1>2, TagFacts DEF Places
<1>5. Places[ReleaseTag] = free.release
  BY <1>2, TagFacts DEF Places
<1>6. Places[HandTag] = Hand
  BY <1>2, TagFacts DEF Places, Hand
<1>7. Places[UnusedTag] = Unused
  BY <1>2, TagFacts DEF Places, Unused
<1>8. \A q \in Qps : Places[ListTag(q)] = Chain(q)
  BY <1>1, TagFacts DEF Places
<1> QED
  BY <1>3, <1>4, <1>5, <1>6, <1>7, <1>8 DEF PlacesFacts

LEMMA PlacesAreNext == PlacesFacts'
  BY PlacesAre, PTL

UnusedFacts ==
  Types => /\ Unused \in Seq(Indices) /\ Len(Unused) = TableSize - free.counter
           /\ \A k \in 1 .. TableSize - free.counter : Unused[k] = free.counter + k - 1
LEMMA UnusedIs == UnusedFacts
<1> SUFFICES ASSUME Types
             PROVE  /\ Unused \in Seq(Indices) /\ Len(Unused) = TableSize - free.counter
                    /\ \A k \in 1 .. TableSize - free.counter : Unused[k] = free.counter + k - 1
  BY DEF UnusedFacts
<1>1. TableSize \in Nat /\ free.counter \in 0 .. TableSize
  BY RetransAssumption DEF Types, FreeTypes
<1>2. \A k \in 1 .. TableSize - free.counter : free.counter + k - 1 \in Indices
  BY <1>1 DEF Indices
<1>3. Unused \in [1 .. TableSize - free.counter -> Indices]
  BY <1>2 DEF Unused
<1>4. TableSize - free.counter \in Nat
  BY <1>1
<1> QED
  BY <1>3, <1>4, FunctionIsSeq DEF Unused

LEMMA UnusedNext == UnusedFacts'
  BY UnusedIs, PTL

ListsTyped == Types /\ \A q \in Qps : Chain(q) \in Seq(Indices)
PlacesTyped == ListsTyped => Places \in [Tags -> Seq(Indices)]
LEMMA PlacesType == PlacesTyped
<1> SUFFICES ASSUME Types, \A q \in Qps : Chain(q) \in Seq(Indices)
             PROVE  Places \in [Tags -> Seq(Indices)]
  BY DEF PlacesTyped, ListsTyped
<1>1. free.list \in Seq(Indices) /\ free.release \in Seq(Indices)
  BY DEF Types, FreeTypes
<1>2. Hand \in Seq(Indices)
  BY FsmFields DEF Hand
<1>3. ASSUME NEW x \in Tags PROVE Places[x] \in Seq(Indices)
  <2>1. Unused \in Seq(Indices)
    BY UnusedIs DEF UnusedFacts
  <2>2. CASE x \in {FreeTag, ReleaseTag, HandTag, UnusedTag}
    BY <1>1, <1>2, <2>1, <2>2, PlacesAre DEF PlacesFacts
  <2>3. ASSUME NEW q \in Qps, x = ListTag(q) PROVE Places[x] \in Seq(Indices)
    BY <2>3, PlacesAre DEF PlacesFacts
  <2> QED
    BY <2>2, <2>3, TagFacts
<1> QED
  BY <1>3, PlacesAre DEF PlacesFacts

LEMMA PlacesTypeNext == PlacesTyped'
  BY PlacesType, PTL

(* Places are the same when their parts are. *)
LEMMA PlacesSame ==
  ASSUME \A q \in Qps : Chain(q)' = Chain(q), Hand' = Hand, free' = free
  PROVE  Places' = Places
<1>1. Unused' = Unused
  BY DEF Unused
<1>2. /\ Places'[FreeTag] = Places[FreeTag] /\ Places'[ReleaseTag] = Places[ReleaseTag]
      /\ Places'[HandTag] = Places[HandTag] /\ Places'[UnusedTag] = Places[UnusedTag]
      /\ \A q \in Qps : Places'[ListTag(q)] = Places[ListTag(q)]
      /\ DOMAIN Places' = Tags /\ Places' = [x \in Tags |-> Places'[x]]
  BY <1>1, PlacesAre, PlacesAreNext DEF PlacesFacts
<1>3. \A x \in Tags : Places'[x] = Places[x]
  BY <1>2, TagFacts
<1> QED
  BY <1>2, <1>3, PlacesAre DEF PlacesFacts
(* An index is in one list, or in the hands of an insertion. *)
Apart ==
  /\ \A q \in Qps : Injective(Chain(q))
  /\ \A q, r \in Qps : \A j \in 1 .. Len(Chain(q)), k \in 1 .. Len(Chain(r)) :
        Chain(q)[j] = Chain(r)[k] => q = r /\ j = k
  /\ fsm.state \in {"INSERT_0", "INSERT_1"} =>
        \A q \in Qps : \A k \in 1 .. Len(Chain(q)) : Chain(q)[k] # fsm.idx
ApartFacts == Ledger(Places) => Apart
LEMMA ListsApart == ApartFacts
<1> SUFFICES ASSUME Ledger(Places) PROVE Apart
  BY DEF ApartFacts
<1>1. \A q \in Qps : ListTag(q) \in Tags /\ Places[ListTag(q)] = Chain(q)
  BY TagFacts, PlacesAre DEF PlacesFacts
<1>2. HandTag \in Tags /\ Places[HandTag] = Hand
  BY TagFacts, PlacesAre DEF PlacesFacts
<1>3. ASSUME NEW q \in Qps, NEW r \in Qps, NEW j \in 1 .. Len(Chain(q)), NEW k \in 1 .. Len(Chain(r)),
             Chain(q)[j] = Chain(r)[k]
      PROVE  q = r /\ j = k
  <2>1. ListTag(q) = ListTag(r) /\ j = k
    BY <1>1, <1>3 DEF Ledger
  <2> QED
    BY <2>1, TagFacts
<1>4. \A q \in Qps : Injective(Chain(q))
  BY <1>3 DEF Injective
<1>5. ASSUME fsm.state \in {"INSERT_0", "INSERT_1"}, NEW q \in Qps, NEW k \in 1 .. Len(Chain(q)),
             Chain(q)[k] = fsm.idx
      PROVE  FALSE
  <2>1. Places[HandTag] = <<fsm.idx>>
    BY <1>2, <1>5 DEF Hand
  <2>2. 1 \in 1 .. Len(<<fsm.idx>>) /\ <<fsm.idx>>[1] = fsm.idx
    OBVIOUS
  <2>3. HandTag = ListTag(q)
    BY <1>1, <1>2, <1>5, <2>1, <2>2 DEF Ledger
  <2> QED
    BY <2>3, TagFacts
<1> QED
  BY <1>3, <1>4, <1>5 DEF Apart

LEMMA ChainsSame ==
  ASSUME \A q \in Qps : PtrOf(q)' = PtrOf(q), MetaNow' = MetaNow
  PROVE  \A q \in Qps : Chain(q)' = Chain(q)
  BY DEF Chain

(* A step that changes no list and no place. *)
LEMMA QuietStep ==
  ASSUME Lists, Ledger(Places), \A q \in Qps : PtrOf(q)' = PtrOf(q), MetaNow' = MetaNow,
         fsm' = fsm \/ (fsm.state # "INSERT_1" /\ fsm'.state # "INSERT_1"),
         Hand' = Hand, free' = free
  PROVE  Lists' /\ Ledger(Places)' /\ \A q \in Qps : Chain(q)' = Chain(q)
<1>1. \A q \in Qps : Chain(q)' = Chain(q)
  BY ChainsSame
<1>2. Places' = Places
  BY <1>1, PlacesSame
<1>3. Ledger(Places)'
  BY <1>2 DEF Ledger
<1>4. \A q \in Qps : Growing(q)' = Growing(q) /\ (Growing(q) => fsm'.idx = fsm.idx)
  BY DEF Growing, Qpn
<1>5. \A q \in Qps : EndsWell(q, MetaNow, Chain(q))' = EndsWell(q, MetaNow, Chain(q))
  BY <1>1, <1>4 DEF EndsWell
<1>6. \A q \in Qps : IsList(PtrOf(q), MetaNow, Chain(q))'
  BY <1>1 DEF IsList, Lists
<1>7. Lists'
  BY <1>5, <1>6 DEF Lists
<1> QED
  BY <1>1, <1>3, <1>7

LEMMA PtrsSame ==
  ASSUME PUpd' = PUpd, ptr'.table = ptr.table
  PROVE  \A q \in Qps : PtrOf(q)' = PtrOf(q)
  BY DEF PtrOf, PUpd

ListInv == Lists /\ Ledger(Places) /\ InList

LEMMA OneUpd == Control => Len(PUpd) <= 1
  BY DEF Control, Asked
LEMMA OneUpdNext == Control' => Len(PUpd') <= 1
  BY DEF Control, Asked

LEMMA InListFrame ==
  ASSUME InList, \A q \in Qps : Chain(q)' = Chain(q), MetaNow' = MetaNow, fsm' = fsm,
         MReq' = MReq, MRsp' = MRsp, Types
  PROVE  InList'
<1>1. Qpn' = Qpn /\ (fsm.state \in Walking => Qpn \in Qps)
  BY StateOp DEF Qpn, Walking
<1>2. fsm.state \in Walking => \A k \in 1 .. Len(Chain(Qpn)) : WalkAt(k)' <=> WalkAt(k)
  BY <1>1 DEF WalkAt
<1> QED
  BY <1>1, <1>2 DEF InList

LEMMA InListIdle == fsm'.state \notin Walking => InList'
  BY DEF InList

(* The lists and their entries are as before. *)
Stay == MetaNow' = MetaNow /\ \A q \in Qps : Chain(q)' = Chain(q)

LEMMA ArriveLists ==
  ASSUME Types, Control, ListInv, Arrive
  PROVE  ListInv' /\ Stay
<1>1. UNCHANGED <<fsm, ptr, meta, free, fifo, events, init>>
  BY ArriveEffect
<1>2. \A q \in Qps : PtrOf(q)' = PtrOf(q)
  BY <1>1, PtrsSame DEF PUpd
<1>3. MetaNow' = MetaNow /\ Hand' = Hand /\ MReq' = MReq /\ MRsp' = MRsp
  BY <1>1, NowSame DEF MReq, MRsp, Hand
<1> QED
  BY <1>1, <1>2, <1>3, QuietStep, InListFrame DEF ListInv, Stay

LEMMA PtrUpdateLists ==
  ASSUME Types, Control, ListInv, PtrUpdate
  PROVE  ListInv' /\ Stay
<1> DEFINE u == PUpd[1]
<1>1. /\ UNCHANGED <<script, in, fsm, meta, free, events, init>> /\ Types' /\ Control'
      /\ PUpd # <<>> /\ u \in PtrUpdates
      /\ FifoStep(PReq, Tail(PUpd), PRsp, MReq, MRsp)
      /\ ptr'.table = [ptr.table EXCEPT ![u.qpn] = u.entry]
  BY PtrUpdateEffect, PtrUpdateControl
<1>2. PUpd' = <<>> /\ Len(PUpd) <= 1 /\ Len(PUpd') <= 1
  <2>1. Tail(PUpd) = <<>>
    BY <1>1, AtMostOne, OneUpd DEF Types, FifoTypes
  <2> QED
    BY <1>1, <2>1, OneUpd, OneUpdNext DEF FifoStep
<1>3. \A q \in Qps : PtrOf(q)' = PtrOf(q)
  <2> SUFFICES ASSUME NEW q \in Qps PROVE PtrOf(q)' = PtrOf(q)
    OBVIOUS
  <2>1. PtrOf(q)' = ptr'.table[q]
    BY <1>1, <1>2, PtrOfNext DEF PtrOfFacts
  <2>2. PtrOf(q) = IF u.qpn = q THEN u.entry ELSE ptr.table[q]
    BY <1>1, <1>2, PtrOfIs DEF PtrOfFacts
  <2>3. ptr.table \in [Qps -> PtrEntry]
    BY DEF Types, PtrTypes
  <2> QED
    BY <1>1, <2>1, <2>2, <2>3
<1>4. MetaNow' = MetaNow /\ Hand' = Hand /\ MReq' = MReq /\ MRsp' = MRsp
  BY <1>1, NowSame DEF Hand, FifoStep
<1> QED
  BY <1>1, <1>3, <1>4, QuietStep, InListFrame DEF ListInv, Stay

LEMMA PtrRequestLists ==
  ASSUME Types, Control, ListInv, PtrRequest
  PROVE  ListInv' /\ Stay
<1>1. /\ UNCHANGED <<script, in, fsm, meta, free, events, init>>
      /\ ptr'.table = ptr.table /\ PUpd' = PUpd /\ MReq' = MReq /\ MRsp' = MRsp
  BY PtrRequestEffect DEF FifoStep
<1>2. MetaNow' = MetaNow /\ Hand' = Hand
  BY <1>1, NowSame DEF Hand
<1> QED
  BY <1>1, <1>2, PtrsSame, QuietStep, InListFrame DEF ListInv, Stay

(* The entry table answers a walk where it is. *)
LEMMA MetaTableWalk ==
  ASSUME Types, Control, MetaTable, Stay, fsm.state \in Walking,
         NEW k \in 1 .. Len(Chain(Qpn)), WalkAt(k)
  PROVE  WalkAt(k)'
<1> DEFINE r == MReq[1]
<1>1. /\ UNCHANGED fsm /\ Types' /\ MReq # <<>> /\ r \in MetaRequests /\ MReq' = Tail(MReq)
      /\ meta' = Applied(meta, r)
  BY MetaTableEffect DEF FifoStep
<1>2. /\ Len(MReq) \in Nat \ {0} /\ Tail(MReq) \in Seq(MetaRequests) /\ Len(Tail(MReq)) = Len(MReq) - 1
      /\ \A i \in 1 .. Len(MReq) - 1 : Tail(MReq)[i] = MReq[i + 1]
  BY <1>1, HeadAndTail DEF Types, FifoTypes
<1>3. Qpn' = Qpn /\ Qpn \in Qps /\ Chain(Qpn)' = Chain(Qpn)
  BY <1>1, StateOp DEF Qpn, Walking, Stay
<1>4. CASE r.kind = "read"
  <2>1. Tail(MReq) = <<>> /\ Len(MReq) = 1 /\ MRsp = <<>> /\ MRsp' = <<meta[r.idx]>>
    BY <1>4, MetaTableControl
  <2>2. r.idx = Chain(Qpn)[k]
    BY <2>1 DEF WalkAt
  <2>3. MetaNow' = meta
    <3>1. MReq' = <<>> /\ meta' = meta
      BY <1>1, <1>4, <2>1 DEF Applied
    <3> QED
      BY <1>1, <3>1, NowTypeNext DEF NowFacts
  <2>4. MRsp' # <<>> /\ MRsp'[1] = MetaNow'[Chain(Qpn)'[k]]
    BY <1>3, <2>1, <2>2, <2>3, Singles
  <2> QED
    BY <2>4 DEF WalkAt
<1>5. CASE r.kind # "read"
  <2>1. MRsp' = MRsp
    BY <1>5, MetaTableControl
  <2>2. MRsp = <<>> /\ MReq[Len(MReq)].kind = "read"
    BY <1>1 DEF Control, Reading
  <2>3. MReq[Len(MReq)].idx = Chain(Qpn)[k]
    BY <2>2 DEF WalkAt
  <2>4. Len(MReq) # 1
    BY <1>5, <2>2
  <2>5. Len(MReq) - 1 \in 1 .. Len(MReq) - 1 /\ (Len(MReq) - 1) + 1 = Len(MReq) /\ Len(Tail(MReq)) # 0
    BY <1>2, <2>4
  <2>6. MReq' # <<>> /\ MReq'[Len(MReq')] = MReq[Len(MReq)]
    BY <1>1, <1>2, <2>5, Singles
  <2> QED
    BY <1>3, <2>1, <2>2, <2>3, <2>6 DEF WalkAt
<1> QED
  BY <1>4, <1>5

LEMMA MetaTableLists ==
  ASSUME Types, Control, ListInv, MetaTable
  PROVE  ListInv' /\ Stay
<1> DEFINE r == MReq[1]
<1>1. /\ UNCHANGED <<script, in, fsm, ptr, free, events, init>> /\ Types'
      /\ MReq # <<>> /\ r \in MetaRequests /\ PUpd' = PUpd /\ MReq' = Tail(MReq)
      /\ meta' = Applied(meta, r)
  BY MetaTableEffect DEF FifoStep
<1>2. MetaNow' = MetaNow
  <2>1. MetaNow = AllApplied(meta, MReq) /\ MetaNow' = AllApplied(meta', MReq')
    BY DEF MetaNow, MReq
  <2>2. meta \in Table /\ MReq \in Seq(MetaRequests)
    BY DEF Types, MetaTypes, FifoTypes
  <2> QED
    BY <1>1, <2>1, <2>2, AllAppliedTail
<1>3. Lists' /\ Ledger(Places)' /\ Stay
  <2>1. Hand' = Hand
    BY <1>1 DEF Hand
  <2> QED
    BY <1>1, <1>2, <2>1, PtrsSame, QuietStep DEF ListInv, Stay
<1>4. CASE fsm.state \notin Walking
  BY <1>1, <1>3, <1>4, InListIdle DEF ListInv
<1>5. CASE fsm.state \in Walking
  <2>1. PICK k \in 1 .. Len(Chain(Qpn)) : WalkAt(k) /\ (fsm.state = "UPDATE_1" => k = 1)
    BY <1>1, <1>5 DEF ListInv, InList
  <2>2. WalkAt(k)'
    BY <1>3, <1>5, <2>1, MetaTableWalk
  <2>3. Chain(Qpn)' = Chain(Qpn)
    BY <1>1, <1>3, <1>5, StateOp DEF Qpn, Walking, Stay
  <2>4. InList'
    BY <1>1, <2>1, <2>2, <2>3 DEF InList
  <2> QED
    BY <1>3, <2>4 DEF ListInv
<1> QED
  BY <1>4, <1>5

(* The places with given lists. *)
PlacesWith(N, list, release, hand, unused) ==
  [x \in Tags |-> IF x = FreeTag THEN list ELSE IF x = ReleaseTag THEN release
                  ELSE IF x = HandTag THEN hand ELSE IF x = UnusedTag THEN unused ELSE N[x[2]]]

LEMMA WithAre ==
  ASSUME NEW N, NEW list, NEW release, NEW hand, NEW unused
  PROVE  LET w == PlacesWith(N, list, release, hand, unused)
         IN /\ DOMAIN w = Tags /\ w = [x \in Tags |-> w[x]]
            /\ w[FreeTag] = list /\ w[ReleaseTag] = release
            /\ w[HandTag] = hand /\ w[UnusedTag] = unused
            /\ \A q \in Qps : w[ListTag(q)] = N[q]
<1>1. \A q : ListTag(q)[2] = q
  BY DEF ListTag
<1>2. ASSUME NEW q \in Qps PROVE PlacesWith(N, list, release, hand, unused)[ListTag(q)] = N[q]
  BY <1>1, TagFacts DEF PlacesWith
<1> QED
  BY <1>2, TagFacts DEF PlacesWith

LEMMA WithType ==
  ASSUME NEW N \in [Qps -> Seq(Indices)], NEW list \in Seq(Indices), NEW release \in Seq(Indices),
         NEW hand \in Seq(Indices), NEW unused \in Seq(Indices)
  PROVE  PlacesWith(N, list, release, hand, unused) \in [Tags -> Seq(Indices)]
<1> DEFINE w == PlacesWith(N, list, release, hand, unused)
<1>1. /\ DOMAIN w = Tags /\ w = [x \in Tags |-> w[x]]
      /\ w[FreeTag] = list /\ w[ReleaseTag] = release
      /\ w[HandTag] = hand /\ w[UnusedTag] = unused
      /\ \A q \in Qps : w[ListTag(q)] = N[q]
  BY WithAre
<1> HIDE DEF w
<1>2. ASSUME NEW x \in Tags PROVE w[x] \in Seq(Indices)
  <2>1. CASE x \in {FreeTag, ReleaseTag, HandTag, UnusedTag}
    BY <1>1, <2>1
  <2>2. ASSUME NEW q \in Qps, x = ListTag(q) PROVE w[x] \in Seq(Indices)
    BY <1>1, <2>2
  <2> QED
    BY <2>1, <2>2, TagFacts
<1>3. w \in [Tags -> Seq(Indices)]
  BY <1>1, <1>2
<1> QED
  BY <1>3 DEF w

(* The lists and places after a step, when they are lists and a ledger. *)
LEMMA NewLists ==
  ASSUME Types', Len(PUpd') <= 1, NEW N \in [Qps -> Seq(Indices)], NEW w,
         w = PlacesWith(N, free'.list, free'.release, Hand', Unused'), Ledger(w),
         \A q \in Qps : IsList(PtrOf(q)', MetaNow', N[q])
  PROVE  Ledger(Places)' /\ \A q \in Qps : Chain(q)' = N[q]
<1>1. /\ DOMAIN w = Tags /\ w = [x \in Tags |-> w[x]]
      /\ w[FreeTag] = free'.list /\ w[ReleaseTag] = free'.release
      /\ w[HandTag] = Hand' /\ w[UnusedTag] = Unused'
      /\ \A q \in Qps : w[ListTag(q)] = N[q]
  BY WithAre
<1>2. ASSUME NEW q \in Qps PROVE Chain(q)' = N[q]
  <2>1. Injective(N[q])
    <3>1. ListTag(q) \in Tags /\ w[ListTag(q)] = N[q]
      BY <1>1, TagFacts
    <3> QED
      BY <3>1 DEF Ledger, Injective
  <2>2. PtrOf(q)' \in PtrEntry /\ MetaNow' \in Table
    BY PtrOfNext, NowTypeNext DEF PtrOfFacts, NowFacts
  <2>3. Walk(PtrOf(q)', MetaNow') = N[q]
    BY <2>1, <2>2, WalkIs
  <2> QED
    BY <2>3 DEF Chain
<1>3. Places' = w
  <2>1. /\ Places'[FreeTag] = w[FreeTag] /\ Places'[ReleaseTag] = w[ReleaseTag]
        /\ Places'[HandTag] = w[HandTag] /\ Places'[UnusedTag] = w[UnusedTag]
        /\ \A q \in Qps : Places'[ListTag(q)] = w[ListTag(q)]
        /\ DOMAIN Places' = Tags /\ Places' = [x \in Tags |-> Places'[x]]
    BY <1>1, <1>2, PlacesAreNext DEF PlacesFacts
  <2>2. \A x \in Tags : Places'[x] = w[x]
    BY <2>1, TagFacts
  <2> QED
    BY <1>1, <2>1, <2>2
<1> QED
  BY <1>2, <1>3 DEF Ledger

(* A step of the free list, or an insertion that takes an index. *)
LEMMA MovePlaces ==
  ASSUME ListsTyped, ListsTyped', Ledger(Places), NEW x \in Tags, NEW y \in Tags, x # y,
         Places[x] # <<>>, Places'[x] = Tail(Places[x]),
         Places'[y] = Append(Places[y], Places[x][1]),
         \A z \in Tags \ {x, y} : Places'[z] = Places[z]
  PROVE  Ledger(Places)'
<1>1. Places \in [Tags -> Seq(Indices)] /\ Places' \in [Tags -> Seq(Indices)]
  BY PlacesType, PlacesTypeNext DEF PlacesTyped
<1>2. Ledger(Places')
  BY <1>1, MoveIndex
<1> QED
  BY <1>2 DEF Ledger

LEMMA SameSeq ==
  ASSUME NEW S, NEW s \in Seq(S), NEW t \in Seq(S), Len(s) = Len(t),
         \A i \in 1 .. Len(s) : s[i] = t[i]
  PROVE  s = t
  OBVIOUS

LEMMA TypedLists == Types /\ Lists => ListsTyped
  BY DEF Lists, IsList, ListsTyped
LEMMA TypedListsNext == Types' /\ Lists' => ListsTyped'
  BY DEF Lists, IsList, ListsTyped

LEMMA FreeListLists ==
  ASSUME Types, Control, ListInv, FreeList
  PROVE  ListInv' /\ Stay
<1>1. Types' /\ UNCHANGED <<script, in, fsm, ptr, meta, fifo, events, init>>
  BY FreeListEffect
<1>2. /\ MetaNow' = MetaNow /\ Hand' = Hand /\ MReq' = MReq /\ MRsp' = MRsp
      /\ \A q \in Qps : PtrOf(q)' = PtrOf(q)
  BY <1>1, NowSame, PtrsSame DEF MReq, MRsp, PUpd, Hand
<1>3. \A q \in Qps : Chain(q)' = Chain(q)
  BY <1>2, ChainsSame
<1>4. Lists'
  <2>1. \A q \in Qps : Growing(q)' = Growing(q)
    BY <1>1 DEF Growing, Qpn
  <2>2. \A q \in Qps : EndsWell(q, MetaNow, Chain(q))' = EndsWell(q, MetaNow, Chain(q))
    BY <1>1, <1>2, <1>3, <2>1 DEF EndsWell
  <2>3. \A q \in Qps : IsList(PtrOf(q), MetaNow, Chain(q))'
    BY <1>2, <1>3 DEF IsList, Lists, ListInv
  <2> QED
    BY <2>2, <2>3 DEF Lists, ListInv
<1>5. InList'
  BY <1>1, <1>2, <1>3, InListFrame DEF ListInv
<1>6. ListsTyped /\ ListsTyped'
  BY <1>1, <1>4, TypedLists, TypedListsNext DEF ListInv
<1>7. /\ Places[FreeTag] = free.list /\ Places[ReleaseTag] = free.release
      /\ Places[HandTag] = Hand /\ Places[UnusedTag] = Unused
      /\ \A q \in Qps : Places[ListTag(q)] = Chain(q)
      /\ Places'[FreeTag] = free'.list /\ Places'[ReleaseTag] = free'.release
      /\ Places'[HandTag] = Hand /\ Places'[UnusedTag] = Unused'
      /\ \A q \in Qps : Places'[ListTag(q)] = Chain(q)
  BY <1>2, <1>3, PlacesAre, PlacesAreNext DEF PlacesFacts
<1>8. CASE /\ free.release # <<>> /\ free'.release = Tail(free.release)
           /\ free'.list = Append(free.list, free.release[1]) /\ free'.counter = free.counter
  <2>1. Unused' = Unused
    BY <1>8 DEF Unused
  <2>2. \A z \in Tags \ {ReleaseTag, FreeTag} : Places'[z] = Places[z]
    BY <1>7, <2>1, TagFacts
  <2>3. Ledger(Places)'
    BY <1>6, <1>7, <1>8, <2>2, MovePlaces, TagFacts DEF ListInv
  <2> QED
    BY <1>2, <1>3, <1>4, <1>5, <2>3 DEF ListInv, Stay
<1>9. CASE /\ free.counter < TableSize /\ free'.release = free.release
           /\ free'.list = Append(free.list, free.counter)
           /\ free'.counter = free.counter + 1
  <2>1. TableSize \in Nat /\ free.counter \in Nat
    BY RetransAssumption DEF Types, FreeTypes
  <2>2. /\ Unused \in Seq(Indices) /\ Len(Unused) = TableSize - free.counter
        /\ \A k \in 1 .. TableSize - free.counter : Unused[k] = free.counter + k - 1
    BY UnusedIs DEF UnusedFacts
  <2>3. /\ Unused' \in Seq(Indices) /\ Len(Unused') = TableSize - (free.counter + 1)
        /\ \A k \in 1 .. TableSize - (free.counter + 1) : Unused'[k] = (free.counter + 1) + k - 1
    BY <1>1, <1>9, UnusedNext DEF UnusedFacts
  <2>4. Unused # <<>>
    BY <1>9, <2>1, <2>2, Singles
  <2>5. /\ Tail(Unused) \in Seq(Indices) /\ Len(Tail(Unused)) = Len(Unused) - 1
        /\ \A i \in 1 .. Len(Unused) - 1 : Tail(Unused)[i] = Unused[i + 1]
    BY <2>2, <2>4, HeadAndTail
  <2>6. Unused[1] = free.counter
    BY <1>9, <2>1, <2>2
  <2>7. Len(Unused') = Len(Tail(Unused))
    BY <2>1, <2>2, <2>3, <2>5
  <2>8. ASSUME NEW i \in 1 .. Len(Unused') PROVE Unused'[i] = Tail(Unused)[i]
    <3>1. i \in 1 .. TableSize - (free.counter + 1) /\ i \in 1 .. Len(Unused) - 1
          /\ i + 1 \in 1 .. TableSize - free.counter
      BY <2>1, <2>2, <2>3
    <3>2. Unused'[i] = (free.counter + 1) + i - 1
      BY <2>3, <3>1
    <3>3. Tail(Unused)[i] = Unused[i + 1] /\ Unused[i + 1] = free.counter + (i + 1) - 1
      BY <2>2, <2>5, <3>1
    <3> QED
      BY <2>1, <3>1, <3>2, <3>3
  <2>9. Unused' = Tail(Unused)
    BY <2>3, <2>5, <2>7, <2>8, SameSeq
  <2>10. \A z \in Tags \ {UnusedTag, FreeTag} : Places'[z] = Places[z]
    BY <1>7, <1>9, TagFacts
  <2>11. Ledger(Places)'
    BY <1>6, <1>7, <1>9, <2>4, <2>6, <2>9, <2>10, MovePlaces, TagFacts DEF ListInv
  <2> QED
    BY <1>2, <1>3, <1>4, <1>5, <2>11 DEF ListInv, Stay
<1> QED
  BY <1>8, <1>9, FreeListEffect

LEMMA MainUpdateLists ==
  ASSUME Types, Control, ListInv, MainUpdate
  PROVE  ListInv' /\ Stay
<1>1. /\ UNCHANGED <<script, ptr, meta, free, events, init>> /\ fsm.state = "MAIN"
      /\ fsm'.state = "UPDATE_0" /\ PUpd' = PUpd /\ MReq' = MReq
  BY MainUpdateEffect DEF FsmStep, FifoStep
<1>2. MetaNow' = MetaNow /\ Hand' = Hand /\ \A q \in Qps : PtrOf(q)' = PtrOf(q)
  BY <1>1, NowSame, PtrsSame DEF Hand
<1>3. Lists' /\ Ledger(Places)' /\ \A q \in Qps : Chain(q)' = Chain(q)
  BY <1>1, <1>2, QuietStep DEF ListInv
<1>4. InList'
  BY <1>1, InListIdle DEF Walking
<1> QED
  BY <1>2, <1>3, <1>4 DEF ListInv, Stay

LEMMA MainNakLists ==
  ASSUME Types, Control, ListInv, MainNak
  PROVE  ListInv' /\ Stay
<1>1. /\ UNCHANGED <<script, ptr, meta, free, events, init>> /\ fsm.state = "MAIN"
      /\ fsm'.state = "RETRANS_0" /\ PUpd' = PUpd /\ MReq' = MReq
  BY MainNakEffect DEF FsmStep, FifoStep
<1>2. MetaNow' = MetaNow /\ Hand' = Hand /\ \A q \in Qps : PtrOf(q)' = PtrOf(q)
  BY <1>1, NowSame, PtrsSame DEF Hand
<1>3. Lists' /\ Ledger(Places)' /\ \A q \in Qps : Chain(q)' = Chain(q)
  BY <1>1, <1>2, QuietStep DEF ListInv
<1>4. InList'
  BY <1>1, InListIdle DEF Walking
<1> QED
  BY <1>2, <1>3, <1>4 DEF ListInv, Stay

LEMMA MainTimeoutLists ==
  ASSUME Types, Control, ListInv, MainTimeout
  PROVE  ListInv' /\ Stay
<1>1. /\ UNCHANGED <<script, ptr, meta, free, events, init>> /\ fsm.state = "MAIN"
      /\ fsm'.state = "TIMER_RETRANS_0" /\ PUpd' = PUpd /\ MReq' = MReq
  BY MainTimeoutEffect DEF FsmStep, FifoStep
<1>2. MetaNow' = MetaNow /\ Hand' = Hand /\ \A q \in Qps : PtrOf(q)' = PtrOf(q)
  BY <1>1, NowSame, PtrsSame DEF Hand
<1>3. Lists' /\ Ledger(Places)' /\ \A q \in Qps : Chain(q)' = Chain(q)
  BY <1>1, <1>2, QuietStep DEF ListInv
<1>4. InList'
  BY <1>1, InListIdle DEF Walking
<1> QED
  BY <1>2, <1>3, <1>4 DEF ListInv, Stay

LEMMA MainInsertLists ==
  ASSUME Types, Control, ListInv, MainInsert
  PROVE  ListInv' /\ Stay
<1>1. /\ UNCHANGED <<script, ptr, meta, events, init>> /\ fsm.state = "MAIN" /\ Types'
      /\ fsm'.state = "INSERT_0" /\ fsm'.idx = free.list[1] /\ PUpd' = PUpd /\ MReq' = MReq
      /\ free.list # <<>> /\ free'.list = Tail(free.list)
      /\ free'.release = free.release /\ free'.counter = free.counter
  BY MainInsertEffect DEF FsmStep, FifoStep
<1>2. MetaNow' = MetaNow /\ \A q \in Qps : PtrOf(q)' = PtrOf(q)
  BY <1>1, NowSame, PtrsSame
<1>3. \A q \in Qps : Chain(q)' = Chain(q)
  BY <1>2, ChainsSame
<1>4. Lists'
  <2>1. \A q \in Qps : ~Growing(q) /\ ~Growing(q)'
    BY <1>1 DEF Growing
  <2>2. \A q \in Qps : EndsWell(q, MetaNow, Chain(q))' = EndsWell(q, MetaNow, Chain(q))
    BY <1>2, <1>3, <2>1 DEF EndsWell
  <2>3. \A q \in Qps : IsList(PtrOf(q), MetaNow, Chain(q))'
    BY <1>2, <1>3 DEF IsList, Lists, ListInv
  <2> QED
    BY <2>2, <2>3 DEF Lists, ListInv
<1>5. InList'
  BY <1>1, InListIdle DEF Walking
<1>6. ListsTyped /\ ListsTyped'
  BY <1>1, <1>4, TypedLists, TypedListsNext DEF ListInv
<1>7. Hand = <<>> /\ Hand' = <<free.list[1]>> /\ Unused' = Unused
  BY <1>1 DEF Hand, Unused
<1>8. Hand' = Append(Hand, free.list[1])
  BY <1>7, Singles
<1>9. /\ Places[FreeTag] = free.list /\ Places[ReleaseTag] = free.release
      /\ Places[HandTag] = Hand /\ Places[UnusedTag] = Unused
      /\ \A q \in Qps : Places[ListTag(q)] = Chain(q)
      /\ Places'[FreeTag] = free'.list /\ Places'[ReleaseTag] = free'.release
      /\ Places'[HandTag] = Hand' /\ Places'[UnusedTag] = Unused'
      /\ \A q \in Qps : Places'[ListTag(q)] = Chain(q)
  BY <1>3, PlacesAre, PlacesAreNext DEF PlacesFacts
<1>10. \A z \in Tags \ {FreeTag, HandTag} : Places'[z] = Places[z]
  BY <1>1, <1>7, <1>9, TagFacts
<1>11. Ledger(Places)'
  BY <1>1, <1>6, <1>8, <1>9, <1>10, MovePlaces, TagFacts DEF ListInv
<1> QED
  BY <1>2, <1>3, <1>4, <1>5, <1>11 DEF ListInv, Stay
(* A step that writes back the pointer of one queue pair. *)
LEMMA PtrWritten ==
  ASSUME Types, Types', Control', PUpd = <<>>, ptr' = ptr, NEW r \in Qps, NEW p \in PtrEntry,
         PUpd' = Append(PUpd, PtrUpd(r, p))
  PROVE  PtrOf(r)' = p /\ \A q \in Qps \ {r} : PtrOf(q)' = PtrOf(q)
<1>1. PUpd' = <<PtrUpd(r, p)>> /\ PtrUpd(r, p).qpn = r /\ PtrUpd(r, p).entry = p
  BY Messages, Singles
<1>2. PUpd' # <<>> /\ PUpd'[1].qpn = r /\ PUpd'[1].entry = p /\ Len(PUpd') <= 1 /\ Len(PUpd) <= 1
  BY <1>1, Singles
<1>3. \A q \in Qps : PtrOf(q) = ptr.table[q]
  BY <1>2, PtrOfIs DEF PtrOfFacts
<1>4. \A q \in Qps : PtrOf(q)' = IF r = q THEN p ELSE ptr.table[q]
  BY <1>2, PtrOfNext DEF PtrOfFacts
<1> QED
  BY <1>3, <1>4

(* An entry is written, or linked to the next. *)
LEMMA NowWrite ==
  ASSUME Types, meta' = meta, NEW i \in Indices, NEW m \in MetaEntry,
         MReq' = Append(MReq, Write(i, m))
  PROVE  MetaNow'[i] = m /\ \A j \in Indices \ {i} : MetaNow'[j] = MetaNow[j]
<1>1. /\ Write(i, m) \in MetaRequests /\ Write(i, m).kind = "write"
      /\ Write(i, m).idx = i /\ Write(i, m).entry = m
  BY Messages
<1>2. MetaNow' = Applied(MetaNow, Write(i, m))
  BY <1>1, NowAppend
<1>3. MetaNow' = [MetaNow EXCEPT ![i] = m]
  BY <1>1, <1>2 DEF Applied
<1>4. MetaNow \in Table
  BY NowType DEF NowFacts
<1> QED
  BY <1>3, <1>4 DEF Table

LEMMA NowLink ==
  ASSUME Types, meta' = meta, NEW i \in Indices, NEW n \in Indices,
         MReq' = Append(MReq, Link(i, n))
  PROVE  /\ MetaNow'[i].next = n /\ MetaNow'[i].isTail = FALSE
         /\ MetaNow'[i].valid = MetaNow[i].valid /\ MetaNow'[i].e = MetaNow[i].e
         /\ \A j \in Indices \ {i} : MetaNow'[j] = MetaNow[j]
<1>1. /\ Link(i, n) \in MetaRequests /\ Link(i, n).kind = "append"
      /\ Link(i, n).idx = i /\ Link(i, n).next = n
  BY Messages
<1>2. MetaNow' = Applied(MetaNow, Link(i, n))
  BY <1>1, NowAppend
<1>3. MetaNow' = [MetaNow EXCEPT ![i].next = n, ![i].isTail = FALSE]
  BY <1>1, <1>2 DEF Applied
<1>4. MetaNow \in Table
  BY NowType DEF NowFacts
<1>5. MetaNow[i] \in MetaEntry
  BY <1>4 DEF Table
<1>6. MetaNow'[i] = [MetaNow[i] EXCEPT !.next = n, !.isTail = FALSE]
  BY <1>3, <1>4 DEF Table
<1> QED
  BY <1>3, <1>4, <1>5, <1>6 DEF Table, MetaEntry

(* A list stays one while its entries do. *)
LEMMA ListKept ==
  ASSUME NEW p, NEW t, NEW u, NEW s, IsList(p, t, s), \A k \in 1 .. Len(s) : u[s[k]] = t[s[k]]
  PROVE  IsList(p, u, s)
<1>1. s \in Seq(Indices)
  BY DEF IsList
<1>2. \A k \in 1 .. Len(s) - 1 : k \in 1 .. Len(s)
  BY <1>1
<1>3. \A k \in 1 .. Len(s) : u[s[k]].valid
  BY DEF IsList
<1>4. ASSUME NEW k \in 1 .. Len(s) - 1 PROVE u[s[k]].next = s[k + 1] /\ ~u[s[k]].isTail
  <2>1. u[s[k]] = t[s[k]] /\ t[s[k]].next = s[k + 1] /\ ~t[s[k]].isTail
    BY <1>2 DEF IsList
  <2> QED
    BY <2>1
<1> QED
  BY <1>3, <1>4 DEF IsList

(* A step that changes the list of one queue pair. *)
WithList(r, s) == [q \in Qps |-> IF q = r THEN s ELSE Chain(q)]
LEMMA OneList ==
  ASSUME Types', Control', Lists, NEW r \in Qps, NEW s \in Seq(Indices), NEW w,
         w = PlacesWith(WithList(r, s), free'.list, free'.release, Hand', Unused'), Ledger(w),
         \A q \in Qps \ {r} : PtrOf(q)' = PtrOf(q) /\ ~Growing(q) /\ ~Growing(q)',
         \A q \in Qps \ {r} : \A k \in 1 .. Len(Chain(q)) :
            MetaNow'[Chain(q)[k]] = MetaNow[Chain(q)[k]],
         IsList(PtrOf(r)', MetaNow', s), 
         s # <<>> => IF Growing(r)' THEN MetaNow'[s[Len(s)]].next = fsm'.idx
                                         /\ ~MetaNow'[s[Len(s)]].isTail
                     ELSE MetaNow'[s[Len(s)]].isTail
  PROVE  /\ Lists' /\ Ledger(Places)' /\ Chain(r)' = s
         /\ \A q \in Qps \ {r} : Chain(q)' = Chain(q)
<1> DEFINE N == WithList(r, s)
<1>1. \A q \in Qps : Chain(q) \in Seq(Indices) /\ IsList(PtrOf(q), MetaNow, Chain(q))
  BY DEF Lists, IsList
<1>2. N \in [Qps -> Seq(Indices)] /\ N[r] = s /\ \A q \in Qps \ {r} : N[q] = Chain(q)
  BY <1>1 DEF WithList
<1> HIDE DEF N
<1>3. ASSUME NEW q \in Qps \ {r} PROVE IsList(PtrOf(q)', MetaNow', Chain(q))
  <2>1. /\ Chain(q) \in Seq(Indices)
        /\ \A k \in 1 .. Len(Chain(q)) : MetaNow'[Chain(q)[k]] = MetaNow[Chain(q)[k]]
        /\ PtrOf(q)' = PtrOf(q)
    BY <1>1
  <2>2. IsList(PtrOf(q), MetaNow', Chain(q))
    BY <1>1, <2>1, ListKept
  <2> QED
    BY <2>1, <2>2
<1>4. \A q \in Qps : IsList(PtrOf(q)', MetaNow', N[q])
  BY <1>2, <1>3
<1>5. w = PlacesWith(N, free'.list, free'.release, Hand', Unused')
  BY DEF N
<1>6. Len(PUpd') <= 1
  BY OneUpdNext
<1>7. Ledger(Places)' /\ \A q \in Qps : Chain(q)' = N[q]
  BY <1>2, <1>4, <1>5, <1>6, NewLists
<1>8. ASSUME NEW q \in Qps \ {r} PROVE EndsWell(q, MetaNow, Chain(q))'
  <2>1. Chain(q)' = Chain(q) /\ EndsWell(q, MetaNow, Chain(q))
    BY <1>2, <1>7 DEF Lists
  <2>2. Chain(q) # <<>> => Len(Chain(q)) \in 1 .. Len(Chain(q))
    BY <1>1
  <2> QED
    BY <2>1, <2>2 DEF EndsWell
<1>9. EndsWell(r, MetaNow, Chain(r))'
  BY <1>2, <1>7 DEF EndsWell
<1>10. Lists'
  BY <1>2, <1>4, <1>7, <1>8, <1>9 DEF Lists
<1> QED
  BY <1>2, <1>7, <1>10
(* The places after such a step are places. *)
LEMMA WithListType ==
  ASSUME Types, Lists, Types', NEW r \in Qps, NEW s \in Seq(Indices)
  PROVE  /\ Places \in [Tags -> Seq(Indices)]
         /\ PlacesWith(WithList(r, s), free'.list, free'.release, Hand', Unused')
              \in [Tags -> Seq(Indices)]
<1>1. ListsTyped
  BY TypedLists
<1>2. Places \in [Tags -> Seq(Indices)]
  BY <1>1, PlacesType DEF PlacesTyped
<1>3. WithList(r, s) \in [Qps -> Seq(Indices)]
  BY <1>1 DEF WithList, ListsTyped
<1>4. free'.list \in Seq(Indices) /\ free'.release \in Seq(Indices) /\ fsm'.idx \in Indices
  BY DEF Types, FreeTypes, FsmTypes
<1>5. Hand' \in Seq(Indices)
  BY <1>4 DEF Hand
<1>6. Unused' \in Seq(Indices)
  BY UnusedNext DEF UnusedFacts
<1> QED
  BY <1>2, <1>3, <1>4, <1>5, <1>6, WithType

LEMMA WithListAre ==
  ASSUME NEW r \in Qps, NEW s, NEW w,
         w = PlacesWith(WithList(r, s), free'.list, free'.release, Hand', Unused')
  PROVE  /\ w[FreeTag] = free'.list /\ w[ReleaseTag] = free'.release
         /\ w[HandTag] = Hand' /\ w[UnusedTag] = Unused' /\ w[ListTag(r)] = s
         /\ \A q \in Qps \ {r} : w[ListTag(q)] = Places[ListTag(q)]
         /\ DOMAIN w = Tags /\ w = [x \in Tags |-> w[x]]
<1>1. /\ w[FreeTag] = free'.list /\ w[ReleaseTag] = free'.release
      /\ w[HandTag] = Hand' /\ w[UnusedTag] = Unused'
      /\ \A q \in Qps : w[ListTag(q)] = WithList(r, s)[q]
      /\ DOMAIN w = Tags /\ w = [x \in Tags |-> w[x]]
  BY WithAre
<1>2. WithList(r, s)[r] = s /\ \A q \in Qps \ {r} : WithList(r, s)[q] = Places[ListTag(q)]
  BY PlacesAre DEF PlacesFacts, WithList
<1> QED
  BY <1>1, <1>2

LEMMA Insert0FirstLists ==
  ASSUME Types, Control, ListInv, Insert0First
  PROVE  /\ ListInv'
         /\ Chain(Qpn) = <<>>
         /\ \A q \in Qps : Chain(q)' = IF q = Qpn THEN <<fsm.idx>> ELSE Chain(q)
         /\ \A q \in Qps : \A k \in 1 .. Len(Chain(q)) :
               MetaNow'[Chain(q)[k]] = MetaNow[Chain(q)[k]]
         /\ MetaNow'[fsm.idx].e = fsm.op[1].entry
<1> DEFINE p == [valid |-> TRUE, head |-> fsm.idx, tail |-> fsm.idx]
           m == TailEntry(fsm.op[1].entry)
           s == <<fsm.idx>>
<1> PICK r \in Qps : r = Qpn
  BY Insert0FirstEffect
<1> DEFINE w == PlacesWith(WithList(r, s), free'.list, free'.release, Hand', Unused')
<1>1. /\ Types' /\ Control' /\ UNCHANGED <<ptr, meta, free>> /\ fsm.state = "INSERT_0"
      /\ ~PRsp[1].valid /\ ptr.table[r] = PRsp[1] /\ fsm.idx \in Indices
      /\ p \in PtrEntry /\ m \in MetaEntry /\ fsm'.state = "MAIN" /\ PUpd = <<>>
      /\ PUpd' = Append(PUpd, PtrUpd(r, p)) /\ MReq' = Append(MReq, Write(fsm.idx, m))
  BY Insert0FirstEffect, Insert0FirstControl, FsmFields DEF FsmStep, FifoStep
<1>2. p.valid /\ p.head = fsm.idx /\ p.tail = fsm.idx /\ m.valid /\ m.isTail
      /\ m.e = fsm.op[1].entry
  BY DEF TailEntry
<1> HIDE DEF p, m
<1>3. PtrOf(r)' = p /\ \A q \in Qps \ {r} : PtrOf(q)' = PtrOf(q)
  BY <1>1, PtrWritten
<1>4. MetaNow'[fsm.idx] = m /\ \A j \in Indices \ {fsm.idx} : MetaNow'[j] = MetaNow[j]
  BY <1>1, NowWrite
<1>5. Chain(r) = <<>>
  <2>1. PtrOf(r) = ptr.table[r]
    BY <1>1, OneUpd, PtrOfIs DEF PtrOfFacts
  <2> QED
    BY <1>1, <2>1 DEF ListInv, Lists, IsList
<1>6. ASSUME NEW q \in Qps, NEW k \in 1 .. Len(Chain(q))
      PROVE  MetaNow'[Chain(q)[k]] = MetaNow[Chain(q)[k]]
  <2>1. Chain(q)[k] # fsm.idx /\ Chain(q)[k] \in Indices
    BY <1>1, ListsApart DEF ApartFacts, Apart, ListInv, Lists, IsList
  <2> QED
    BY <1>4, <2>1
<1>7. IsList(PtrOf(r)', MetaNow', s)
  <2>1. s \in Seq(Indices) /\ Len(s) = 1 /\ s # <<>> /\ s[1] = fsm.idx
    BY <1>1
  <2>2. \A k \in 1 .. Len(s) : k = 1
    BY <2>1
  <2>3. \A k \in 1 .. Len(s) - 1 : FALSE
    BY <2>1
  <2> HIDE DEF s
  <2> QED
    BY <1>2, <1>3, <1>4, <2>1, <2>2, <2>3 DEF IsList
<1>8. \A q \in Qps : ~Growing(q) /\ ~Growing(q)'
  BY <1>1 DEF Growing
<1>9. Hand = <<fsm.idx>> /\ Hand' = <<>> /\ Unused' = Unused
  BY <1>1 DEF Hand, Unused
<1>10. Ledger(w)
  <2>1. /\ w[FreeTag] = free.list /\ w[ReleaseTag] = free.release
        /\ w[HandTag] = <<>> /\ w[UnusedTag] = Unused /\ w[ListTag(r)] = s
        /\ \A q \in Qps \ {r} : w[ListTag(q)] = Places[ListTag(q)]
    BY <1>1, <1>9, WithListAre
  <2>2. /\ Places[FreeTag] = free.list /\ Places[ReleaseTag] = free.release
        /\ Places[HandTag] = Hand /\ Places[UnusedTag] = Unused /\ Places[ListTag(r)] = <<>>
    BY <1>1, <1>5, PlacesAre DEF PlacesFacts
  <2> DEFINE x == HandTag
             y == ListTag(r)
  <2>3. x \in Tags /\ y \in Tags /\ x # y
    BY <1>1, TagFacts
  <2>4. Places[x] # <<>> /\ w[x] = Tail(Places[x]) /\ w[y] = Append(Places[y], Places[x][1])
    BY <1>9, <2>1, <2>2, Singles
  <2>5. \A z \in Tags \ {x, y} : w[z] = Places[z]
    BY <2>1, <2>2, TagFacts
  <2>6. Places \in [Tags -> Seq(Indices)] /\ w \in [Tags -> Seq(Indices)]
    <3>1. s \in Seq(Indices)
      BY <1>1
    <3> QED
      BY <1>1, <3>1, WithListType DEF ListInv
  <2> HIDE DEF x, y, s, w
  <2> QED
    BY <2>3, <2>4, <2>5, <2>6, MoveIndex DEF ListInv
<1>11. /\ Lists' /\ Ledger(Places)' /\ Chain(r)' = s
       /\ \A q \in Qps \ {r} : Chain(q)' = Chain(q)
  <2>1. s \in Seq(Indices) /\ Len(s) = 1 /\ s[1] = fsm.idx
    BY <1>1
  <2>2. MetaNow'[s[Len(s)]].isTail
    BY <1>2, <1>4, <2>1
  <2> HIDE DEF s
  <2> QED
    BY <1>1, <1>3, <1>6, <1>7, <1>8, <1>10, <2>1, <2>2, OneList DEF ListInv
<1>12. InList'
  BY <1>1, InListIdle DEF Walking
<1> QED
  BY <1>2, <1>4, <1>5, <1>6, <1>11, <1>12 DEF ListInv
(* A pointer that is not on its way is the one in the table. *)
LEMMA PtrInTable ==
  ASSUME Types, Control, PUpd = <<>>
  PROVE  \A q \in Qps : PtrOf(q) = ptr.table[q]
  BY OneUpd, PtrOfIs DEF PtrOfFacts

(* The places of a step that changes what is stored and not where. *)
LEMMA WithSame ==
  ASSUME NEW r \in Qps, NEW w, w = PlacesWith(WithList(r, Chain(r)), free'.list, free'.release, Hand', Unused'),
         Ledger(Places), free' = free, Hand' = Hand
  PROVE  Ledger(w)
<1>1. /\ w[FreeTag] = free.list /\ w[ReleaseTag] = free.release
      /\ w[HandTag] = Hand /\ w[UnusedTag] = Unused /\ w[ListTag(r)] = Chain(r)
      /\ \A q \in Qps \ {r} : w[ListTag(q)] = Places[ListTag(q)]
      /\ DOMAIN w = Tags /\ w = [x \in Tags |-> w[x]]
  <2>1. Unused' = Unused
    BY DEF Unused
  <2> QED
    BY <2>1, WithListAre
<1>2. /\ Places[FreeTag] = free.list /\ Places[ReleaseTag] = free.release
      /\ Places[HandTag] = Hand /\ Places[UnusedTag] = Unused /\ Places[ListTag(r)] = Chain(r)
      /\ DOMAIN Places = Tags /\ Places = [x \in Tags |-> Places[x]]
  BY PlacesAre DEF PlacesFacts
<1>3. \A x \in Tags : w[x] = Places[x]
  BY <1>1, <1>2, TagFacts
<1>4. w = Places
  BY <1>1, <1>2, <1>3
<1> QED
  BY <1>4

LEMMA Insert0AppendLists ==
  ASSUME Types, Control, ListInv, Insert0Append
  PROVE  /\ ListInv'
         /\ \A q \in Qps : Chain(q)' = Chain(q)
         /\ \A q \in Qps : \A k \in 1 .. Len(Chain(q)) :
               MetaNow'[Chain(q)[k]].e = MetaNow[Chain(q)[k]].e
<1> DEFINE p == PRsp[1]
<1> PICK r \in Qps : r = Qpn
  BY Insert0AppendEffect
<1> DEFINE s == Chain(r)
           w == PlacesWith(WithList(r, s), free'.list, free'.release, Hand', Unused')
<1>1. /\ Types' /\ Control' /\ UNCHANGED <<ptr, meta, free>> /\ fsm.state = "INSERT_0"
      /\ p.valid /\ ptr.table[r] = p /\ fsm.idx \in Indices /\ p \in PtrEntry
      /\ fsm'.state = "INSERT_1" /\ fsm'.idx = fsm.idx /\ fsm'.op = fsm.op /\ PUpd = <<>>
      /\ PUpd' = PUpd /\ MReq' = Append(MReq, Link(p.tail, fsm.idx))
  BY Insert0AppendEffect, Insert0AppendControl, FsmFields DEF FsmStep, FifoStep
<1>2. PtrOf(r) = p /\ p.tail \in Indices /\ \A q \in Qps : PtrOf(q)' = PtrOf(q)
  BY <1>1, PtrInTable, PtrsSame, PtrFields
<1> HIDE DEF p
<1>3. /\ MetaNow'[p.tail].next = fsm.idx /\ MetaNow'[p.tail].isTail = FALSE
      /\ MetaNow'[p.tail].valid = MetaNow[p.tail].valid /\ MetaNow'[p.tail].e = MetaNow[p.tail].e
      /\ \A j \in Indices \ {p.tail} : MetaNow'[j] = MetaNow[j]
  BY <1>1, <1>2, NowLink
<1>4. /\ IsList(p, MetaNow, s) /\ s \in Seq(Indices) /\ s # <<>> /\ s[Len(s)] = p.tail
      /\ Len(s) \in 1 .. Len(s)
  <2>1. IsList(p, MetaNow, s)
    BY <1>2 DEF ListInv, Lists
  <2>2. s \in Seq(Indices) /\ s # <<>> /\ s[Len(s)] = p.tail
    BY <1>1, <2>1 DEF IsList
  <2>3. Len(s) \in Nat \ {0}
    BY <2>2
  <2> QED
    BY <2>1, <2>2, <2>3
<1>5. Apart
  BY ListsApart DEF ApartFacts, ListInv
<1>6. ASSUME NEW q \in Qps, NEW k \in 1 .. Len(Chain(q)), q # r \/ k # Len(s)
      PROVE  MetaNow'[Chain(q)[k]] = MetaNow[Chain(q)[k]]
  <2>1. Chain(q)[k] # p.tail
    BY <1>4, <1>5, <1>6 DEF Apart
  <2>2. Chain(q)[k] \in Indices
    BY DEF ListInv, Lists, IsList
  <2> QED
    BY <1>3, <2>1, <2>2
<1>7. IsList(PtrOf(r)', MetaNow', s)
  <2>1. ASSUME NEW k \in 1 .. Len(s) PROVE MetaNow'[s[k]].valid
    <3>1. MetaNow[s[k]].valid
      BY <1>4 DEF IsList
    <3>2. CASE k = Len(s)
      BY <1>3, <1>4, <3>1, <3>2
    <3>3. CASE k # Len(s)
      BY <1>6, <3>1, <3>3
    <3> QED
      BY <3>2, <3>3
  <2>2. ASSUME NEW k \in 1 .. Len(s) - 1
        PROVE  MetaNow'[s[k]].next = s[k + 1] /\ ~MetaNow'[s[k]].isTail
    <3>1. MetaNow[s[k]].next = s[k + 1] /\ ~MetaNow[s[k]].isTail
      BY <1>4 DEF IsList
    <3>2. k \in 1 .. Len(s) /\ k # Len(s)
      BY <1>4
    <3> QED
      BY <1>6, <3>1, <3>2
  <2> QED
    BY <1>2, <1>4, <2>1, <2>2 DEF IsList
<1>8. Growing(r)' /\ \A q \in Qps \ {r} : ~Growing(q) /\ ~Growing(q)'
  BY <1>1 DEF Growing, Qpn
<1>9. Ledger(w)
  <2>1. Hand' = Hand
    BY <1>1 DEF Hand
  <2> QED
    BY <1>1, <2>1, WithSame DEF ListInv
<1>10. /\ Lists' /\ Ledger(Places)' /\ Chain(r)' = s
       /\ \A q \in Qps \ {r} : Chain(q)' = Chain(q)
  <2>1. MetaNow'[s[Len(s)]].next = fsm'.idx /\ ~MetaNow'[s[Len(s)]].isTail
    BY <1>1, <1>3, <1>4
  <2> HIDE DEF s
  <2> QED
    BY <1>1, <1>2, <1>4, <1>6, <1>7, <1>8, <1>9, <2>1, OneList DEF ListInv
<1>11. InList'
  BY <1>1, InListIdle DEF Walking
<1>12. ASSUME NEW q \in Qps, NEW k \in 1 .. Len(Chain(q))
       PROVE  MetaNow'[Chain(q)[k]].e = MetaNow[Chain(q)[k]].e
  <2>1. CASE q = r /\ k = Len(s)
    BY <1>3, <1>4, <2>1
  <2>2. CASE ~(q = r /\ k = Len(s))
    BY <1>6, <2>2
  <2> QED
    BY <2>1, <2>2
<1> QED
  BY <1>10, <1>11, <1>12 DEF ListInv

LEMMA Insert1Lists ==
  ASSUME Types, Control, ListInv, Insert1
  PROVE  /\ ListInv'
         /\ \A q \in Qps : Chain(q)' = IF q = Qpn THEN Append(Chain(q), fsm.idx) ELSE Chain(q)
         /\ \A q \in Qps : \A k \in 1 .. Len(Chain(q)) :
               MetaNow'[Chain(q)[k]] = MetaNow[Chain(q)[k]]
         /\ MetaNow'[fsm.idx].e = fsm.op[1].entry
<1> DEFINE p == fsm.ptr
           m == TailEntry(fsm.op[1].entry)
<1> PICK r \in Qps : r = Qpn
  BY Insert1Effect
<1> DEFINE o == Chain(r)
           s == Append(o, fsm.idx)
           w == PlacesWith(WithList(r, s), free'.list, free'.release, Hand', Unused')
<1>1. /\ Types' /\ Control' /\ UNCHANGED <<ptr, meta, free>> /\ fsm.state = "INSERT_1"
      /\ fsm.idx \in Indices /\ p \in PtrEntry /\ m \in MetaEntry
      /\ ptr.table[r].valid /\ p = [ptr.table[r] EXCEPT !.tail = fsm.idx] /\ ptr.table[r] \in PtrEntry
      /\ fsm'.state = "MAIN" /\ PUpd = <<>>
      /\ PUpd' = Append(PUpd, PtrUpd(r, p)) /\ MReq' = Append(MReq, Write(fsm.idx, m))
  <2>1. ptr.table[r] \in PtrEntry
    BY DEF Types, PtrTypes
  <2> QED
    BY <2>1, Insert1Effect, Insert1Control, FsmFields DEF FsmStep, FifoStep, Control, Register
<1>2. p.valid /\ p.head = ptr.table[r].head /\ p.tail = fsm.idx /\ m.valid /\ m.isTail
      /\ m.e = fsm.op[1].entry
  BY <1>1 DEF TailEntry, PtrEntry
<1> HIDE DEF p, m
<1>3. PtrOf(r)' = p /\ \A q \in Qps \ {r} : PtrOf(q)' = PtrOf(q)
  BY <1>1, PtrWritten
<1>4. MetaNow'[fsm.idx] = m /\ \A j \in Indices \ {fsm.idx} : MetaNow'[j] = MetaNow[j]
  BY <1>1, NowWrite
<1>5. /\ IsList(ptr.table[r], MetaNow, o) /\ o \in Seq(Indices) /\ o # <<>>
      /\ o[1] = p.head /\ Len(o) \in 1 .. Len(o) /\ Len(o) \in Nat \ {0}
      /\ MetaNow[o[Len(o)]].next = fsm.idx /\ ~MetaNow[o[Len(o)]].isTail
  <2>1. IsList(ptr.table[r], MetaNow, o)
    BY <1>1, PtrInTable DEF ListInv, Lists
  <2>2. o \in Seq(Indices) /\ o # <<>> /\ o[1] = p.head
    BY <1>1, <1>2, <2>1 DEF IsList
  <2>3. Len(o) \in Nat \ {0}
    BY <2>2
  <2>4. EndsWell(r, MetaNow, o) /\ Growing(r)
    BY <1>1 DEF ListInv, Lists, Growing
  <2> QED
    BY <2>1, <2>2, <2>3, <2>4 DEF EndsWell
<1>6. ASSUME NEW q \in Qps, NEW k \in 1 .. Len(Chain(q))
      PROVE  MetaNow'[Chain(q)[k]] = MetaNow[Chain(q)[k]]
  <2>1. Chain(q)[k] # fsm.idx /\ Chain(q)[k] \in Indices
    BY <1>1, ListsApart DEF ApartFacts, Apart, ListInv, Lists, IsList
  <2> QED
    BY <1>4, <2>1
<1>7. /\ s \in Seq(Indices) /\ Len(s) = Len(o) + 1 /\ s[Len(o) + 1] = fsm.idx
      /\ \A k \in 1 .. Len(o) : s[k] = o[k]
  BY <1>1, <1>5, Appended
<1>8. s # <<>> /\ s[1] = p.head /\ s[Len(s)] = p.tail /\ s[Len(s)] = fsm.idx
  <2>1. 1 \in 1 .. Len(o)
    BY <1>5
  <2>2. s[1] = o[1]
    BY <1>7, <2>1
  <2>3. Len(s) # 0
    BY <1>5, <1>7
  <2> QED
    BY <1>2, <1>5, <1>7, <2>2, <2>3, Singles
<1>9. IsList(PtrOf(r)', MetaNow', s)
  <2>1. ASSUME NEW k \in 1 .. Len(s) PROVE MetaNow'[s[k]].valid
    <3>1. CASE k = Len(o) + 1
      BY <1>2, <1>4, <1>7, <3>1
    <3>2. CASE k # Len(o) + 1
      <4>1. k \in 1 .. Len(o)
        BY <1>5, <1>7, <3>2
      <4>2. MetaNow[o[k]].valid
        BY <1>5, <4>1 DEF IsList
      <4> QED
        BY <1>6, <1>7, <4>1, <4>2
    <3> QED
      BY <3>1, <3>2
  <2>2. ASSUME NEW k \in 1 .. Len(s) - 1
        PROVE  MetaNow'[s[k]].next = s[k + 1] /\ ~MetaNow'[s[k]].isTail
    <3>1. k \in 1 .. Len(o) /\ s[k] = o[k]
      BY <1>5, <1>7
    <3>2. MetaNow'[s[k]] = MetaNow[o[k]]
      BY <1>6, <3>1
    <3>3. CASE k = Len(o)
      BY <1>5, <1>7, <3>2, <3>3
    <3>4. CASE k # Len(o)
      <4>1. k \in 1 .. Len(o) - 1 /\ k + 1 \in 1 .. Len(o)
        BY <1>5, <3>1, <3>4
      <4>2. MetaNow[o[k]].next = o[k + 1] /\ ~MetaNow[o[k]].isTail
        BY <1>5, <4>1 DEF IsList
      <4>3. s[k + 1] = o[k + 1]
        BY <1>7, <4>1
      <4> QED
        BY <3>2, <4>2, <4>3
    <3> QED
      BY <3>3, <3>4
  <2> HIDE DEF s
  <2> QED
    BY <1>2, <1>3, <1>7, <1>8, <2>1, <2>2 DEF IsList
<1>10. \A q \in Qps \ {r} : ~Growing(q) /\ ~Growing(q)'
  BY <1>1 DEF Growing
<1>11. Hand = <<fsm.idx>> /\ Hand' = <<>> /\ Unused' = Unused /\ ~Growing(r)'
  BY <1>1 DEF Hand, Unused, Growing
<1>12. Ledger(w)
  <2>1. /\ w[FreeTag] = free.list /\ w[ReleaseTag] = free.release
        /\ w[HandTag] = <<>> /\ w[UnusedTag] = Unused /\ w[ListTag(r)] = s
        /\ \A q \in Qps \ {r} : w[ListTag(q)] = Places[ListTag(q)]
    <3> HIDE DEF s
    <3> QED
      BY <1>1, <1>11, WithListAre
  <2>2. /\ Places[FreeTag] = free.list /\ Places[ReleaseTag] = free.release
        /\ Places[HandTag] = Hand /\ Places[UnusedTag] = Unused /\ Places[ListTag(r)] = o
    BY <1>1, PlacesAre DEF PlacesFacts
  <2> DEFINE x == HandTag
             y == ListTag(r)
  <2>3. x \in Tags /\ y \in Tags /\ x # y
    BY <1>1, TagFacts
  <2>4. Places[x] # <<>> /\ w[x] = Tail(Places[x]) /\ w[y] = Append(Places[y], Places[x][1])
    BY <1>11, <2>1, <2>2, Singles
  <2>5. \A z \in Tags \ {x, y} : w[z] = Places[z]
    BY <2>1, <2>2, TagFacts
  <2>6. Places \in [Tags -> Seq(Indices)] /\ w \in [Tags -> Seq(Indices)]
    BY <1>1, <1>7, WithListType DEF ListInv
  <2> HIDE DEF x, y, s, w
  <2> QED
    BY <2>3, <2>4, <2>5, <2>6, MoveIndex DEF ListInv
<1>13. /\ Lists' /\ Ledger(Places)' /\ Chain(r)' = s
       /\ \A q \in Qps \ {r} : Chain(q)' = Chain(q)
  <2>1. MetaNow'[s[Len(s)]].isTail
    BY <1>2, <1>4, <1>8
  <2> HIDE DEF s
  <2> QED
    BY <1>1, <1>3, <1>6, <1>7, <1>9, <1>10, <1>11, <1>12, <2>1, OneList DEF ListInv
<1>14. InList'
  BY <1>1, InListIdle DEF Walking
<1> QED
  BY <1>2, <1>4, <1>6, <1>13, <1>14 DEF ListInv
(* The head of the list is asked for. *)
LEMMA WalkStarts ==
  ASSUME Types, Lists, NEW r \in Qps, Qpn' = r, NEW p \in PtrEntry, PtrOf(r) = p, p.valid,
         Chain(r)' = Chain(r), MReq' = Append(MReq, Read(p.head)), MRsp' = <<>>
  PROVE  InList' /\ 1 \in 1 .. Len(Chain(r)) /\ WalkAt(1)'
<1>1. Chain(r) \in Seq(Indices) /\ Chain(r) # <<>> /\ Chain(r)[1] = p.head
  BY DEF Lists, IsList
<1>2. 1 \in 1 .. Len(Chain(r))
  <2>1. Len(Chain(r)) \in Nat \ {0}
    BY <1>1
  <2> QED
    BY <2>1
<1>3. p.head \in Indices
  BY PtrFields
<1>4. Read(p.head) \in MetaRequests /\ Read(p.head).idx = p.head
  BY <1>3, Messages
<1>5. /\ Len(MReq') = Len(MReq) + 1 /\ MReq'[Len(MReq) + 1] = Read(p.head) /\ Len(MReq) \in Nat
  BY <1>4, Appended DEF Types, FifoTypes
<1>6. MReq' # <<>> /\ MReq'[Len(MReq')].idx = p.head
  BY <1>4, <1>5, Singles
<1>7. WalkAt(1)'
  BY <1>1, <1>6 DEF WalkAt
<1> QED
  BY <1>2, <1>7 DEF InList

LEMMA Update0Lists ==
  ASSUME Types, Control, ListInv, Update0
  PROVE  ListInv' /\ Stay
<1> DEFINE p == PRsp[1]
<1> PICK r \in Qps : r = Qpn
  BY Update0Effect
<1>1. /\ Types' /\ Control' /\ UNCHANGED <<ptr, meta, free>> /\ fsm.state = "UPDATE_0"
      /\ p \in PtrEntry /\ ptr.table[r] = p /\ PUpd = <<>> /\ MRsp = <<>> /\ MRsp' = <<>>
      /\ fsm'.state = (IF p.valid THEN "UPDATE_1" ELSE "MAIN") /\ fsm'.op = fsm.op
      /\ PUpd' = (IF p.valid THEN PUpd ELSE Append(PUpd, PtrUpd(r, p)))
      /\ MReq' = (IF p.valid THEN Append(MReq, Read(p.head)) ELSE MReq)
  BY Update0Effect, Update0Control DEF FsmStep, FifoStep
<1>2. PtrOf(r) = p /\ p.head \in Indices /\ p.valid \in BOOLEAN
  BY <1>1, PtrInTable, PtrFields
<1> HIDE DEF p
<1>3. Hand' = Hand /\ fsm.state # "INSERT_1" /\ fsm'.state # "INSERT_1" /\ Qpn' = r
  BY <1>1, <1>2 DEF Hand, Qpn
<1>4. CASE p.valid
  <2>1. MetaNow' = MetaNow /\ \A q \in Qps : PtrOf(q)' = PtrOf(q)
    BY <1>1, <1>2, <1>4, NowRead, PtrsSame
  <2>2. Lists' /\ Ledger(Places)' /\ \A q \in Qps : Chain(q)' = Chain(q)
    BY <1>1, <1>3, <2>1, QuietStep DEF ListInv
  <2>3. MReq' = Append(MReq, Read(p.head))
    BY <1>1, <1>4
  <2>4. InList'
    BY <1>1, <1>2, <1>3, <1>4, <2>2, <2>3, WalkStarts DEF ListInv
  <2> QED
    BY <2>1, <2>2, <2>4 DEF ListInv, Stay
<1>5. CASE ~p.valid
  <2>1. MetaNow' = MetaNow
    BY <1>1, <1>5, NowSame
  <2>2. PUpd' = Append(PUpd, PtrUpd(r, p))
    BY <1>1, <1>5
  <2>3. \A q \in Qps : PtrOf(q)' = PtrOf(q)
    BY <1>1, <1>2, <2>2, PtrWritten
  <2>4. Lists' /\ Ledger(Places)' /\ \A q \in Qps : Chain(q)' = Chain(q)
    BY <1>1, <1>3, <2>1, <2>3, QuietStep DEF ListInv
  <2>5. InList'
    BY <1>1, <1>5, InListIdle DEF Walking
  <2> QED
    BY <2>1, <2>4, <2>5 DEF ListInv, Stay
<1> QED
  BY <1>2, <1>4, <1>5

LEMMA StartRetransLists ==
  ASSUME Types, Control, ListInv, NEW state, NEW next, StartRetrans(state, next),
         <<state, next>> \in {<<"RETRANS_0", "RETRANS_1">>, <<"TIMER_RETRANS_0", "RETRANS_2">>}
  PROVE  ListInv' /\ Stay
<1> DEFINE p == PRsp[1]
<1> PICK r \in Qps : r = Qpn
  BY StartRetransEffect
<1>1. /\ Types' /\ Control' /\ UNCHANGED <<ptr, meta, free>> /\ fsm.state = state
      /\ p \in PtrEntry /\ ptr.table[r] = p /\ PUpd = <<>> /\ MRsp = <<>> /\ MRsp' = <<>>
      /\ fsm'.state = (IF p.valid THEN next ELSE "MAIN") /\ fsm'.op = fsm.op
      /\ PUpd' = PUpd /\ MReq' = (IF p.valid THEN Append(MReq, Read(p.head)) ELSE MReq)
  BY StartRetransEffect, StartRetransControl DEF FsmStep, FifoStep
<1>2. PtrOf(r) = p /\ p.head \in Indices /\ p.valid \in BOOLEAN
  BY <1>1, PtrInTable, PtrFields
<1> HIDE DEF p
<1>3. /\ state \in {"RETRANS_0", "TIMER_RETRANS_0"} /\ next \in {"RETRANS_1", "RETRANS_2"}
  OBVIOUS
<1>4. Hand' = Hand /\ fsm.state # "INSERT_1" /\ fsm'.state # "INSERT_1" /\ Qpn' = r
  BY <1>1, <1>2, <1>3 DEF Hand, Qpn
<1>5. MetaNow' = MetaNow /\ \A q \in Qps : PtrOf(q)' = PtrOf(q)
  BY <1>1, <1>2, NowRead, NowSame, PtrsSame
<1>6. Lists' /\ Ledger(Places)' /\ \A q \in Qps : Chain(q)' = Chain(q)
  BY <1>1, <1>4, <1>5, QuietStep DEF ListInv
<1>7. CASE p.valid
  <2>1. MReq' = Append(MReq, Read(p.head))
    BY <1>1, <1>7
  <2>2. InList'
    BY <1>1, <1>2, <1>4, <1>6, <1>7, <2>1, WalkStarts DEF ListInv
  <2> QED
    BY <1>5, <1>6, <2>2 DEF ListInv, Stay
<1>8. CASE ~p.valid
  <2>1. InList'
    BY <1>1, <1>8, InListIdle DEF Walking
  <2> QED
    BY <1>5, <1>6, <2>1 DEF ListInv, Stay
<1> QED
  BY <1>2, <1>7, <1>8

(* The entry of a walk that has been answered, and the one after it. *)
LEMMA WalkAnswer ==
  ASSUME Types, Control, ListInv, MRsp # <<>>, NEW r \in Qps, r = Qpn
  PROVE  LET m == MRsp[1]
             s == Chain(r)
         IN /\ MReq = <<>> /\ s \in Seq(Indices) /\ IsList(PtrOf(r), MetaNow, s)
            /\ \E k \in 1 .. Len(s) : /\ m = MetaNow[s[k]] /\ (fsm.state = "UPDATE_1" => k = 1)
                                      /\ m.isTail => k = Len(s)
                                      /\ ~m.isTail => k + 1 \in 1 .. Len(s) /\ m.next = s[k + 1]
<1> DEFINE m == MRsp[1]
           s == Chain(r)
<1>1. MReq = <<>> /\ fsm.state \in Walking
  BY Answered2
<1>2. IsList(PtrOf(r), MetaNow, s) /\ EndsWell(r, MetaNow, s)
  BY DEF ListInv, Lists
<1>3. s \in Seq(Indices) /\ Len(s) \in Nat
  BY <1>2 DEF IsList
<1>4. PICK k \in 1 .. Len(s) : WalkAt(k) /\ (fsm.state = "UPDATE_1" => k = 1)
  BY <1>1 DEF ListInv, InList
<1>5. m = MetaNow[s[k]]
  BY <1>4 DEF WalkAt
<1>6. CASE k = Len(s)
  <2>1. ~Growing(r)
    BY <1>1 DEF Growing, Walking
  <2>2. s # <<>>
    BY <1>3, Singles
  <2>3. m.isTail
    BY <1>2, <1>5, <1>6, <2>1, <2>2 DEF EndsWell
  <2> QED
    BY <1>1, <1>2, <1>3, <1>4, <1>5, <1>6, <2>3
<1>7. CASE k # Len(s)
  <2>1. k \in 1 .. Len(s) - 1 /\ k + 1 \in 1 .. Len(s)
    BY <1>3, <1>7
  <2>2. m.next = s[k + 1] /\ ~m.isTail
    BY <1>2, <1>5, <2>1 DEF IsList
  <2> QED
    BY <1>1, <1>2, <1>3, <1>4, <1>5, <2>1, <2>2
<1> QED
  BY <1>6, <1>7
(* A walk goes to the next entry, or stops at the tail. *)
LEMMA WalkGoesOn ==
  ASSUME Types, Control, ListInv, MRsp # <<>>, NEW r \in Qps, r = Qpn, Qpn' = Qpn,
         fsm.state \in {"RETRANS_1", "RETRANS_2"},
         fsm'.state \in {"MAIN", "RETRANS_1", "RETRANS_2"},
         UNCHANGED <<ptr, meta, free>>, PUpd' = PUpd, MRsp' = Tail(MRsp),
         MReq' = IF MRsp[1].isTail THEN MReq ELSE Append(MReq, Read(MRsp[1].next))
  PROVE  ListInv' /\ Stay
<1> DEFINE m == MRsp[1]
           s == Chain(r)
<1>1. MReq = <<>> /\ s \in Seq(Indices)
  BY WalkAnswer
<1>2. PICK k \in 1 .. Len(s) : /\ m = MetaNow[s[k]]
                               /\ ~m.isTail => k + 1 \in 1 .. Len(s) /\ m.next = s[k + 1]
  BY WalkAnswer
<1>3. MRsp' = <<>>
  BY Answered2
<1>4. m \in MetaEntry
  BY MetaAnswer
<1>5. m.next \in Indices /\ m.isTail \in BOOLEAN
  BY <1>4, MetaFields
<1>6. MetaNow' = MetaNow
  <2>1. CASE m.isTail
    BY <2>1, NowSame
  <2>2. CASE ~m.isTail
    BY <1>5, <2>2, NowRead
  <2> QED
    BY <2>1, <2>2
<1>7. Hand' = Hand /\ fsm.state # "INSERT_1" /\ fsm'.state # "INSERT_1"
  BY DEF Hand
<1>8. Lists' /\ Ledger(Places)' /\ \A q \in Qps : Chain(q)' = Chain(q)
  BY <1>6, <1>7, PtrsSame, QuietStep DEF ListInv
<1>9. InList'
  <2>1. CASE m.isTail
    BY <1>1, <1>3, <2>1 DEF InList
  <2>2. CASE ~m.isTail
    <3>1. Read(m.next).idx = m.next /\ MReq' = <<Read(m.next)>>
      BY <1>1, <1>5, <2>2, Messages, Singles
    <3>2. MReq' # <<>> /\ MReq'[Len(MReq')].idx = s[k + 1] /\ k + 1 \in 1 .. Len(s)
      BY <1>2, <2>2, <3>1, Singles
    <3>3. Chain(Qpn)' = s
      BY <1>8
    <3>4. WalkAt(k + 1)'
      BY <1>3, <3>2, <3>3 DEF WalkAt
    <3>5. fsm'.state # "UPDATE_1"
      OBVIOUS
    <3> QED
      BY <3>2, <3>3, <3>4, <3>5 DEF InList
  <2> QED
    BY <2>1, <2>2
<1> QED
  BY <1>6, <1>8, <1>9 DEF ListInv, Stay

LEMMA Retrans1Lists ==
  ASSUME Types, Control, ListInv, Retrans1
  PROVE  ListInv' /\ Stay
<1> PICK r \in Qps : r = Qpn
  BY Retrans1Effect
<1>1. /\ MRsp # <<>> /\ fsm.state = "RETRANS_1" /\ fsm'.op = fsm.op
      /\ fsm'.state \in {"MAIN", "RETRANS_1", "RETRANS_2"}
      /\ UNCHANGED <<ptr, meta, free>> /\ PUpd' = PUpd /\ MRsp' = Tail(MRsp)
      /\ MReq' = IF MRsp[1].isTail THEN MReq ELSE Append(MReq, Read(MRsp[1].next))
  BY Retrans1Effect DEF FsmStep, FifoStep
<1>2. Qpn' = Qpn
  BY <1>1 DEF Qpn
<1> QED
  BY <1>1, <1>2, WalkGoesOn

LEMMA Retrans2Lists ==
  ASSUME Types, Control, ListInv, Retrans2
  PROVE  ListInv' /\ Stay
<1> PICK r \in Qps : r = Qpn
  BY Retrans2Effect
<1>1. /\ MRsp # <<>> /\ fsm.state = "RETRANS_2" /\ fsm'.op = fsm.op
      /\ fsm'.state \in {"MAIN", "RETRANS_1", "RETRANS_2"}
      /\ UNCHANGED <<ptr, meta, free>> /\ PUpd' = PUpd /\ MRsp' = Tail(MRsp)
      /\ MReq' = IF MRsp[1].isTail THEN MReq ELSE Append(MReq, Read(MRsp[1].next))
  BY Retrans2Effect DEF FsmStep, FifoStep
<1>2. Qpn' = Qpn
  BY <1>1 DEF Qpn
<1> QED
  BY <1>1, <1>2, WalkGoesOn

(* The entry of an answer is the head of its list. *)
LEMMA UpdateAnswer ==
  ASSUME Types, Control, ListInv, MRsp # <<>>, fsm.state = "UPDATE_1", NEW r \in Qps, r = Qpn
  PROVE  LET m == MRsp[1]
             s == Chain(r)
         IN /\ MReq = <<>> /\ PUpd = <<>> /\ fsm.ptr = ptr.table[r] /\ PtrOf(r) = fsm.ptr
            /\ s \in Seq(Indices) /\ Len(s) \in Nat \ {0} /\ s # <<>>
            /\ IsList(fsm.ptr, MetaNow, s)
            /\ s[1] = fsm.ptr.head /\ s[1] = fsm.idx /\ s[1] \in Indices
            /\ m = MetaNow[s[1]] /\ (m.isTail <=> Len(s) = 1)
            /\ ~m.isTail => m.next = s[2]
<1> DEFINE m == MRsp[1]
           s == Chain(r)
<1>1. MReq = <<>> /\ PUpd = <<>>
  BY Answered2
<1>2. fsm.ptr = ptr.table[r] /\ ptr.table[r].valid /\ fsm.idx = fsm.ptr.head
  BY DEF Control, Register
<1>3. PtrOf(r) = fsm.ptr
  BY <1>1, <1>2, PtrInTable
<1>4. s \in Seq(Indices) /\ IsList(fsm.ptr, MetaNow, s)
  BY <1>3, WalkAnswer
<1>5. s # <<>> /\ s[1] = fsm.ptr.head
  BY <1>2, <1>4 DEF IsList
<1>6. Len(s) \in Nat \ {0}
  BY <1>4, <1>5
<1>7. PICK k \in 1 .. Len(s) : /\ m = MetaNow[s[k]] /\ k = 1
                               /\ m.isTail => k = Len(s)
                               /\ ~m.isTail => k + 1 \in 1 .. Len(s) /\ m.next = s[k + 1]
  BY WalkAnswer
<1>8. m = MetaNow[s[1]] /\ (m.isTail => Len(s) = 1) /\ (~m.isTail => 2 \in 1 .. Len(s) /\ m.next = s[2])
  <2>1. 1 + 1 = 2
    OBVIOUS
  <2> QED
    BY <1>7, <2>1
<1>9. s[1] \in Indices
  BY <1>4, <1>6
<1>10. 2 \in 1 .. Len(s) => Len(s) # 1
  BY <1>6
<1> QED
  BY <1>1, <1>2, <1>3, <1>4, <1>5, <1>6, <1>8, <1>9, <1>10

LEMMA Update1KeepLists ==
  ASSUME Types, Control, ListInv, Update1Keep
  PROVE  /\ ListInv'
         /\ \A q \in Qps : Chain(q)' = Chain(q)
         /\ \A q \in Qps : \A k \in 1 .. Len(Chain(q)) :
               q # Qpn \/ k # 1 => MetaNow'[Chain(q)[k]] = MetaNow[Chain(q)[k]]
         /\ Chain(Qpn) # <<>> /\ MRsp[1] = MetaNow[Chain(Qpn)[1]]
         /\ MetaNow'[Chain(Qpn)[1]].e = Advanced(MRsp[1].e)
<1> DEFINE m == MRsp[1]
           a == [m EXCEPT !.e = Advanced(@)]
           p == fsm.ptr
<1> PICK r \in Qps : r = Qpn
  BY Update1KeepEffect
<1> DEFINE s == Chain(r)
           w == PlacesWith(WithList(r, s), free'.list, free'.release, Hand', Unused')
<1>1. /\ Types' /\ Control' /\ UNCHANGED <<ptr, meta, free>> /\ fsm.state = "UPDATE_1"
      /\ MRsp # <<>> /\ m \in MetaEntry /\ m.valid /\ p \in PtrEntry /\ fsm'.state = "MAIN"
      /\ PUpd' = Append(PUpd, PtrUpd(r, p)) /\ MReq' = Append(MReq, Write(p.head, a))
  BY Update1KeepEffect, Update1KeepControl DEF FsmStep, FifoStep
<1>2. /\ PUpd = <<>> /\ PtrOf(r) = p /\ s \in Seq(Indices) /\ Len(s) \in Nat \ {0} /\ s # <<>>
      /\ IsList(p, MetaNow, s) /\ s[1] = p.head /\ s[1] \in Indices
      /\ m = MetaNow[s[1]] /\ (m.isTail <=> Len(s) = 1)
  BY <1>1, UpdateAnswer
<1>3. /\ a \in MetaEntry /\ a.valid = m.valid /\ a.isTail = m.isTail /\ a.next = m.next
      /\ a.e = Advanced(m.e)
  <2>1. a \in MetaEntry
    BY <1>1, AdvancedType
  <2> QED
    BY <1>1, <2>1 DEF MetaEntry
<1> HIDE DEF a, p
<1>4. PtrOf(r)' = p /\ \A q \in Qps \ {r} : PtrOf(q)' = PtrOf(q)
  BY <1>1, <1>2, PtrWritten
<1>5. MetaNow'[s[1]] = a /\ \A j \in Indices \ {s[1]} : MetaNow'[j] = MetaNow[j]
  <2>1. p.head \in Indices
    BY <1>2
  <2>2. MetaNow'[p.head] = a /\ \A j \in Indices \ {p.head} : MetaNow'[j] = MetaNow[j]
    BY <1>1, <1>3, <2>1, NowWrite
  <2> QED
    BY <1>2, <2>2
<1>6. Apart
  BY ListsApart DEF ApartFacts, ListInv
<1>7. ASSUME NEW q \in Qps, NEW k \in 1 .. Len(Chain(q)), q # r \/ k # 1
      PROVE  MetaNow'[Chain(q)[k]] = MetaNow[Chain(q)[k]]
  <2>1. 1 \in 1 .. Len(s)
    BY <1>2
  <2>2. Chain(q)[k] # s[1]
    BY <1>6, <1>7, <2>1 DEF Apart
  <2>3. Chain(q)[k] \in Indices
    BY DEF ListInv, Lists, IsList
  <2> QED
    BY <1>5, <2>2, <2>3
<1>8. ASSUME NEW k \in 1 .. Len(s)
      PROVE  /\ MetaNow'[s[k]].valid = MetaNow[s[k]].valid
             /\ MetaNow'[s[k]].isTail = MetaNow[s[k]].isTail
             /\ MetaNow'[s[k]].next = MetaNow[s[k]].next
  <2>1. CASE k = 1
    BY <1>2, <1>3, <1>5, <2>1
  <2>2. CASE k # 1
    BY <1>7, <2>2
  <2> QED
    BY <2>1, <2>2
<1>9. IsList(PtrOf(r)', MetaNow', s)
  <2>1. \A k \in 1 .. Len(s) - 1 : k \in 1 .. Len(s)
    BY <1>2
  <2>2. ASSUME NEW k \in 1 .. Len(s) PROVE MetaNow'[s[k]].valid
    BY <1>2, <1>8 DEF IsList
  <2>3. ASSUME NEW k \in 1 .. Len(s) - 1
        PROVE  MetaNow'[s[k]].next = s[k + 1] /\ ~MetaNow'[s[k]].isTail
    <3>1. MetaNow[s[k]].next = s[k + 1] /\ ~MetaNow[s[k]].isTail
      BY <1>2 DEF IsList
    <3> QED
      BY <1>8, <2>1, <3>1
  <2> QED
    BY <1>2, <1>4, <2>2, <2>3 DEF IsList
<1>10. \A q \in Qps : ~Growing(q) /\ ~Growing(q)'
  BY <1>1 DEF Growing
<1>11. Ledger(w)
  <2>1. Hand' = Hand
    BY <1>1 DEF Hand
  <2> QED
    BY <1>1, <2>1, WithSame DEF ListInv
<1>12. /\ Lists' /\ Ledger(Places)' /\ Chain(r)' = s
       /\ \A q \in Qps \ {r} : Chain(q)' = Chain(q)
  <2>1. MetaNow'[s[Len(s)]].isTail
    <3>1. EndsWell(r, MetaNow, s)
      BY DEF ListInv, Lists
    <3>2. MetaNow[s[Len(s)]].isTail
      BY <1>2, <1>10, <3>1 DEF EndsWell
    <3>3. Len(s) \in 1 .. Len(s)
      BY <1>2
    <3> QED
      BY <1>8, <3>2, <3>3
  <2>2. \A q \in Qps \ {r} : PtrOf(q)' = PtrOf(q) /\ ~Growing(q) /\ ~Growing(q)'
    BY <1>4, <1>10
  <2>3. ~Growing(r)'
    BY <1>10
  <2> HIDE DEF s
  <2> QED
    BY <1>1, <1>2, <1>7, <1>9, <1>11, <2>1, <2>2, <2>3, OneList DEF ListInv
<1>13. InList'
  BY <1>1, InListIdle DEF Walking
<1> QED
  BY <1>2, <1>3, <1>5, <1>7, <1>12, <1>13 DEF ListInv
LEMMA Update1ReleaseLists ==
  ASSUME Types, Control, ListInv, Update1Release
  PROVE  /\ ListInv'
         /\ \A q \in Qps : Chain(q)' = IF q = Qpn THEN Tail(Chain(q)) ELSE Chain(q)
         /\ Chain(Qpn) # <<>> /\ MRsp[1] = MetaNow[Chain(Qpn)[1]] /\ MetaNow' = MetaNow
<1> DEFINE m == MRsp[1]
           p == [fsm.ptr EXCEPT !.head = m.next, !.valid = ~m.isTail]
<1> PICK r \in Qps : r = Qpn
  BY Update1ReleaseEffect
<1> DEFINE o == Chain(r)
           s == Tail(o)
           w == PlacesWith(WithList(r, s), free'.list, free'.release, Hand', Unused')
<1>1. /\ Types' /\ Control' /\ UNCHANGED <<ptr, meta>> /\ fsm.state = "UPDATE_1"
      /\ MRsp # <<>> /\ m \in MetaEntry /\ p \in PtrEntry /\ fsm'.state = "MAIN"
      /\ PUpd' = Append(PUpd, PtrUpd(r, p)) /\ MReq' = MReq
      /\ free'.list = free.list /\ free'.counter = free.counter
      /\ free'.release = Append(free.release, fsm.idx)
  BY Update1ReleaseEffect, Update1ReleaseControl DEF FsmStep, FifoStep
<1>2. /\ PUpd = <<>> /\ o \in Seq(Indices) /\ Len(o) \in Nat \ {0} /\ o # <<>>
      /\ IsList(fsm.ptr, MetaNow, o) /\ o[1] = fsm.idx
      /\ m = MetaNow[o[1]] /\ (m.isTail <=> Len(o) = 1) /\ (~m.isTail => m.next = o[2])
  BY <1>1, UpdateAnswer
<1>3. p.head = m.next /\ p.valid = ~m.isTail /\ p.tail = fsm.ptr.tail
  <2>1. fsm.ptr \in PtrEntry
    BY FsmFields
  <2> QED
    BY <2>1 DEF PtrEntry
<1> HIDE DEF p
<1>4. PtrOf(r)' = p /\ \A q \in Qps \ {r} : PtrOf(q)' = PtrOf(q)
  BY <1>1, <1>2, PtrWritten
<1>5. MetaNow' = MetaNow
  BY <1>1, NowSame
<1>6. /\ s \in Seq(Indices) /\ Len(s) = Len(o) - 1
      /\ \A i \in 1 .. Len(o) - 1 : s[i] = o[i + 1]
  BY <1>2, HeadAndTail
<1>7. IsList(PtrOf(r)', MetaNow', s)
  <2>1. p.valid <=> s # <<>>
    <3>1. Len(o) = 1 <=> s = <<>>
      <4>1. Len(s) = 0 <=> s = <<>>
        BY <1>6, LenZero, Singles
      <4>2. Len(o) = 1 <=> Len(s) = 0
        <5>1. Len(o) \in Nat /\ Len(s) = Len(o) - 1
          BY <1>2, <1>6
        <5> QED
          BY <5>1
      <4> QED
        BY <4>1, <4>2
    <3> QED
      BY <1>2, <1>3, <3>1
  <2>2. ASSUME s # <<>> PROVE s[1] = p.head /\ s[Len(s)] = p.tail
    <3>1. Len(s) # 0
      BY <1>6, <2>2, LenZero
    <3>2. 1 \in 1 .. Len(o) - 1 /\ 1 + 1 = 2 /\ Len(s) \in 1 .. Len(o) - 1 /\ Len(s) + 1 = Len(o)
      BY <1>2, <1>6, <3>1
    <3>3. s[1] = o[2] /\ s[Len(s)] = o[Len(o)]
      BY <1>6, <3>2
    <3>4. o[Len(o)] = fsm.ptr.tail
      BY <1>2 DEF IsList
    <3> QED
      BY <1>2, <1>3, <2>1, <2>2, <3>3, <3>4
  <2>3. ASSUME NEW k \in 1 .. Len(s) PROVE MetaNow[s[k]].valid
    <3>1. k + 1 \in 1 .. Len(o) /\ s[k] = o[k + 1]
      BY <1>2, <1>6
    <3> QED
      BY <1>2, <3>1 DEF IsList
  <2>4. ASSUME NEW k \in 1 .. Len(s) - 1
        PROVE  MetaNow[s[k]].next = s[k + 1] /\ ~MetaNow[s[k]].isTail
    <3>1. k + 1 \in 1 .. Len(o) - 1 /\ s[k] = o[k + 1] /\ s[k + 1] = o[(k + 1) + 1]
      BY <1>2, <1>6
    <3> QED
      BY <1>2, <3>1 DEF IsList
  <2> HIDE DEF s
  <2> QED
    BY <1>4, <1>5, <1>6, <2>1, <2>2, <2>3, <2>4 DEF IsList
<1>8. \A q \in Qps : ~Growing(q) /\ ~Growing(q)'
  BY <1>1 DEF Growing
<1>9. Hand = <<>> /\ Hand' = <<>> /\ Unused' = Unused
  BY <1>1 DEF Hand, Unused
<1>10. Ledger(w)
  <2>1. /\ w[FreeTag] = free.list /\ w[ReleaseTag] = Append(free.release, fsm.idx)
        /\ w[HandTag] = <<>> /\ w[UnusedTag] = Unused /\ w[ListTag(r)] = s
        /\ \A q \in Qps \ {r} : w[ListTag(q)] = Places[ListTag(q)]
    <3> HIDE DEF s
    <3> QED
      BY <1>1, <1>9, WithListAre
  <2>2. /\ Places[FreeTag] = free.list /\ Places[ReleaseTag] = free.release
        /\ Places[HandTag] = <<>> /\ Places[UnusedTag] = Unused /\ Places[ListTag(r)] = o
    BY <1>1, <1>9, PlacesAre DEF PlacesFacts
  <2> DEFINE x == ListTag(r)
             y == ReleaseTag
  <2>3. x \in Tags /\ y \in Tags /\ x # y
    BY <1>1, TagFacts
  <2>4. Places[x] # <<>> /\ w[x] = Tail(Places[x]) /\ w[y] = Append(Places[y], Places[x][1])
    BY <1>2, <2>1, <2>2
  <2>5. \A z \in Tags \ {x, y} : w[z] = Places[z]
    BY <2>1, <2>2, TagFacts
  <2>6. Places \in [Tags -> Seq(Indices)] /\ w \in [Tags -> Seq(Indices)]
    BY <1>1, <1>6, WithListType DEF ListInv
  <2> HIDE DEF x, y, s, w
  <2> QED
    BY <2>3, <2>4, <2>5, <2>6, MoveIndex DEF ListInv
<1>11. /\ Lists' /\ Ledger(Places)' /\ Chain(r)' = s
       /\ \A q \in Qps \ {r} : Chain(q)' = Chain(q)
  <2>1. s # <<>> => MetaNow'[s[Len(s)]].isTail
    <3>1. EndsWell(r, MetaNow, o)
      BY DEF ListInv, Lists
    <3>2. MetaNow[o[Len(o)]].isTail
      BY <1>2, <1>8, <3>1 DEF EndsWell
    <3>3. ASSUME s # <<>> PROVE s[Len(s)] = o[Len(o)]
      <4>1. Len(s) # 0
        BY <1>6, <3>3, LenZero
      <4>2. Len(s) \in 1 .. Len(o) - 1 /\ Len(s) + 1 = Len(o)
        BY <1>2, <1>6, <4>1
      <4> QED
        BY <1>6, <4>2
    <3> QED
      BY <1>5, <3>2, <3>3
  <2>2. \A q \in Qps \ {r} : PtrOf(q)' = PtrOf(q) /\ ~Growing(q) /\ ~Growing(q)'
    BY <1>4, <1>8
  <2>3. ~Growing(r)'
    BY <1>8
  <2> HIDE DEF s
  <2> QED
    BY <1>1, <1>5, <1>6, <1>7, <1>10, <2>1, <2>2, <2>3, OneList DEF ListInv
<1>12. InList'
  BY <1>1, InListIdle DEF Walking
<1> QED
  BY <1>2, <1>5, <1>11, <1>12 DEF ListInv

-----------------------------------------------------------------------------
(* The invariant *)

LEMMA InitInv == Init => Inv
<1> SUFFICES ASSUME Init PROVE Inv
  OBVIOUS
<1>1. TableSize \in Nat \ {0} /\ 0 \in Indices
  BY RetransAssumption DEF Indices
<1>2. NoPtr \in PtrEntry /\ NoEntry \in MetaEntry /\ ~NoPtr.valid
  BY <1>1 DEF NoPtr, NoEntry, PtrEntry, MetaEntry
<1>3. /\ PReq = <<>> /\ PUpd = <<>> /\ PRsp = <<>> /\ MReq = <<>> /\ MRsp = <<>> /\ DOMAIN fifo = Fifos
  BY DEF Init, PReq, PUpd, PRsp, MReq, MRsp, Fifos
<1>4. fsm.state = "MAIN"
  BY DEF Init
<1>5. Types
  <2>1. Queued(script)
    BY RetransAssumption DEF Init, Queued
  <2>2. Queued(in)
    <3>1. \A k \in Kinds : <<>> \in Seq(Operations(k))
      OBVIOUS
    <3> QED
      BY <3>1 DEF Init, Queued
  <2>3. FsmTypes
    <3>1. "MAIN" \in States /\ <<>> \in Seq(AnyOp)
      BY DEF States
    <3> QED
      BY <1>1, <1>2, <3>1 DEF Init, FsmTypes
  <2>4. HoldsOp
    BY <1>4 DEF HoldsOp
  <2>5. PtrTypes
    BY <1>2 DEF Init, PtrTypes
  <2>6. MetaTypes
    BY <1>2 DEF Init, MetaTypes, Table
  <2>7. FreeTypes
    <3>1. 0 \in 0 .. TableSize /\ <<>> \in Seq(Indices)
      BY <1>1
    <3> QED
      BY <3>1 DEF Init, FreeTypes
  <2>8. FifoTypes
    BY <1>3 DEF FifoTypes
  <2> QED
    BY <2>1, <2>2, <2>3, <2>4, <2>5, <2>6, <2>7, <2>8 DEF Types
<1>6. Control
  <2>1. Asked
    BY <1>3, <1>4, Singles DEF Asked, Asking
  <2>2. Locked
    BY <1>3, <1>4 DEF Locked, LockHeld, Locking, Init
  <2>3. Register
    BY <1>4 DEF Register
  <2>4. Reading
    BY <1>3, <1>4, Singles DEF Reading, Walking
  <2> QED
    BY <2>1, <2>2, <2>3, <2>4 DEF Control
<1>7. \A q \in Qps : PtrOf(q) = NoPtr
  BY <1>3, <1>5, <1>6, PtrInTable DEF Init
<1>8. \A q \in Qps : Chain(q) = <<>>
  BY <1>2, <1>7 DEF Chain, Walk
<1>9. Lists
  <2>1. <<>> \in Seq(Indices) /\ \A k \in 1 .. Len(<<>>) : FALSE
    OBVIOUS
  <2>2. \A k \in 1 .. Len(<<>>) - 1 : FALSE
    OBVIOUS
  <2> QED
    BY <1>2, <1>7, <1>8, <2>1, <2>2 DEF Lists, IsList, EndsWell
<1>10. Ledger(Places)
  <2>1. /\ Places[FreeTag] = <<>> /\ Places[ReleaseTag] = <<>>
        /\ Places[HandTag] = <<>> /\ Places[UnusedTag] = Unused
        /\ \A q \in Qps : Places[ListTag(q)] = <<>>
    BY <1>4, <1>8, PlacesAre DEF PlacesFacts, Init, Hand
  <2>2. /\ Len(Unused) = TableSize
        /\ \A k \in 1 .. TableSize : Unused[k] = k - 1
    <3>1. free.counter = 0 /\ TableSize - 0 = TableSize
      BY <1>1 DEF Init
    <3>2. /\ Len(Unused) = TableSize - 0
          /\ \A k \in 1 .. TableSize - 0 : Unused[k] = 0 + k - 1
      BY <1>5, <3>1, UnusedIs DEF UnusedFacts
    <3> QED
      BY <1>1, <3>1, <3>2
  <2>3. \A x \in Tags : x # UnusedTag => Places[x] = <<>>
    BY <2>1, TagFacts
  <2>4. \A x \in Tags : \A k \in 1 .. Len(Places[x]) : x = UnusedTag
    <3>1. \A k \in 1 .. Len(<<>>) : FALSE
      OBVIOUS
    <3> QED
      BY <2>3, <3>1
  <2>5. ASSUME NEW i \in Indices
        PROVE  \E x \in Tags : \E k \in 1 .. Len(Places[x]) : Places[x][k] = i
    <3>1. i + 1 \in 1 .. TableSize /\ (i + 1) - 1 = i
      BY <1>1 DEF Indices
    <3>2. i + 1 \in 1 .. Len(Places[UnusedTag]) /\ Places[UnusedTag][i + 1] = i
      BY <2>1, <2>2, <3>1
    <3> QED
      BY <3>2, TagFacts
  <2>6. ASSUME NEW x \in Tags, NEW y \in Tags, NEW j \in 1 .. Len(Places[x]), NEW k \in 1 .. Len(Places[y]),
               Places[x][j] = Places[y][k]
        PROVE  x = y /\ j = k
    <3>1. x = UnusedTag /\ y = UnusedTag
      BY <2>4
    <3>2. j \in 1 .. TableSize /\ k \in 1 .. TableSize /\ Unused[j] = Unused[k]
      BY <2>1, <2>2, <2>6, <3>1
    <3>3. j - 1 = k - 1
      BY <2>2, <3>2
    <3> QED
      BY <1>1, <3>1, <3>2, <3>3
  <2> QED
    BY <2>5, <2>6 DEF Ledger
<1>11. InList
  BY <1>4 DEF InList, Walking
<1> QED
  BY <1>5, <1>6, <1>9, <1>10, <1>11 DEF Inv

LEMMA StepInv == Inv /\ [Next]_vars => Inv'
<1> SUFFICES ASSUME Types, Control, ListInv, [Next]_vars PROVE Types' /\ Control' /\ ListInv'
  BY DEF Inv, ListInv
<1>1. CASE Arrive
  BY <1>1, ArriveEffect, ControlFrame, ArriveLists
<1>2. CASE PtrUpdate
  BY <1>2, PtrUpdateEffect, PtrUpdateControl, PtrUpdateLists
<1>3. CASE PtrRequest
  BY <1>3, PtrRequestEffect, PtrRequestControl, PtrRequestLists
<1>4. CASE MetaTable
  BY <1>4, MetaTableEffect, MetaTableControl, MetaTableLists
<1>5. CASE FreeList
  BY <1>5, FreeListEffect, ControlFrame, FreeListLists
<1>6. CASE MainUpdate
  BY <1>6, MainUpdateEffect, MainUpdateControl, MainUpdateLists
<1>7. CASE MainNak
  BY <1>7, MainNakEffect, MainNakControl, MainNakLists
<1>8. CASE MainTimeout
  BY <1>8, MainTimeoutEffect, MainTimeoutControl, MainTimeoutLists
<1>9. CASE MainInsert
  BY <1>9, MainInsertEffect, MainInsertControl, MainInsertLists
<1>10. CASE Insert0First
  BY <1>10, Insert0FirstEffect, Insert0FirstControl, Insert0FirstLists
<1>11. CASE Insert0Append
  BY <1>11, Insert0AppendEffect, Insert0AppendControl, Insert0AppendLists
<1>12. CASE Insert1
  BY <1>12, Insert1Effect, Insert1Control, Insert1Lists
<1>13. CASE Update0
  BY <1>13, Update0Effect, Update0Control, Update0Lists
<1>14. CASE Update1Keep
  BY <1>14, Update1KeepEffect, Update1KeepControl, Update1KeepLists
<1>15. CASE Update1Release
  BY <1>15, Update1ReleaseEffect, Update1ReleaseControl, Update1ReleaseLists
<1>16. CASE Retrans0
  BY <1>16, StartRetransEffect, StartRetransControl, StartRetransLists DEF Retrans0
<1>17. CASE TimerRetrans0
  BY <1>17, StartRetransEffect, StartRetransControl, StartRetransLists DEF TimerRetrans0
<1>18. CASE Retrans1
  BY <1>18, Retrans1Effect, Retrans1Control, Retrans1Lists
<1>19. CASE Retrans2
  BY <1>19, Retrans2Effect, Retrans2Control, Retrans2Lists
<1>20. CASE UNCHANGED vars
  <2>1. UNCHANGED <<script, in, fsm, ptr, meta, free, fifo>>
    BY <1>20 DEF vars
  <2>2. Types'
    BY <2>1, TypeFrame DEF Types
  <2>3. Control'
    BY <2>1, ControlFrame
  <2>4. MetaNow' = MetaNow /\ Hand' = Hand /\ MReq' = MReq /\ MRsp' = MRsp /\ PUpd' = PUpd
    BY <2>1, NowSame DEF MReq, MRsp, PUpd, Hand
  <2> QED
    BY <2>1, <2>2, <2>3, <2>4, PtrsSame, QuietStep, InListFrame DEF ListInv
<1> QED
  BY <1>1, <1>2, <1>3, <1>4, <1>5, <1>6, <1>7, <1>8, <1>9, <1>10, <1>11, <1>12, <1>13, <1>14,
     <1>15, <1>16, <1>17, <1>18, <1>19, <1>20 DEF Next, Tables, Process

LEMMA InvHolds == Spec => []Inv
  BY InitInv, StepInv, PTL DEF Spec

(* A locking request of retrans_pointer_table always finds the lock free:  *)
(* the client that holds it writes the pointer back before it asks for the *)
(* next one, and the table takes updates first.                            *)
THEOREM LockCorrect == Spec => []LockFree
<1>1. Inv => LockFree
  <2> SUFFICES ASSUME Control PROVE LockFree
    BY DEF Inv
  <2>1. ptr.wait = <<>>
    BY DEF Control, Locked
  <2>2. ASSUME fsm.state = "MAIN", PUpd = <<>> PROVE ptr.locked = <<>>
    BY <2>2 DEF Control, Locked, LockHeld, Locking
  <2> QED
    BY <2>1, <2>2 DEF LockFree, PUpd
<1> QED
  BY <1>1, InvHolds, PTL

(* No index of the entry table is lost and none is used twice, however the *)
(* pointer updates, the entry requests and the free list are delayed, and  *)
(* no walk ever reads an entry that was not written.                       *)
THEOREM IndicesCorrect == Spec => []IndicesConserved
<1>1. Inv => IndicesConserved
  <2> SUFFICES ASSUME Inv PROVE IndicesConserved
    OBVIOUS
  <2> DEFINE at == Places
             filled == UNION {{at[x][k] : k \in DOMAIN at[x]} : x \in Tags}
             Once == \A x, y \in Tags : \A j \in DOMAIN at[x], k \in DOMAIN at[y] :
                       at[x][j] = at[y][k] => x = y /\ j = k
  <2>1. at \in [Tags -> Seq(Indices)] /\ Ledger(at)
    BY TypedLists, PlacesType DEF Inv, PlacesTyped
  <2>2. ASSUME MRsp # <<>> PROVE Head(MRsp).valid
    <3>1. Types /\ Control /\ ListInv
      BY DEF Inv, ListInv
    <3>2. fsm.state \in Walking /\ Head(MRsp) = MRsp[1]
      BY <2>2, <3>1, Answered2, MetaAnswer
    <3>3. PICK r \in Qps : r = Qpn
      BY <3>1, <3>2, StateOp DEF Walking
    <3>4. IsList(PtrOf(r), MetaNow, Chain(r))
      BY <3>1 DEF ListInv, Lists
    <3>5. \E k \in 1 .. Len(Chain(r)) : MRsp[1] = MetaNow[Chain(r)[k]]
      BY <2>2, <3>1, <3>3, WalkAnswer
    <3> QED
      BY <3>2, <3>4, <3>5 DEF IsList
  <2>3. MRsp = fifo["metaRsp"]
    BY DEF MRsp
  <2>4. IndicesConserved <=>
           /\ filled = Indices /\ Once
           /\ fifo["metaRsp"] # <<>> => Head(fifo["metaRsp"]).valid
    BY DEF IndicesConserved
  <2> HIDE DEF at
  <2>5. \A x \in Tags : DOMAIN at[x] = 1 .. Len(at[x]) /\ \A k \in 1 .. Len(at[x]) : at[x][k] \in Indices
    BY <2>1
  <2>6. filled = Indices
    <3>1. ASSUME NEW i \in Indices PROVE i \in filled
      <4>1. PICK x \in Tags : \E k \in 1 .. Len(at[x]) : at[x][k] = i
        BY <2>1 DEF Ledger
      <4> QED
        BY <2>5, <4>1
    <3>2. ASSUME NEW i \in filled PROVE i \in Indices
      <4>1. PICK x \in Tags : i \in {at[x][k] : k \in DOMAIN at[x]}
        OBVIOUS
      <4> QED
        BY <2>5, <4>1
    <3> QED
      BY <3>1, <3>2
  <2>7. Once
    <3> SUFFICES ASSUME NEW x \in Tags, NEW y \in Tags, NEW j \in DOMAIN at[x], NEW k \in DOMAIN at[y],
                        at[x][j] = at[y][k]
                 PROVE  x = y /\ j = k
      OBVIOUS
    <3>1. j \in 1 .. Len(at[x]) /\ k \in 1 .. Len(at[y])
      BY <2>5
    <3>2. \A b \in 1 .. Len(at[x]), c \in 1 .. Len(at[y]) : at[x][b] = at[y][c] => x = y /\ b = c
      BY <2>1 DEF Ledger
    <3> QED
      BY <3>1, <3>2
  <2> HIDE DEF filled, Once
  <2> QED
    BY <2>2, <2>3, <2>4, <2>6, <2>7
<1> QED
  BY <1>1, InvHolds, PTL

-----------------------------------------------------------------------------
(* The retransmitter implements RetransQueue *)

(* A walk that looks for a PSN has not passed it.                          *)
Sought ==
  fsm.state = "RETRANS_1" =>
    \A k \in 1 .. Len(Chain(Qpn)) : WalkAt(k) =>
       \A j \in 1 .. k - 1 : MetaNow[Chain(Qpn)[j]].e.psn # fsm.op[1].psn

-----------------------------------------------------------------------------
(* RetransQueue takes its operators on lists, and Cardinality, from the same *)
(* modules.                                                                  *)

LEMMA QueueCardinality == \A S : Queue!Cardinality(S) = Cardinality(S)
  BY DEF Queue!Cardinality, Cardinality

LEMMA QueueIndexOf == \A s, psn : Queue!IndexOf(s, psn) = IndexOf(s, psn)
  BY DEF Queue!IndexOf, Queue!SelectInSeq, Queue!Min, IndexOf, SelectInSeq, Min

LEMMA QueueLists ==
  /\ Queue!ForwardsAddress = ForwardsAddress
  /\ \A s, op : Queue!Answered(s, op) = Answered(s, op)
  /\ \A s, psn : Queue!SuffixFrom(s, psn) = SuffixFrom(s, psn)
<1>1. Queue!ForwardsAddress = ForwardsAddress /\ Queue!KeepsEntry = KeepsEntry
  BY DEF Queue!ForwardsAddress, ForwardsAddress, Queue!KeepsEntry, KeepsEntry
<1>2. \A e : Queue!Advanced(e) = Advanced(e)
  BY DEF Queue!Advanced, Advanced
<1>3. \A s, op : Queue!Answered(s, op) = Answered(s, op)
  BY <1>1, <1>2 DEF Queue!Answered, Answered
<1>4. \A s, psn : Queue!SuffixFrom(s, psn) = SuffixFrom(s, psn)
  BY QueueIndexOf DEF Queue!SuffixFrom, SuffixFrom
<1> QED
  BY <1>1, <1>3, <1>4

-----------------------------------------------------------------------------
(* Lists of requests *)

(* Where the first request with a PSN is. *)
LEMMA IndexOfIs ==
  ASSUME NEW s \in Seq(Request), NEW psn
  PROVE  /\ (\A j \in 1 .. Len(s) : s[j].psn # psn) => IndexOf(s, psn) = 0
         /\ \A k \in 1 .. Len(s) :
              s[k].psn = psn /\ (\A j \in 1 .. k - 1 : s[j].psn # psn) => IndexOf(s, psn) = k
<1> DEFINE I == {i \in 1 .. Len(s) : s[i].psn = psn}
<1>1. IndexOf(s, psn) = IF I # {} THEN Min(I) ELSE 0
  BY DEF IndexOf, SelectInSeq
<1>2. ASSUME NEW k \in 1 .. Len(s), s[k].psn = psn, \A j \in 1 .. k - 1 : s[j].psn # psn
      PROVE  Min(I) = k
  <2>1. k \in I /\ \A y \in I : y \in Int /\ k <= y
    <3>1. ASSUME NEW y \in I PROVE y \in Int /\ k <= y
      <4>1. y \in 1 .. Len(s) /\ s[y].psn = psn
        OBVIOUS
      <4>2. y \notin 1 .. k - 1
        BY <1>2, <4>1
      <4> QED
        BY <4>1, <4>2
    <3> QED
      BY <1>2, <3>1
  <2> HIDE DEF I
  <2>2. \A x \in I : (\A y \in I : x =< y) => x = k
    BY <2>1
  <2> QED
    BY <2>1, <2>2 DEF Min
<1>3. ASSUME NEW k \in 1 .. Len(s), s[k].psn = psn, \A j \in 1 .. k - 1 : s[j].psn # psn
      PROVE  IndexOf(s, psn) = k
  BY <1>1, <1>2, <1>3
<1>4. (\A j \in 1 .. Len(s) : s[j].psn # psn) => I = {}
  OBVIOUS
<1> QED
  BY <1>1, <1>3, <1>4

(* What is left of a list from an entry on. *)
LEMMA SuffixIs ==
  ASSUME NEW s \in Seq(Request), NEW k \in 1 .. Len(s)
  PROVE  LET t == SubSeq(s, k, Len(s))
         IN /\ t # <<>> /\ Head(t) = s[k]
            /\ k = Len(s) => Tail(t) = <<>>
            /\ k # Len(s) => Tail(t) = SubSeq(s, k + 1, Len(s))
<1> DEFINE n == Len(s)
           t == SubSeq(s, k, n)
<1>1. n \in Nat /\ n \in k .. n /\ k \in Int /\ n \in Int
  OBVIOUS
<1>2. Head(t) = s[k] /\ Tail(t) = SubSeq(s, k + 1, n)
  BY <1>1, HeadTailOfSubSeq
<1>3. Len(t) = n - k + 1
  <2>1. \A i \in k .. n : s[i] \in Request
    BY <1>1
  <2>2. Len(t) = IF k <= n THEN n - k + 1 ELSE 0
    BY <1>1, <2>1, SubSeqProperties
  <2> QED
    BY <1>1, <2>2
<1>4. t # <<>>
  <2>1. Len(t) # 0
    BY <1>1, <1>3
  <2> QED
    BY <2>1, Singles
<1>5. k = n => SubSeq(s, k + 1, n) = <<>>
  <2>1. k = n => n < k + 1 /\ k + 1 \in Int
    BY <1>1
  <2> QED
    BY <1>1, <2>1, SubSeqEmpty
<1> QED
  BY <1>2, <1>4, <1>5

LEMMA SuffixFromIs ==
  ASSUME NEW s \in Seq(Request), NEW psn
  PROVE  /\ s = <<>> => SuffixFrom(s, psn) = <<>>
         /\ \A k \in 1 .. Len(s) :
              s[k].psn = psn /\ (\A j \in 1 .. k - 1 : s[j].psn # psn)
                => SuffixFrom(s, psn) = SubSeq(s, k, Len(s))
<1>1. s = <<>> => IndexOf(s, psn) = 0
  <2>1. s = <<>> => \A j \in 1 .. Len(s) : s[j].psn # psn
    OBVIOUS
  <2> QED
    BY <2>1, IndexOfIs
<1>2. ASSUME NEW k \in 1 .. Len(s), s[k].psn = psn, \A j \in 1 .. k - 1 : s[j].psn # psn
      PROVE  SuffixFrom(s, psn) = SubSeq(s, k, Len(s))
  <2>1. IndexOf(s, psn) = k /\ k # 0
    BY <1>2, IndexOfIs
  <2> QED
    BY <2>1 DEF SuffixFrom
<1> QED
  BY <1>1, <1>2 DEF SuffixFrom

-----------------------------------------------------------------------------
(* The lists of the queue pairs *)

EntriesFacts ==
  Types /\ Lists =>
    \A q \in Qps : /\ Entries(q) \in Seq(Request) /\ Len(Entries(q)) = Len(Chain(q))
                   /\ Len(Chain(q)) \in Nat /\ (Chain(q) = <<>> <=> Entries(q) = <<>>)
                   /\ \A k \in 1 .. Len(Chain(q)) : Entries(q)[k] = MetaNow[Chain(q)[k]].e
LEMMA EntriesAre == EntriesFacts
<1> SUFFICES ASSUME Types, Lists, NEW q \in Qps
             PROVE  /\ Entries(q) \in Seq(Request) /\ Len(Entries(q)) = Len(Chain(q))
                    /\ Len(Chain(q)) \in Nat /\ (Chain(q) = <<>> <=> Entries(q) = <<>>)
                    /\ \A k \in 1 .. Len(Chain(q)) : Entries(q)[k] = MetaNow[Chain(q)[k]].e
  BY DEF EntriesFacts
<1> DEFINE c == Chain(q)
           t == MetaNow
<1>1. c \in Seq(Indices) /\ \A k \in 1 .. Len(c) : t[c[k]].valid
  BY DEF Lists, IsList
<1>2. t \in Table
  BY NowType DEF NowFacts
<1>3. Entries(q) = [k \in DOMAIN c |-> t[c[k]].e]
  BY DEF Entries
<1> HIDE DEF c, t
<1>4. DOMAIN c = 1 .. Len(c) /\ Len(c) \in Nat
  BY <1>1
<1>5. ASSUME NEW k \in 1 .. Len(c) PROVE t[c[k]].e \in Request
  <2>1. c[k] \in Indices
    BY <1>1
  <2>2. t[c[k]] \in MetaEntry
    BY <1>2, <2>1 DEF Table
  <2> QED
    BY <1>1, <2>2 DEF MetaEntry
<1>6. Entries(q) \in [1 .. Len(c) -> Request]
  BY <1>3, <1>4, <1>5
<1>7. Entries(q) \in Seq(Request) /\ Len(Entries(q)) = Len(c)
  BY <1>4, <1>6, FunctionIsSeq
<1>8. \A k \in 1 .. Len(c) : Entries(q)[k] = t[c[k]].e
  BY <1>3, <1>4
<1>9. c = <<>> <=> Entries(q) = <<>>
  BY <1>1, <1>7, LenZero, Singles
<1> QED
  BY <1>4, <1>7, <1>8, <1>9 DEF c, t

LEMMA EntriesAreNext == EntriesFacts'
  BY EntriesAre, PTL

LEMMA EntriesSame ==
  ASSUME Types, Lists, Types', Lists', NEW q \in Qps, Chain(q)' = Chain(q),
         \A k \in 1 .. Len(Chain(q)) : MetaNow'[Chain(q)[k]].e = MetaNow[Chain(q)[k]].e
  PROVE  Entries(q)' = Entries(q)
<1> DEFINE c == Chain(q)
           a == Entries(q)
           b == Entries(q)'
<1>1. a \in Seq(Request) /\ Len(a) = Len(c) /\ \A k \in 1 .. Len(c) : a[k] = MetaNow[c[k]].e
  BY EntriesAre DEF EntriesFacts
<1>2. b \in Seq(Request) /\ Len(b) = Len(c) /\ \A k \in 1 .. Len(c) : b[k] = MetaNow'[c[k]].e
  BY EntriesAreNext DEF EntriesFacts
<1>3. \A k \in 1 .. Len(c) : MetaNow'[c[k]].e = MetaNow[c[k]].e
  OBVIOUS
<1> HIDE DEF a, b, c
<1>4. \A k \in 1 .. Len(a) : a[k] = b[k]
  BY <1>1, <1>2, <1>3
<1>5. a = b
  BY <1>1, <1>2, <1>4, SameSeq
<1> QED
  BY <1>5 DEF a, b

LEMMA EntriesStay ==
  ASSUME Types, Lists, Types', Lists', Stay
  PROVE  \A q \in Qps : Entries(q)' = Entries(q)
  BY EntriesSame DEF Stay

-----------------------------------------------------------------------------
(* Where a walk is *)

(* A walk is at one entry, and Position finds it. *)
WalkFacts ==
  Types /\ Control /\ ListInv /\ fsm.state \in Walking =>
    \A k \in 1 .. Len(Chain(Qpn)) : WalkAt(k) =>
       /\ Position = k
       /\ \A j \in 1 .. Len(Chain(Qpn)) : WalkAt(j) => j = k
LEMMA WalkIsAt == WalkFacts
<1> SUFFICES ASSUME Types, Control, ListInv, fsm.state \in Walking,
                    NEW k \in 1 .. Len(Chain(Qpn)), WalkAt(k)
             PROVE  /\ Position = k
                    /\ \A j \in 1 .. Len(Chain(Qpn)) : WalkAt(j) => j = k
  BY DEF WalkFacts
<1> PICK r \in Qps : r = Qpn
  BY StateOp DEF Walking
<1> DEFINE c == Chain(r)
           m == MRsp[1]
           At(j) == IF MRsp # <<>> THEN AnswerIsAt(c, j) ELSE c[j] = Last(MReq).idx
<1>1. IsList(PtrOf(r), MetaNow, c) /\ EndsWell(r, MetaNow, c) /\ ~Growing(r)
  BY DEF ListInv, Lists, Growing, Walking
<1>2. c \in Seq(Indices) /\ Len(c) \in Nat /\ DOMAIN c = 1 .. Len(c) /\ c # <<>> /\ k \in 1 .. Len(c)
  <2>1. c \in Seq(Indices)
    BY <1>1 DEF IsList
  <2> QED
    BY <2>1
<1>3. \A i, j \in 1 .. Len(c) : c[i] = c[j] => i = j
  BY ListsApart DEF ApartFacts, Apart, ListInv, Injective
<1>4. Position = CHOOSE j \in DOMAIN c : At(j)
  BY DEF Position, MRsp, MReq
<1>5. ASSUME NEW j \in 1 .. Len(c)
      PROVE  /\ MetaNow[c[j]].isTail => j = Len(c)
             /\ ~MetaNow[c[j]].isTail => j < Len(c) /\ MetaNow[c[j]].next = c[j + 1]
             /\ j = Len(c) => MetaNow[c[j]].isTail
  <2>1. CASE j = Len(c)
    BY <1>1, <1>2, <2>1 DEF EndsWell
  <2>2. CASE j # Len(c)
    <3>1. j \in 1 .. Len(c) - 1 /\ j < Len(c)
      <4>1. Len(c) \in Nat /\ j \in Nat /\ 1 <= j /\ j <= Len(c)
        BY <1>2
      <4> HIDE DEF c
      <4> QED
        BY <2>2, <4>1
    <3>2. MetaNow[c[j]].next = c[j + 1] /\ ~MetaNow[c[j]].isTail
      BY <1>1, <3>1 DEF IsList
    <3> QED
      BY <2>2, <3>1, <3>2
  <2> QED
    BY <2>1, <2>2
<1>6. ASSUME NEW j \in 1 .. Len(c), WalkAt(j) PROVE At(j)
  <2>1. CASE MRsp # <<>>
    <3>1. m = MetaNow[c[j]] /\ Head(MRsp) = m
      BY <1>6, <2>1, MetaAnswer DEF WalkAt
    <3>2. AnswerIsAt(c, j) <=> IF m.isTail THEN j = Len(c) ELSE j < Len(c) /\ c[j + 1] = m.next
      BY <3>1 DEF AnswerIsAt, MRsp
    <3> HIDE DEF m, c
    <3> QED
      BY <1>5, <2>1, <3>1, <3>2
  <2>2. CASE MRsp = <<>>
    <3>1. MReq[Len(MReq)].idx = c[j]
      BY <1>6, <2>2 DEF WalkAt
    <3> QED
      BY <2>2, <3>1 DEF Last
  <2> QED
    BY <2>1, <2>2
<1>7. ASSUME NEW i \in 1 .. Len(c), NEW j \in 1 .. Len(c), At(i), At(j) PROVE i = j
  <2>1. CASE MRsp # <<>>
    <3>1. Head(MRsp) = m
      BY <2>1, MetaAnswer
    <3>2. AnswerIsAt(c, i) /\ AnswerIsAt(c, j)
      BY <1>7, <2>1
    <3>3. \A x : AnswerIsAt(c, x) <=> IF m.isTail THEN x = Len(c) ELSE x < Len(c) /\ c[x + 1] = m.next
      BY <3>1 DEF AnswerIsAt, MRsp
    <3>4. CASE m.isTail
      BY <3>2, <3>3, <3>4
    <3>5. CASE ~m.isTail
      <4>1. i + 1 \in 1 .. Len(c) /\ j + 1 \in 1 .. Len(c) /\ c[i + 1] = c[j + 1]
        <5> HIDE DEF m, c
        <5> QED
          BY <1>2, <3>2, <3>3, <3>5
      <4>2. i + 1 = j + 1
        BY <1>3, <4>1
      <4> QED
        BY <4>2
    <3> QED
      BY <3>4, <3>5
  <2>2. CASE MRsp = <<>>
    BY <1>3, <1>7, <2>2
  <2> QED
    BY <2>1, <2>2
<1>8. At(k)
  BY <1>2, <1>6
<1>9. \A j \in 1 .. Len(c) : WalkAt(j) => j = k
  BY <1>2, <1>6, <1>7, <1>8
<1>10. Position = k
  <2> HIDE DEF At, c
  <2> QED
    BY <1>2, <1>4, <1>7, <1>8
<1> QED
  BY <1>9, <1>10

LEMMA WalkIsAtNext == WalkFacts'
  BY WalkIsAt, PTL

-----------------------------------------------------------------------------
(* The abstract state, by the state of process_retransmissions *)

EntryLists == [q \in Qps |-> Entries(q)]
Inserted == [q \in Qps |-> IF q = Qpn THEN Append(Entries(q), fsm.op[1].entry) ELSE Entries(q)]
Credited == [q \in Qps |-> IF q = Qpn THEN Answered(Entries(q), fsm.op[1].op) ELSE Entries(q)]
NoPending == AbsPending = <<>> /\ AbsLost = FALSE
AbsFacts ==
  /\ fsm.state = "MAIN" => AbsList = EntryLists /\ NoPending /\ AbsInit = init
  /\ fsm.state \in {"INSERT_0", "INSERT_1"} => AbsList = Inserted /\ NoPending /\ AbsInit = init
  /\ fsm.state \in Updating =>
       /\ AbsList = Credited /\ NoPending
       /\ AbsInit = IF Entries(Qpn) # <<>> /\ fsm.op[1].op \in ForwardsAddress
                    THEN Append(init, Head(Entries(Qpn)).laddr) ELSE init
  /\ fsm.state \in {"RETRANS_0", "RETRANS_1"} =>
       /\ AbsList = EntryLists /\ AbsInit = init
       /\ AbsPending = SuffixFrom(Entries(Qpn), fsm.op[1].psn)
       /\ AbsLost = (Entries(Qpn) # <<>> /\ IndexOf(Entries(Qpn), fsm.op[1].psn) = 0)
  /\ fsm.state = "TIMER_RETRANS_0" =>
       AbsList = EntryLists /\ AbsInit = init /\ AbsPending = Entries(Qpn) /\ AbsLost = FALSE
  /\ fsm.state = "RETRANS_2" =>
       /\ AbsList = EntryLists /\ AbsInit = init /\ AbsLost = FALSE
       /\ AbsPending = SubSeq(Entries(Qpn), Position, Len(Entries(Qpn)))
LEMMA AbsIs == AbsFacts
<1>1. fsm.state = "MAIN" => AbsList = EntryLists /\ NoPending /\ AbsInit = init
  BY DEF AbsList, Doing, Updating, EntryLists, NoPending, AbsPending, AbsLost, AbsInit
<1>2. fsm.state \in {"INSERT_0", "INSERT_1"} => AbsList = Inserted /\ NoPending /\ AbsInit = init
  BY DEF AbsList, Doing, Updating, Inserted, NoPending, AbsPending, AbsLost, AbsInit
<1>3. fsm.state \in Updating => AbsList = Credited /\ NoPending
  BY DEF AbsList, Doing, Updating, Credited, NoPending, AbsPending, AbsLost
<1>4. fsm.state \in Updating =>
        AbsInit = IF Entries(Qpn) # <<>> /\ fsm.op[1].op \in ForwardsAddress
                  THEN Append(init, Head(Entries(Qpn)).laddr) ELSE init
  BY DEF AbsInit
<1>5. fsm.state \in {"RETRANS_0", "RETRANS_1", "TIMER_RETRANS_0", "RETRANS_2"} =>
        AbsList = EntryLists /\ AbsInit = init
  BY DEF AbsList, Doing, Updating, EntryLists, AbsInit
<1>6. fsm.state \in {"RETRANS_0", "RETRANS_1"} =>
       /\ AbsPending = SuffixFrom(Entries(Qpn), fsm.op[1].psn)
       /\ AbsLost = (Entries(Qpn) # <<>> /\ IndexOf(Entries(Qpn), fsm.op[1].psn) = 0)
  BY DEF AbsPending, AbsLost
<1>7. fsm.state = "TIMER_RETRANS_0" => AbsPending = Entries(Qpn) /\ AbsLost = FALSE
  BY DEF AbsPending, AbsLost
<1>8. fsm.state = "RETRANS_2" =>
        AbsLost = FALSE /\ AbsPending = SubSeq(Entries(Qpn), Position, Len(Entries(Qpn)))
  BY DEF AbsPending, AbsLost
<1> QED
  BY <1>1, <1>2, <1>3, <1>4, <1>5, <1>6, <1>7, <1>8 DEF AbsFacts

LEMMA AbsIsNext == AbsFacts'
  BY AbsIs, PTL

(* A step that the abstract state does not show. *)
Stutters == UNCHANGED <<script, in, AbsList, AbsPending, events, AbsInit, AbsLost>>

(* A step that leaves the state machine, the lists and the walk where they are. *)
LEMMA SameAbs ==
  ASSUME Types, Types', fsm' = fsm, init' = init, \A q \in Qps : Entries(q)' = Entries(q),
         fsm.state = "RETRANS_2" => Position' = Position
  PROVE  AbsList' = AbsList /\ AbsPending' = AbsPending /\ AbsInit' = AbsInit /\ AbsLost' = AbsLost
<1>1. Qpn' = Qpn /\ (fsm.state # "MAIN" => Qpn \in Qps)
  BY StateOp DEF Qpn
<1>2. EntryLists' = EntryLists
  BY DEF EntryLists
<1>3. Inserted' = Inserted /\ Credited' = Credited
  BY <1>1 DEF Inserted, Credited
<1>4. fsm.state # "MAIN" => Entries(Qpn)' = Entries(Qpn)
  BY <1>1
<1>5. fsm.state \in States
  BY FsmFields
<1>6. CASE fsm.state = "MAIN"
  BY <1>2, <1>6, AbsIs, AbsIsNext DEF AbsFacts, NoPending
<1>7. CASE fsm.state \in {"INSERT_0", "INSERT_1"}
  BY <1>3, <1>7, AbsIs, AbsIsNext DEF AbsFacts, NoPending
<1>8. CASE fsm.state \in Updating
  BY <1>3, <1>4, <1>8, AbsIs, AbsIsNext DEF AbsFacts, NoPending, Updating
<1>9. CASE fsm.state \in {"RETRANS_0", "RETRANS_1"}
  BY <1>2, <1>4, <1>9, AbsIs, AbsIsNext DEF AbsFacts
<1>10. CASE fsm.state = "TIMER_RETRANS_0"
  BY <1>2, <1>4, <1>10, AbsIs, AbsIsNext DEF AbsFacts
<1>11. CASE fsm.state = "RETRANS_2"
  BY <1>2, <1>4, <1>11, AbsIs, AbsIsNext DEF AbsFacts
<1> QED
  BY <1>5, <1>6, <1>7, <1>8, <1>9, <1>10, <1>11 DEF States, Asking, Walking, Updating

-----------------------------------------------------------------------------
(* Steps *)

(* The invariant on both sides of a step. *)
Both == Types /\ Control /\ ListInv /\ Types' /\ Control' /\ ListInv'

LEMMA SoughtIdle == fsm'.state # "RETRANS_1" => Sought'
  BY DEF Sought

(* Steps of the two tables and of the free list. *)
LEMMA TableSteps ==
  ASSUME Both, Sought, Stay, UNCHANGED <<script, in, fsm, events, init>>,
         (MReq' = MReq /\ MRsp' = MRsp) \/ MetaTable
  PROVE  Stutters /\ Sought'
<1>1. Types /\ Control /\ ListInv /\ Types' /\ Control' /\ ListInv'
  BY DEF Both
<1>2. Qpn' = Qpn /\ (fsm.state \in Walking => Qpn \in Qps)
  BY <1>1, StateOp DEF Qpn, Walking
<1>3. MetaNow' = MetaNow /\ (fsm.state \in Walking => Chain(Qpn)' = Chain(Qpn))
  BY <1>2 DEF Stay
<1>4. fsm.state \in Walking => \A k \in 1 .. Len(Chain(Qpn)) : WalkAt(k) => WalkAt(k)'
  <2>1. CASE MReq' = MReq /\ MRsp' = MRsp
    BY <1>2, <1>3, <2>1 DEF WalkAt
  <2>2. CASE MetaTable
    BY <1>1, <2>2, MetaTableWalk
  <2> QED
    BY <2>1, <2>2
<1>5. \A q \in Qps : Entries(q)' = Entries(q)
  BY <1>1, EntriesStay DEF ListInv
<1>6. fsm.state = "RETRANS_2" => Position' = Position
  <2> SUFFICES ASSUME fsm.state = "RETRANS_2" PROVE Position' = Position
    OBVIOUS
  <2>1. fsm.state \in Walking /\ (MRsp # <<>> \/ MReq # <<>>)
    BY <1>1 DEF Control, Reading, Walking
  <2>2. PICK k \in 1 .. Len(Chain(Qpn)) : WalkAt(k)
    BY <1>1, <2>1 DEF ListInv, InList
  <2>3. Position = k
    BY <1>1, <2>1, <2>2, WalkIsAt DEF WalkFacts
  <2>4. k \in 1 .. Len(Chain(Qpn))' /\ WalkAt(k)' /\ fsm'.state \in Walking
    BY <1>3, <1>4, <2>1, <2>2
  <2>5. Position' = k
    BY <1>1, <2>4, WalkIsAtNext DEF WalkFacts
  <2> QED
    BY <2>3, <2>5
<1>7. Stutters
  BY <1>1, <1>5, <1>6, SameAbs DEF Stutters
<1>8. Sought'
  <2> SUFFICES ASSUME fsm.state = "RETRANS_1", NEW k \in 1 .. Len(Chain(Qpn)), WalkAt(k)',
                      NEW j \in 1 .. k - 1
               PROVE  MetaNow[Chain(Qpn)[j]].e.psn # fsm.op[1].psn
    BY <1>2, <1>3 DEF Sought, Walking
  <2>1. fsm.state \in Walking /\ fsm'.state \in Walking
    BY DEF Walking
  <2>2. MRsp # <<>> \/ MReq # <<>>
    <3>1. CASE MReq' = MReq /\ MRsp' = MRsp
      BY <3>1 DEF WalkAt
    <3>2. CASE MetaTable
      BY <1>1, <3>2, MetaTableEffect
    <3> QED
      BY <3>1, <3>2
  <2>3. PICK i \in 1 .. Len(Chain(Qpn)) : WalkAt(i)
    BY <1>1, <2>1, <2>2 DEF ListInv, InList
  <2>4. WalkAt(i)' /\ i \in 1 .. Len(Chain(Qpn))' /\ k \in 1 .. Len(Chain(Qpn))'
    BY <1>3, <1>4, <2>1, <2>3
  <2>5. i = k
    BY <1>1, <2>1, <2>4, WalkIsAtNext DEF WalkFacts
  <2> QED
    BY <2>3, <2>5 DEF Sought
<1> QED
  BY <1>7, <1>8

LEMMA ArriveAbs ==
  ASSUME Both, Sought, Arrive
  PROVE  Queue!Arrive /\ Sought'
<1>1. Types /\ Control /\ ListInv /\ Types' /\ Control' /\ ListInv'
  BY DEF Both
<1>2. UNCHANGED <<fsm, ptr, meta, free, fifo, events, init>>
  BY <1>1, ArriveEffect
<1>3. Stay
  BY <1>1, ArriveLists
<1>4. \A q \in Qps : Entries(q)' = Entries(q)
  BY <1>1, <1>3, EntriesStay DEF ListInv
<1>5. Qpn' = Qpn /\ (fsm.state # "MAIN" => Qpn \in Qps /\ Chain(Qpn)' = Chain(Qpn))
  BY <1>1, <1>2, <1>3, StateOp DEF Qpn, Stay
<1>6. fsm.state = "RETRANS_2" => Position' = Position
  BY <1>2, <1>5 DEF Position, AnswerIsAt
<1>7. AbsList' = AbsList /\ AbsPending' = AbsPending /\ AbsInit' = AbsInit /\ AbsLost' = AbsLost
  BY <1>1, <1>2, <1>4, <1>6, SameAbs
<1>8. Sought'
  BY <1>2, <1>3, <1>5 DEF Sought, Stay, WalkAt, MRsp, MReq
<1> QED
  BY <1>2, <1>7, <1>8 DEF Arrive, Queue!Arrive, Queue!Kinds, Kinds

(* process_retransmissions takes an operation. *)
LEMMA MainUpdateAbs ==
  ASSUME Both, MainUpdate
  PROVE  Queue!Update /\ Sought'
<1> DEFINE o == Head(in["upd"])
<1>1. Types /\ Control /\ ListInv /\ Types' /\ Control' /\ ListInv'
  BY DEF Both
<1>2. /\ UNCHANGED <<script, events, init>> /\ fsm.state = "MAIN" /\ in["upd"] # <<>> /\ o.qpn \in Qps
      /\ in' = [in EXCEPT !["upd"] = Tail(@)] /\ fsm'.state = "UPDATE_0" /\ fsm'.op = <<o>>
  BY <1>1, MainUpdateEffect DEF FsmStep
<1>3. \A q \in Qps : Entries(q)' = Entries(q)
  BY <1>1, MainUpdateLists, EntriesStay DEF ListInv
<1> HIDE DEF o
<1>4. fsm'.op[1] = o /\ Qpn' = o.qpn
  BY <1>2, Singles DEF Qpn
<1>5. AbsList = EntryLists /\ AbsPending = <<>> /\ AbsLost = FALSE /\ AbsInit = init
  BY <1>2, AbsIs DEF AbsFacts, NoPending
<1>6. /\ AbsList' = Credited' /\ AbsPending' = <<>> /\ AbsLost' = FALSE
      /\ AbsInit' = IF Entries(Qpn)' # <<>> /\ fsm'.op[1].op \in ForwardsAddress
                    THEN Append(init', Head(Entries(Qpn)').laddr) ELSE init'
  BY <1>2, AbsIsNext DEF AbsFacts, NoPending, Updating
<1>7. Entries(Qpn)' = Entries(o.qpn) /\ AbsList[o.qpn] = Entries(o.qpn)
  BY <1>2, <1>3, <1>4, <1>5 DEF EntryLists
<1>8. Credited' = [AbsList EXCEPT ![o.qpn] = Answered(@, o.op)]
  <2>1. Credited' = [q \in Qps |-> IF q = o.qpn THEN Answered(Entries(q), o.op) ELSE Entries(q)]
    BY <1>3, <1>4 DEF Credited
  <2>2. [AbsList EXCEPT ![o.qpn] = Answered(@, o.op)] =
          [q \in Qps |-> IF q = o.qpn THEN Answered(Entries(q), o.op) ELSE Entries(q)]
    BY <1>2, <1>5 DEF EntryLists
  <2> QED
    BY <2>1, <2>2
<1>9. Queue!Takes("upd", {})
  BY <1>2, <1>5 DEF Queue!Takes
<1>10. AbsInit' = IF AbsList[o.qpn] # <<>> /\ o.op \in ForwardsAddress
                  THEN Append(AbsInit, Head(AbsList[o.qpn]).laddr) ELSE AbsInit
  BY <1>2, <1>4, <1>5, <1>6, <1>7
<1>11. Queue!Update
  <2>1. AbsList' = [AbsList EXCEPT ![o.qpn] = Answered(@, o.op)]
    BY <1>6, <1>8
  <2> QED
    BY <1>2, <1>5, <1>6, <1>9, <1>10, <2>1, QueueLists DEF Queue!Update, o
<1>12. Sought'
  BY <1>2, SoughtIdle
<1> QED
  BY <1>11, <1>12

LEMMA MainNakAbs ==
  ASSUME Both, MainNak
  PROVE  Queue!Nak /\ Sought'
<1> DEFINE o == Head(in["nak"])
<1>1. Types /\ Control /\ ListInv /\ Types' /\ Control' /\ ListInv'
  BY DEF Both
<1>2. /\ UNCHANGED <<script, events, init>> /\ fsm.state = "MAIN" /\ in["nak"] # <<>> /\ o.qpn \in Qps
      /\ in' = [in EXCEPT !["nak"] = Tail(@)] /\ fsm'.state = "RETRANS_0" /\ fsm'.op = <<o>>
  BY <1>1, MainNakEffect DEF FsmStep
<1>3. \A q \in Qps : Entries(q)' = Entries(q)
  BY <1>1, MainNakLists, EntriesStay DEF ListInv
<1> HIDE DEF o
<1>4. fsm'.op[1] = o /\ Qpn' = o.qpn
  BY <1>2, Singles DEF Qpn
<1>5. AbsList = EntryLists /\ AbsPending = <<>> /\ AbsLost = FALSE /\ AbsInit = init
  BY <1>2, AbsIs DEF AbsFacts, NoPending
<1>6. /\ AbsList' = EntryLists' /\ AbsInit' = init'
      /\ AbsPending' = SuffixFrom(Entries(Qpn)', fsm'.op[1].psn)
      /\ AbsLost' = (Entries(Qpn)' # <<>> /\ IndexOf(Entries(Qpn)', fsm'.op[1].psn) = 0)
  BY <1>2, AbsIsNext DEF AbsFacts
<1>7. Entries(Qpn)' = AbsList[o.qpn] /\ EntryLists' = EntryLists
  BY <1>2, <1>3, <1>4, <1>5 DEF EntryLists
<1>8. Queue!Takes("nak", {"upd"})
  BY <1>2, <1>5 DEF Queue!Takes, MainNak
<1>9. /\ AbsPending' = SuffixFrom(AbsList[o.qpn], o.psn)
      /\ AbsLost' = (AbsList[o.qpn] # <<>> /\ IndexOf(AbsList[o.qpn], o.psn) = 0)
  BY <1>4, <1>6, <1>7
<1>10. Queue!Nak
  BY <1>2, <1>5, <1>6, <1>7, <1>8, <1>9, QueueLists, QueueIndexOf DEF Queue!Nak, o
<1>11. Sought'
  BY <1>2, SoughtIdle
<1> QED
  BY <1>10, <1>11

LEMMA MainTimeoutAbs ==
  ASSUME Both, MainTimeout
  PROVE  Queue!Timeout /\ Sought'
<1> DEFINE o == Head(in["timeout"])
<1>1. Types /\ Control /\ ListInv /\ Types' /\ Control' /\ ListInv'
  BY DEF Both
<1>2. /\ UNCHANGED <<script, events, init>> /\ fsm.state = "MAIN" /\ in["timeout"] # <<>> /\ o.qpn \in Qps
      /\ in' = [in EXCEPT !["timeout"] = Tail(@)] /\ fsm'.state = "TIMER_RETRANS_0" /\ fsm'.op = <<o>>
  BY <1>1, MainTimeoutEffect DEF FsmStep
<1>3. \A q \in Qps : Entries(q)' = Entries(q)
  BY <1>1, MainTimeoutLists, EntriesStay DEF ListInv
<1> HIDE DEF o
<1>4. fsm'.op[1] = o /\ Qpn' = o.qpn
  BY <1>2, Singles DEF Qpn
<1>5. AbsList = EntryLists /\ AbsPending = <<>> /\ AbsLost = FALSE /\ AbsInit = init
  BY <1>2, AbsIs DEF AbsFacts, NoPending
<1>6. AbsList' = EntryLists' /\ AbsInit' = init' /\ AbsPending' = Entries(Qpn)' /\ AbsLost' = FALSE
  BY <1>2, AbsIsNext DEF AbsFacts
<1>7. Entries(Qpn)' = AbsList[o.qpn] /\ EntryLists' = EntryLists
  BY <1>2, <1>3, <1>4, <1>5 DEF EntryLists
<1>8. Queue!Takes("timeout", {"upd", "nak"})
  BY <1>2, <1>5 DEF Queue!Takes, MainTimeout
<1>9. Queue!Timeout
  BY <1>2, <1>5, <1>6, <1>7, <1>8 DEF Queue!Timeout, o
<1>10. Sought'
  BY <1>2, SoughtIdle
<1> QED
  BY <1>9, <1>10

(* An index that is free is in no list: there is room for one more request. *)
LEMMA RoomForOne ==
  ASSUME Types, ListInv, free.list # <<>>, fsm.state = "MAIN"
  PROVE  Queue!Stored < TableSize
<1> DEFINE i == free.list[1]
           S == UNION {{q} \X DOMAIN AbsList[q] : q \in Qps}
           T == Indices \ {i}
           f == [x \in S |-> Chain(x[1])[x[2]]]
<1>1. TableSize \in Nat \ {0}
  BY RetransAssumption
<1>2. AbsList = EntryLists
  BY AbsIs DEF AbsFacts
<1>3. \A q \in Qps : /\ DOMAIN AbsList[q] = 1 .. Len(Chain(q))
                     /\ \A k \in 1 .. Len(Chain(q)) : Chain(q)[k] \in Indices
  <2> SUFFICES ASSUME NEW q \in Qps
               PROVE  /\ DOMAIN AbsList[q] = 1 .. Len(Chain(q))
                      /\ \A k \in 1 .. Len(Chain(q)) : Chain(q)[k] \in Indices
    OBVIOUS
  <2>1. AbsList[q] = Entries(q)
    BY <1>2 DEF EntryLists
  <2>2. Entries(q) \in Seq(Request) /\ Len(Entries(q)) = Len(Chain(q))
    BY EntriesAre DEF EntriesFacts, ListInv
  <2>3. Chain(q) \in Seq(Indices)
    BY DEF ListInv, Lists, IsList
  <2> QED
    BY <2>1, <2>2, <2>3
<1>4. i \in Indices /\ 1 \in 1 .. Len(free.list)
  <2>1. free.list \in Seq(Indices)
    BY DEF Types, FreeTypes
  <2>2. Len(free.list) \in Nat \ {0}
    BY <2>1
  <2> QED
    BY <2>1, <2>2
<1>5. ASSUME NEW q \in Qps, NEW k \in 1 .. Len(Chain(q)) PROVE Chain(q)[k] # i
  <2>1. ListTag(q) \in Tags /\ FreeTag \in Tags /\ ListTag(q) # FreeTag
    BY TagFacts
  <2>2. Places[ListTag(q)] = Chain(q) /\ Places[FreeTag] = free.list
    BY PlacesAre DEF PlacesFacts
  <2> QED
    BY <1>4, <2>1, <2>2 DEF ListInv, Ledger
<1>6. \A x \in S : x[1] \in Qps /\ x[2] \in 1 .. Len(Chain(x[1])) /\ x = <<x[1], x[2]>>
  <2> SUFFICES ASSUME NEW x \in S
               PROVE  x[1] \in Qps /\ x[2] \in 1 .. Len(Chain(x[1])) /\ x = <<x[1], x[2]>>
    OBVIOUS
  <2>1. PICK q \in Qps : x \in {q} \X DOMAIN AbsList[q]
    OBVIOUS
  <2> QED
    BY <1>3, <2>1
<1>7. f \in Injection(S, T)
  <2>1. \A x \in S : f[x] = Chain(x[1])[x[2]]
    OBVIOUS
  <2>2. DOMAIN f = S /\ f = [x \in S |-> f[x]]
    OBVIOUS
  <2> HIDE DEF S, f
  <2>3. \A x \in S : f[x] \in T
    BY <1>3, <1>5, <1>6, <2>1
  <2>4. ASSUME NEW x \in S, NEW y \in S, f[x] = f[y] PROVE x = y
    <3>1. Apart
      BY ListsApart DEF ApartFacts, ListInv
    <3>2. Chain(x[1])[x[2]] = Chain(y[1])[y[2]]
      BY <2>1, <2>4
    <3>3. x[1] = y[1] /\ x[2] = y[2]
      BY <1>6, <3>1, <3>2 DEF Apart
    <3> QED
      BY <1>6, <3>3
  <2>5. f \in [S -> T]
    BY <2>2, <2>3
  <2> QED
    BY <2>4, <2>5 DEF Injection, IsInjective
<1>8. IsFiniteSet(Indices) /\ Cardinality(Indices) = TableSize
  BY <1>1, FS_Interval DEF Indices
<1>9. IsFiniteSet(T) /\ Cardinality(T) = TableSize - 1
  BY <1>4, <1>8, FS_RemoveElement
<1>10. IsFiniteSet(S) /\ Cardinality(S) <= Cardinality(T)
  <2> HIDE DEF S, T, f
  <2> QED
    BY <1>7, <1>9, FS_Injection
<1>11. Cardinality(S) \in Nat
  <2> HIDE DEF S
  <2> QED
    BY <1>10, FS_CardinalityType
<1>12. Queue!Stored = Cardinality(S)
  BY QueueCardinality DEF Queue!Stored
<1> HIDE DEF S, T
<1> QED
  BY <1>1, <1>9, <1>10, <1>11, <1>12

LEMMA MainInsertAbs ==
  ASSUME Both, MainInsert
  PROVE  Queue!Insert /\ Sought'
<1> DEFINE o == Head(in["insert"])
<1>1. Types /\ Control /\ ListInv /\ Types' /\ Control' /\ ListInv'
  BY DEF Both
<1>2. /\ UNCHANGED <<script, events, init>> /\ fsm.state = "MAIN" /\ in["insert"] # <<>> /\ o.qpn \in Qps
      /\ in' = [in EXCEPT !["insert"] = Tail(@)] /\ fsm'.state = "INSERT_0" /\ fsm'.op = <<o>>
      /\ free.list # <<>>
  BY <1>1, MainInsertEffect DEF FsmStep
<1>3. \A q \in Qps : Entries(q)' = Entries(q)
  BY <1>1, MainInsertLists, EntriesStay DEF ListInv
<1> HIDE DEF o
<1>4. fsm'.op[1] = o /\ Qpn' = o.qpn
  BY <1>2, Singles DEF Qpn
<1>5. AbsList = EntryLists /\ AbsPending = <<>> /\ AbsLost = FALSE /\ AbsInit = init
  BY <1>2, AbsIs DEF AbsFacts, NoPending
<1>6. AbsList' = Inserted' /\ AbsInit' = init' /\ AbsPending' = <<>> /\ AbsLost' = FALSE
  BY <1>2, AbsIsNext DEF AbsFacts, NoPending
<1>7. Inserted' = [AbsList EXCEPT ![o.qpn] = Append(@, o.entry)]
  <2>1. Inserted' = [q \in Qps |-> IF q = o.qpn THEN Append(Entries(q), o.entry) ELSE Entries(q)]
    BY <1>3, <1>4 DEF Inserted
  <2>2. [AbsList EXCEPT ![o.qpn] = Append(@, o.entry)] =
          [q \in Qps |-> IF q = o.qpn THEN Append(Entries(q), o.entry) ELSE Entries(q)]
    BY <1>2, <1>5 DEF EntryLists
  <2> QED
    BY <2>1, <2>2
<1>8. Queue!Takes("insert", {"upd", "nak", "timeout"})
  BY <1>2, <1>5 DEF Queue!Takes, MainInsert
<1>9. Queue!Stored < TableSize
  BY <1>1, <1>2, RoomForOne
<1>10. AbsList' = [AbsList EXCEPT ![o.qpn] = Append(@, o.entry)]
  BY <1>6, <1>7
<1>11. Queue!Insert
  BY <1>2, <1>5, <1>6, <1>8, <1>9, <1>10 DEF Queue!Insert, o
<1>12. Sought'
  BY <1>2, SoughtIdle
<1> QED
  BY <1>11, <1>12

-----------------------------------------------------------------------------
(* Insertions: the request is in the list once it is taken. *)

LEMMA EntriesGrow ==
  ASSUME Types, Lists, Types', Lists', NEW q \in Qps, NEW i, Chain(q)' = Append(Chain(q), i),
         \A k \in 1 .. Len(Chain(q)) : MetaNow'[Chain(q)[k]].e = MetaNow[Chain(q)[k]].e
  PROVE  Entries(q)' = Append(Entries(q), MetaNow'[i].e)
<1> DEFINE c == Chain(q)
           d == Chain(q)'
           a == Entries(q)
           b == Entries(q)'
           n == Len(c)
           x == MetaNow'[i].e
<1>1. /\ a \in Seq(Request) /\ Len(a) = n /\ n \in Nat
      /\ \A k \in 1 .. n : a[k] = MetaNow[c[k]].e
  BY EntriesAre DEF EntriesFacts
<1>2. b \in Seq(Request) /\ Len(b) = Len(d) /\ \A k \in 1 .. Len(d) : b[k] = MetaNow'[d[k]].e
  BY EntriesAreNext DEF EntriesFacts
<1>3. Len(d) = n + 1 /\ d[n + 1] = i /\ \A k \in 1 .. n : d[k] = c[k]
  <2>1. c \in Seq(Indices) /\ d = Append(c, i)
    BY DEF Lists, IsList
  <2> HIDE DEF c, d
  <2> QED
    BY <2>1
<1>4. \A k \in 1 .. n : MetaNow'[c[k]].e = MetaNow[c[k]].e
  OBVIOUS
<1> HIDE DEF a, b, c, d, x, n
<1>5. b[n + 1] = x /\ x \in Request /\ \A k \in 1 .. n : b[k] = a[k]
  <2>1. b[n + 1] = x
    BY <1>1, <1>2, <1>3 DEF x
  <2>2. b[n + 1] \in Request
    BY <1>1, <1>2, <1>3
  <2> QED
    BY <1>1, <1>2, <1>3, <1>4, <2>1, <2>2
<1>6. /\ Append(a, x) \in Seq(Request) /\ Len(Append(a, x)) = n + 1
      /\ \A k \in 1 .. n : Append(a, x)[k] = a[k]
      /\ Append(a, x)[n + 1] = x
  BY <1>1, <1>5, Appended
<1>7. \A k \in 1 .. Len(b) : b[k] = Append(a, x)[k]
  BY <1>1, <1>2, <1>3, <1>5, <1>6
<1>8. b = Append(a, x)
  BY <1>2, <1>3, <1>6, <1>7, SameSeq
<1> QED
  BY <1>8 DEF a, b, x

LEMMA InsertedAbs ==
  ASSUME Both, UNCHANGED <<script, in, events, init>>, fsm'.state = "MAIN",
         fsm.state \in {"INSERT_0", "INSERT_1"}, NEW i, MetaNow'[i].e = fsm.op[1].entry,
         \A q \in Qps : Chain(q)' = IF q = Qpn THEN Append(Chain(q), i) ELSE Chain(q),
         \A q \in Qps : \A k \in 1 .. Len(Chain(q)) :
            MetaNow'[Chain(q)[k]] = MetaNow[Chain(q)[k]]
  PROVE  Stutters /\ Sought'
<1>1. Types /\ Lists /\ Types' /\ Lists'
  BY DEF Both, ListInv
<1>2. AbsList = Inserted /\ AbsPending = <<>> /\ AbsLost = FALSE /\ AbsInit = init
  BY AbsIs DEF AbsFacts, NoPending
<1>3. AbsList' = EntryLists' /\ AbsPending' = <<>> /\ AbsLost' = FALSE /\ AbsInit' = init'
  BY AbsIsNext DEF AbsFacts, NoPending
<1>4. \A q \in Qps : Entries(q)' = IF q = Qpn THEN Append(Entries(q), fsm.op[1].entry)
                                   ELSE Entries(q)
  <2> TAKE q \in Qps
  <2>1. CASE q = Qpn
    <3>1. Chain(q)' = Append(Chain(q), i)
      BY <2>1
    <3>2. Entries(q)' = Append(Entries(q), MetaNow'[i].e)
      BY <1>1, <3>1, EntriesGrow
    <3> QED
      BY <2>1, <3>2
  <2>2. CASE q # Qpn
    BY <1>1, <2>2, EntriesSame
  <2> QED
    BY <2>1, <2>2
<1>5. EntryLists' = Inserted
  BY <1>4 DEF EntryLists, Inserted
<1>6. Stutters
  BY <1>2, <1>3, <1>5 DEF Stutters
<1> QED
  BY <1>6, SoughtIdle

LEMMA Insert0FirstAbs ==
  ASSUME Both, Insert0First
  PROVE  Stutters /\ Sought'
<1>1. Types /\ Control /\ ListInv
  BY DEF Both
<1>2. /\ UNCHANGED <<script, in, events, init>> /\ fsm'.state = "MAIN" /\ fsm.state = "INSERT_0"
      /\ Qpn \in Qps
  BY <1>1, Insert0FirstEffect DEF FsmStep
<1>3. \A q \in Qps : Chain(q)' = IF q = Qpn THEN Append(Chain(q), fsm.idx) ELSE Chain(q)
  <2>1. Chain(Qpn) = <<>> /\ \A q \in Qps : Chain(q)' = IF q = Qpn THEN <<fsm.idx>> ELSE Chain(q)
    BY <1>1, Insert0FirstLists
  <2>2. <<fsm.idx>> = Append(<<>>, fsm.idx)
    BY Singles
  <2> QED
    BY <2>1, <2>2
<1>4. /\ MetaNow'[fsm.idx].e = fsm.op[1].entry
      /\ \A q \in Qps : \A k \in 1 .. Len(Chain(q)) :
            MetaNow'[Chain(q)[k]] = MetaNow[Chain(q)[k]]
  BY <1>1, Insert0FirstLists
<1> QED
  BY <1>2, <1>3, <1>4, InsertedAbs

LEMMA Insert0AppendAbs ==
  ASSUME Both, Insert0Append
  PROVE  Stutters /\ Sought'
<1>1. Types /\ Control /\ ListInv /\ Types' /\ ListInv'
  BY DEF Both
<1>2. /\ UNCHANGED <<script, in, events, init>> /\ fsm'.state = "INSERT_1" /\ fsm.state = "INSERT_0"
      /\ fsm'.op = fsm.op
  BY <1>1, Insert0AppendEffect DEF FsmStep
<1>3. \A q \in Qps : Entries(q)' = Entries(q)
  BY <1>1, Insert0AppendLists, EntriesSame DEF ListInv
<1>4. AbsList = Inserted /\ AbsPending = <<>> /\ AbsLost = FALSE /\ AbsInit = init
  BY <1>2, AbsIs DEF AbsFacts, NoPending
<1>5. AbsList' = Inserted' /\ AbsPending' = <<>> /\ AbsLost' = FALSE /\ AbsInit' = init'
  BY <1>2, AbsIsNext DEF AbsFacts, NoPending
<1>6. Inserted' = Inserted
  BY <1>2, <1>3 DEF Inserted, Qpn
<1>7. Stutters
  BY <1>2, <1>4, <1>5, <1>6 DEF Stutters
<1> QED
  BY <1>2, <1>7, SoughtIdle

LEMMA Insert1Abs ==
  ASSUME Both, Insert1
  PROVE  Stutters /\ Sought'
<1>1. Types /\ Control /\ ListInv
  BY DEF Both
<1>2. UNCHANGED <<script, in, events, init>> /\ fsm'.state = "MAIN" /\ fsm.state = "INSERT_1"
  BY <1>1, Insert1Effect DEF FsmStep
<1>3. /\ MetaNow'[fsm.idx].e = fsm.op[1].entry
      /\ \A q \in Qps : Chain(q)' = IF q = Qpn THEN Append(Chain(q), fsm.idx) ELSE Chain(q)
      /\ \A q \in Qps : \A k \in 1 .. Len(Chain(q)) :
            MetaNow'[Chain(q)[k]] = MetaNow[Chain(q)[k]]
  BY <1>1, Insert1Lists
<1> QED
  BY <1>2, <1>3, InsertedAbs

-----------------------------------------------------------------------------
(* Answers: the oldest request is credited once the answer is taken. *)

(* The pointer that answers says whether there is a list. *)
LEMMA AnswerOfList ==
  ASSUME Types, Control, ListInv, PRsp # <<>>, NEW r \in Qps, r = Qpn
  PROVE  PRsp[1] \in PtrEntry /\ PtrOf(r) = PRsp[1] /\ (PRsp[1].valid <=> Entries(r) # <<>>)
<1>1. PRsp[1] \in PtrEntry
  BY PtrAnswer
<1>2. PtrOf(r) = PRsp[1]
  BY Answered1, PtrInTable
<1>3. IsList(PtrOf(r), MetaNow, Chain(r)) /\ (Chain(r) = <<>> <=> Entries(r) = <<>>)
  BY EntriesAre DEF ListInv, Lists, EntriesFacts
<1> QED
  BY <1>1, <1>2, <1>3 DEF IsList

LEMMA Update0Abs ==
  ASSUME Both, Update0
  PROVE  Stutters /\ Sought'
<1> DEFINE p == PRsp[1]
<1>1. Types /\ Control /\ ListInv /\ Types' /\ ListInv'
  BY DEF Both
<1> PICK r \in Qps : r = Qpn
  BY <1>1, Update0Effect
<1>2. /\ UNCHANGED <<script, in, events, init>> /\ fsm.state = "UPDATE_0" /\ PRsp # <<>>
      /\ fsm'.state = (IF p.valid THEN "UPDATE_1" ELSE "MAIN") /\ fsm'.op = fsm.op
  BY <1>1, Update0Effect DEF FsmStep
<1>3. \A q \in Qps : Entries(q)' = Entries(q)
  BY <1>1, Update0Lists, EntriesStay DEF ListInv
<1>4. p.valid \in BOOLEAN /\ (p.valid <=> Entries(r) # <<>>)
  BY <1>1, <1>2, AnswerOfList DEF PtrEntry
<1> HIDE DEF p
<1>5. Qpn' = r
  BY <1>2 DEF Qpn
<1>6. /\ AbsList = Credited /\ AbsPending = <<>> /\ AbsLost = FALSE
      /\ AbsInit = IF Entries(r) # <<>> /\ fsm.op[1].op \in ForwardsAddress
                   THEN Append(init, Head(Entries(r)).laddr) ELSE init
  BY <1>2, AbsIs DEF AbsFacts, NoPending, Updating
<1>7. CASE p.valid
  <2>1. /\ AbsList' = Credited' /\ AbsPending' = <<>> /\ AbsLost' = FALSE
        /\ AbsInit' = IF Entries(Qpn)' # <<>> /\ fsm'.op[1].op \in ForwardsAddress
                      THEN Append(init', Head(Entries(Qpn)').laddr) ELSE init'
    BY <1>2, <1>7, AbsIsNext DEF AbsFacts, NoPending, Updating
  <2>2. Credited' = Credited
    BY <1>2, <1>3, <1>5 DEF Credited
  <2>3. Entries(Qpn)' = Entries(r)
    BY <1>3, <1>5
  <2> QED
    BY <1>2, <1>6, <1>7, <2>1, <2>2, <2>3, SoughtIdle DEF Stutters
<1>8. CASE ~p.valid
  <2>1. AbsList' = EntryLists' /\ AbsPending' = <<>> /\ AbsLost' = FALSE /\ AbsInit' = init'
    BY <1>2, <1>8, AbsIsNext DEF AbsFacts, NoPending
  <2>2. Entries(r) = <<>> /\ Answered(Entries(r), fsm.op[1].op) = Entries(r)
    BY <1>4, <1>8 DEF Answered
  <2>3. EntryLists' = Credited
    BY <1>3, <2>2 DEF EntryLists, Credited
  <2> QED
    BY <1>2, <1>6, <1>8, <2>1, <2>2, <2>3, SoughtIdle DEF Stutters
<1> QED
  BY <1>4, <1>7, <1>8

(* An answer is finished: the list is the credited one, and the address is *)
(* forwarded.                                                              *)
LEMMA CreditedAbs ==
  ASSUME Both, UNCHANGED <<script, in, events>>, fsm'.state = "MAIN", fsm.state = "UPDATE_1",
         NEW r \in Qps, r = Qpn, Chain(r) # <<>>,
         MRsp[1] = MetaNow[Chain(r)[1]],
         init' = (IF fsm.op[1].op \in ForwardsAddress THEN Append(init, MRsp[1].e.laddr) ELSE init),
         \A q \in Qps : q # r => Entries(q)' = Entries(q),
         Entries(r)' = Answered(Entries(r), fsm.op[1].op)
  PROVE  Stutters /\ Sought'
<1>1. Types /\ Lists /\ Types' /\ Lists'
  BY DEF Both, ListInv
<1>2. /\ AbsList = Credited /\ AbsPending = <<>> /\ AbsLost = FALSE
      /\ AbsInit = IF Entries(r) # <<>> /\ fsm.op[1].op \in ForwardsAddress
                   THEN Append(init, Head(Entries(r)).laddr) ELSE init
  BY AbsIs DEF AbsFacts, NoPending, Updating
<1>3. AbsList' = EntryLists' /\ AbsPending' = <<>> /\ AbsLost' = FALSE /\ AbsInit' = init'
  BY AbsIsNext DEF AbsFacts, NoPending
<1>4. EntryLists' = Credited
  BY DEF EntryLists, Credited
<1>5. Entries(r) # <<>> /\ Head(Entries(r)) = MRsp[1].e
  <2>1. /\ Entries(r) \in Seq(Request) /\ Len(Entries(r)) = Len(Chain(r))
        /\ Entries(r) # <<>>
        /\ \A k \in 1 .. Len(Chain(r)) : Entries(r)[k] = MetaNow[Chain(r)[k]].e
    BY <1>1, EntriesAre DEF EntriesFacts
  <2>2. Head(Entries(r)) = Entries(r)[1] /\ Len(Entries(r)) \in Nat \ {0}
    BY <2>1, HeadAndTail
  <2>3. 1 \in 1 .. Len(Chain(r))
    BY <2>1, <2>2
  <2> QED
    BY <2>1, <2>2, <2>3
<1>6. AbsInit' = AbsInit
  BY <1>2, <1>3, <1>5
<1>7. Stutters
  BY <1>2, <1>3, <1>4, <1>6 DEF Stutters
<1> QED
  BY <1>7, SoughtIdle

LEMMA Update1KeepAbs ==
  ASSUME Both, Update1Keep
  PROVE  Stutters /\ Sought'
<1>1. Types /\ Control /\ ListInv /\ Types' /\ ListInv'
  BY DEF Both
<1> PICK r \in Qps : r = Qpn
  BY <1>1, Update1KeepEffect
<1> DEFINE c == Chain(r)
           a == Entries(r)
           b == Entries(r)'
           n == Len(c)
           x == Advanced(Head(a))
<1>2. /\ UNCHANGED <<script, in, events>> /\ fsm'.state = "MAIN" /\ fsm.state = "UPDATE_1"
      /\ init' = (IF fsm.op[1].op \in ForwardsAddress THEN Append(init, MRsp[1].e.laddr) ELSE init)
      /\ fsm.op[1].op \in KeepsEntry
  BY <1>1, Update1KeepEffect DEF FsmStep
<1>3. /\ \A q \in Qps : Chain(q)' = Chain(q)
      /\ \A q \in Qps : \A k \in 1 .. Len(Chain(q)) :
            q # r \/ k # 1 => MetaNow'[Chain(q)[k]] = MetaNow[Chain(q)[k]]
      /\ c # <<>> /\ MRsp[1] = MetaNow[c[1]] /\ MetaNow'[c[1]].e = Advanced(MRsp[1].e)
  BY <1>1, Update1KeepLists
<1>4. \A q \in Qps : q # r => Entries(q)' = Entries(q)
  BY <1>1, <1>3, EntriesSame DEF ListInv
<1>5. /\ a \in Seq(Request) /\ Len(a) = n /\ a # <<>>
      /\ \A k \in 1 .. n : a[k] = MetaNow[c[k]].e
  BY <1>1, <1>3, EntriesAre DEF EntriesFacts, ListInv
<1>6. b \in Seq(Request) /\ Len(b) = n /\ \A k \in 1 .. n : b[k] = MetaNow'[c[k]].e
  BY <1>1, <1>3, EntriesAreNext DEF EntriesFacts, ListInv
<1>7. \A k \in 1 .. n : k # 1 => MetaNow'[c[k]] = MetaNow[c[k]]
  BY <1>3
<1>8. MRsp[1] = MetaNow[c[1]] /\ MetaNow'[c[1]].e = Advanced(MRsp[1].e)
  BY <1>3
<1> HIDE DEF a, b, c, n
<1>9. /\ Head(a) = a[1] /\ n \in Nat \ {0} /\ 1 \in 1 .. n
      /\ Tail(a) \in Seq(Request) /\ Len(Tail(a)) = n - 1
      /\ \A i \in 1 .. n - 1 : Tail(a)[i] = a[i + 1]
  BY <1>5, HeadAndTail
<1>10. b[1] = x /\ x \in Request
  BY <1>5, <1>6, <1>8, <1>9
<1> HIDE DEF x
<1>11. \A k \in 1 .. n : k # 1 => b[k] = a[k]
  BY <1>5, <1>6, <1>7
<1>12. /\ <<x>> \in Seq(Request) /\ Len(<<x>>) = 1 /\ <<x>>[1] = x
  BY <1>10
<1> DEFINE z == <<x>> \o Tail(a)
<1>13. /\ z \in Seq(Request) /\ Len(z) = n /\ z[1] = x
       /\ \A i \in 2 .. n : z[i] = a[i]
  <2>1. /\ z \in Seq(Request) /\ Len(z) = 1 + (n - 1)
        /\ \A i \in 1 .. 1 : z[i] = <<x>>[i]
        /\ \A i \in 1 + 1 .. 1 + (n - 1) : z[i] = Tail(a)[i - 1]
    BY <1>9, <1>12, Concatenated
  <2> HIDE DEF z
  <2>2. ASSUME NEW i \in 2 .. n PROVE z[i] = a[i]
    <3>1. z[i] = Tail(a)[i - 1] /\ i - 1 \in 1 .. n - 1 /\ (i - 1) + 1 = i
      BY <1>9, <2>1
    <3> QED
      BY <1>9, <3>1
  <2> QED
    BY <1>9, <1>12, <2>1, <2>2
<1> HIDE DEF z
<1>14. \A i \in 1 .. Len(b) : b[i] = z[i]
  BY <1>6, <1>9, <1>10, <1>11, <1>13
<1>15. b = z
  BY <1>6, <1>13, <1>14, SameSeq
<1>16. Entries(r)' = Answered(Entries(r), fsm.op[1].op)
  BY <1>2, <1>5, <1>15 DEF Answered, a, b, z, x
<1> QED
  BY <1>2, <1>3, <1>4, <1>16, CreditedAbs DEF c

LEMMA Update1ReleaseAbs ==
  ASSUME Both, Update1Release
  PROVE  Stutters /\ Sought'
<1>1. Types /\ Control /\ ListInv /\ Types' /\ ListInv'
  BY DEF Both
<1> PICK r \in Qps : r = Qpn
  BY <1>1, Update1ReleaseEffect
<1> DEFINE c == Chain(r)
           d == Chain(r)'
           a == Entries(r)
           b == Entries(r)'
           n == Len(c)
<1>2. /\ UNCHANGED <<script, in, events>> /\ fsm'.state = "MAIN" /\ fsm.state = "UPDATE_1"
      /\ init' = (IF fsm.op[1].op \in ForwardsAddress THEN Append(init, MRsp[1].e.laddr) ELSE init)
      /\ fsm.op[1].op \notin KeepsEntry
  BY <1>1, Update1ReleaseEffect DEF FsmStep
<1>3. /\ \A q \in Qps : Chain(q)' = IF q = r THEN Tail(Chain(q)) ELSE Chain(q)
      /\ c # <<>> /\ MRsp[1] = MetaNow[c[1]] /\ MetaNow' = MetaNow
  BY <1>1, Update1ReleaseLists
<1>4. \A q \in Qps : q # r => Entries(q)' = Entries(q)
  BY <1>1, <1>3, EntriesSame DEF ListInv
<1>5. /\ a \in Seq(Request) /\ Len(a) = n /\ a # <<>> /\ n \in Nat
      /\ \A k \in 1 .. n : a[k] = MetaNow[c[k]].e
  BY <1>1, <1>3, EntriesAre DEF EntriesFacts, ListInv
<1>6. b \in Seq(Request) /\ Len(b) = Len(d) /\ \A k \in 1 .. Len(d) : b[k] = MetaNow[d[k]].e
  BY <1>1, <1>3, EntriesAreNext DEF EntriesFacts, ListInv
<1>7. d = Tail(c) /\ c \in Seq(Indices) /\ c # <<>>
  BY <1>1, <1>3 DEF ListInv, Lists, IsList
<1> HIDE DEF a, b, c, d, n
<1>8. Len(d) = n - 1 /\ \A i \in 1 .. n - 1 : d[i] = c[i + 1]
  BY <1>7, HeadAndTail DEF n
<1>9. /\ n \in Nat \ {0} /\ Tail(a) \in Seq(Request) /\ Len(Tail(a)) = n - 1
      /\ \A i \in 1 .. n - 1 : Tail(a)[i] = a[i + 1]
  BY <1>5, HeadAndTail
<1>10. ASSUME NEW i \in 1 .. n - 1 PROVE b[i] = Tail(a)[i]
  <2>1. i + 1 \in 1 .. n
    BY <1>9
  <2> QED
    BY <1>5, <1>6, <1>8, <1>9, <2>1
<1>11. b = Tail(a)
  BY <1>6, <1>8, <1>9, <1>10, SameSeq
<1>12. Entries(r)' = Answered(Entries(r), fsm.op[1].op)
  BY <1>2, <1>5, <1>11 DEF Answered, a, b
<1> QED
  BY <1>2, <1>3, <1>4, <1>12, CreditedAbs DEF c

-----------------------------------------------------------------------------
(* Retransmissions: the entries left to send are those from the walk on. *)

(* The walk starts at the first entry, or there is none. *)
LEMMA RetransStarts ==
  ASSUME Both, NEW state, NEW next, StartRetrans(state, next),
         <<state, next>> \in {<<"RETRANS_0", "RETRANS_1">>, <<"TIMER_RETRANS_0", "RETRANS_2">>},
         NEW r \in Qps, r = Qpn
  PROVE  LET valid == PRsp[1].valid
         IN /\ UNCHANGED <<script, in, events, init>> /\ fsm.state = state
            /\ fsm'.state = (IF valid THEN next ELSE "MAIN") /\ fsm'.op = fsm.op /\ Qpn' = r
            /\ \A q \in Qps : Entries(q)' = Entries(q) /\ Chain(q)' = Chain(q)
            /\ valid \in BOOLEAN /\ (valid <=> Entries(r) # <<>>)
            /\ valid => 1 \in 1 .. Len(Chain(r)) /\ WalkAt(1)'
<1> DEFINE p == PRsp[1]
<1>1. Types /\ Control /\ ListInv /\ Types' /\ ListInv'
  BY DEF Both
<1>2. /\ UNCHANGED <<script, in, events, init>> /\ fsm.state = state /\ PRsp # <<>>
      /\ fsm'.state = (IF p.valid THEN next ELSE "MAIN") /\ fsm'.op = fsm.op
      /\ MReq' = (IF p.valid THEN Append(MReq, Read(p.head)) ELSE MReq) /\ MRsp' = MRsp
  BY <1>1, StartRetransEffect DEF FsmStep, FifoStep
<1>3. Stay
  BY <1>1, StartRetransLists
<1>4. \A q \in Qps : Entries(q)' = Entries(q) /\ Chain(q)' = Chain(q)
  BY <1>1, <1>3, EntriesStay DEF ListInv, Stay
<1>5. p \in PtrEntry /\ PtrOf(r) = p /\ p.valid \in BOOLEAN /\ (p.valid <=> Entries(r) # <<>>)
  BY <1>1, <1>2, AnswerOfList DEF PtrEntry
<1>6. MRsp' = <<>>
  BY <1>1, <1>2, Answered1
<1> HIDE DEF p
<1>7. Qpn' = r
  BY <1>2 DEF Qpn
<1>8. p.valid => 1 \in 1 .. Len(Chain(r)) /\ WalkAt(1)'
  <2> SUFFICES ASSUME p.valid PROVE 1 \in 1 .. Len(Chain(r)) /\ WalkAt(1)'
    OBVIOUS
  <2>1. MReq' = Append(MReq, Read(p.head))
    BY <1>2
  <2> QED
    BY <1>1, <1>4, <1>5, <1>6, <1>7, <2>1, WalkStarts DEF ListInv
<1> QED
  BY <1>2, <1>4, <1>5, <1>7, <1>8 DEF p

LEMMA Retrans0Abs ==
  ASSUME Both, Retrans0
  PROVE  Stutters /\ Sought'
<1> DEFINE valid == PRsp[1].valid
<1>1. Types /\ Control /\ ListInv /\ Types' /\ Control' /\ ListInv'
  BY DEF Both
<1>2. StartRetrans("RETRANS_0", "RETRANS_1")
  BY DEF Retrans0
<1> PICK r \in Qps : r = Qpn
  BY <1>1, <1>2, StartRetransEffect
<1>3. /\ UNCHANGED <<script, in, events, init>> /\ fsm.state = "RETRANS_0"
      /\ fsm'.state = (IF valid THEN "RETRANS_1" ELSE "MAIN") /\ fsm'.op = fsm.op /\ Qpn' = r
      /\ \A q \in Qps : Entries(q)' = Entries(q) /\ Chain(q)' = Chain(q)
      /\ valid \in BOOLEAN /\ (valid <=> Entries(r) # <<>>)
      /\ valid => 1 \in 1 .. Len(Chain(r)) /\ WalkAt(1)'
  BY <1>2, RetransStarts
<1> HIDE DEF valid
<1>4. /\ AbsList = EntryLists /\ AbsInit = init
      /\ AbsPending = SuffixFrom(Entries(r), fsm.op[1].psn)
      /\ AbsLost = (Entries(r) # <<>> /\ IndexOf(Entries(r), fsm.op[1].psn) = 0)
  BY <1>3, AbsIs DEF AbsFacts
<1>5. EntryLists' = EntryLists /\ Entries(Qpn)' = Entries(r) /\ Chain(Qpn)' = Chain(r)
  BY <1>3 DEF EntryLists
<1>6. CASE valid
  <2>1. /\ AbsList' = EntryLists' /\ AbsInit' = init'
        /\ AbsPending' = SuffixFrom(Entries(Qpn)', fsm'.op[1].psn)
        /\ AbsLost' = (Entries(Qpn)' # <<>> /\ IndexOf(Entries(Qpn)', fsm'.op[1].psn) = 0)
    BY <1>3, <1>6, AbsIsNext DEF AbsFacts
  <2>2. Stutters
    BY <1>3, <1>4, <1>5, <2>1 DEF Stutters
  <2>3. ASSUME NEW k \in 1 .. Len(Chain(Qpn)'), WalkAt(k)' PROVE k = 1
    <3>1. fsm'.state \in Walking /\ 1 \in 1 .. Len(Chain(Qpn)') /\ WalkAt(1)'
      BY <1>3, <1>5, <1>6 DEF Walking
    <3> QED
      BY <1>1, <2>3, <3>1, WalkIsAtNext DEF WalkFacts
  <2>4. Sought'
    <3> SUFFICES ASSUME NEW k \in 1 .. Len(Chain(Qpn)'), WalkAt(k)', NEW j \in 1 .. k - 1
                 PROVE  FALSE
      BY DEF Sought
    <3> QED
      BY <2>3
  <2> QED
    BY <2>2, <2>4
<1>7. CASE ~valid
  <2>1. AbsList' = EntryLists' /\ AbsPending' = <<>> /\ AbsLost' = FALSE /\ AbsInit' = init'
    BY <1>3, <1>7, AbsIsNext DEF AbsFacts, NoPending
  <2>2. Entries(r) = <<>> /\ <<>> \in Seq(Request)
    BY <1>3, <1>7
  <2>3. AbsPending = <<>> /\ AbsLost = FALSE
    BY <1>4, <2>2, SuffixFromIs
  <2> QED
    BY <1>3, <1>4, <1>5, <1>7, <2>1, <2>3, SoughtIdle DEF Stutters
<1> QED
  BY <1>3, <1>6, <1>7

LEMMA TimerRetrans0Abs ==
  ASSUME Both, TimerRetrans0
  PROVE  Stutters /\ Sought'
<1> DEFINE valid == PRsp[1].valid
<1>1. Types /\ Control /\ ListInv /\ Types' /\ Control' /\ ListInv'
  BY DEF Both
<1>2. StartRetrans("TIMER_RETRANS_0", "RETRANS_2")
  BY DEF TimerRetrans0
<1> PICK r \in Qps : r = Qpn
  BY <1>1, <1>2, StartRetransEffect
<1>3. /\ UNCHANGED <<script, in, events, init>> /\ fsm.state = "TIMER_RETRANS_0"
      /\ fsm'.state = (IF valid THEN "RETRANS_2" ELSE "MAIN") /\ fsm'.op = fsm.op /\ Qpn' = r
      /\ \A q \in Qps : Entries(q)' = Entries(q) /\ Chain(q)' = Chain(q)
      /\ valid \in BOOLEAN /\ (valid <=> Entries(r) # <<>>)
      /\ valid => 1 \in 1 .. Len(Chain(r)) /\ WalkAt(1)'
  BY <1>2, RetransStarts
<1> HIDE DEF valid
<1>4. AbsList = EntryLists /\ AbsInit = init /\ AbsPending = Entries(r) /\ AbsLost = FALSE
  BY <1>3, AbsIs DEF AbsFacts
<1>5. EntryLists' = EntryLists /\ Entries(Qpn)' = Entries(r) /\ Chain(Qpn)' = Chain(r)
  BY <1>3 DEF EntryLists
<1>6. CASE valid
  <2>1. /\ AbsList' = EntryLists' /\ AbsInit' = init' /\ AbsLost' = FALSE
        /\ AbsPending' = SubSeq(Entries(Qpn)', Position', Len(Entries(Qpn)'))
    BY <1>3, <1>6, AbsIsNext DEF AbsFacts
  <2>2. Position' = 1
    <3>1. fsm'.state \in Walking /\ 1 \in 1 .. Len(Chain(Qpn)') /\ WalkAt(1)'
      BY <1>3, <1>5, <1>6 DEF Walking
    <3> QED
      BY <1>1, <3>1, WalkIsAtNext DEF WalkFacts
  <2>3. SubSeq(Entries(r), 1, Len(Entries(r))) = Entries(r)
    <3>1. Entries(r) \in Seq(Request)
      BY <1>1, EntriesAre DEF EntriesFacts, ListInv
    <3> QED
      BY <3>1, SubSeqFull
  <2>4. AbsPending' = AbsPending
    BY <1>4, <1>5, <2>1, <2>2, <2>3
  <2> QED
    BY <1>3, <1>4, <1>5, <1>6, <2>1, <2>4, SoughtIdle DEF Stutters
<1>7. CASE ~valid
  <2>1. AbsList' = EntryLists' /\ AbsPending' = <<>> /\ AbsLost' = FALSE /\ AbsInit' = init'
    BY <1>3, <1>7, AbsIsNext DEF AbsFacts, NoPending
  <2> QED
    BY <1>3, <1>4, <1>5, <1>7, <2>1, SoughtIdle DEF Stutters
<1> QED
  BY <1>3, <1>6, <1>7

(* The answer to a walk is the entry it is at, and the walk goes on to the *)
(* next one, up to the tail.                                               *)
LEMMA WalkSteps ==
  ASSUME Both, MRsp # <<>>, NEW r \in Qps, r = Qpn, Qpn' = r, Stay, MRsp' = Tail(MRsp),
         MReq' = IF MRsp[1].isTail THEN MReq ELSE Append(MReq, Read(MRsp[1].next))
  PROVE  LET m == MRsp[1]
             n == Len(Chain(r))
         IN \E k \in 1 .. n :
              /\ WalkAt(k) /\ m.e = Entries(r)[k] /\ m.isTail \in BOOLEAN
              /\ m.isTail => k = n /\ MRsp' = <<>> /\ MReq' = <<>>
              /\ ~m.isTail => k # n /\ k + 1 \in 1 .. n /\ WalkAt(k + 1)'
<1> DEFINE m == MRsp[1]
           s == Chain(r)
           n == Len(s)
<1>1. Types /\ Control /\ ListInv
  BY DEF Both
<1>2. /\ MReq = <<>> /\ s \in Seq(Indices) /\ IsList(PtrOf(r), MetaNow, s)
      /\ \E k \in 1 .. n : /\ m = MetaNow[s[k]] /\ (fsm.state = "UPDATE_1" => k = 1)
                           /\ m.isTail => k = n
                           /\ ~m.isTail => k + 1 \in 1 .. n /\ m.next = s[k + 1]
  BY <1>1, WalkAnswer
<1>3. PICK k \in 1 .. n : /\ m = MetaNow[s[k]] /\ (m.isTail => k = n)
                          /\ ~m.isTail => k + 1 \in 1 .. n /\ m.next = s[k + 1]
  BY <1>2
<1>4. m \in MetaEntry /\ MRsp' = <<>>
  BY <1>1, MetaAnswer, Answered2
<1>5. WalkAt(k)
  BY <1>3 DEF WalkAt
<1>6. m.e = Entries(r)[k]
  BY <1>1, <1>3, EntriesAre DEF EntriesFacts, ListInv
<1>7. m.isTail \in BOOLEAN /\ m.next \in Indices
  BY <1>4 DEF MetaEntry
<1>8. Chain(Qpn)' = s
  BY DEF Stay
<1>9. MReq' = IF m.isTail THEN MReq ELSE Append(MReq, Read(m.next))
  OBVIOUS
<1> HIDE DEF m, s, n
<1>10. ~m.isTail => WalkAt(k + 1)' /\ k # n
  <2> SUFFICES ASSUME ~m.isTail PROVE WalkAt(k + 1)' /\ k # n
    OBVIOUS
  <2>1. MReq' = <<Read(m.next)>>
    BY <1>2, <1>9, Singles
  <2>2. MReq' # <<>> /\ MReq'[Len(MReq')] = Read(m.next)
    BY <2>1, Singles
  <2>3. Read(m.next).idx = m.next
    BY DEF Read
  <2>4. WalkAt(k + 1)'
    BY <1>3, <1>4, <1>8, <2>2, <2>3 DEF WalkAt
  <2>5. k # n
    <3>1. k \in Nat /\ n \in Nat /\ k + 1 <= n
      BY <1>2, <1>3 DEF n
    <3> QED
      BY <3>1
  <2> QED
    BY <2>4, <2>5
<1>11. m.isTail => MReq' = <<>>
  BY <1>2, <1>9
<1> QED
  BY <1>3, <1>4, <1>5, <1>6, <1>7, <1>10, <1>11 DEF m, s, n

LEMMA Retrans1Abs ==
  ASSUME Both, Sought, Retrans1
  PROVE  (Stutters \/ Queue!Retransmit) /\ Sought'
<1> DEFINE m == MRsp[1]
           psn == fsm.op[1].psn
<1>1. Types /\ Control /\ ListInv /\ Types' /\ Control' /\ ListInv'
  BY DEF Both
<1> PICK r \in Qps : r = Qpn
  BY <1>1, Retrans1Effect
<1> DEFINE s == Entries(r)
           n == Len(Chain(r))
<1>2. /\ UNCHANGED <<script, in, init>> /\ fsm.state = "RETRANS_1" /\ MRsp # <<>>
      /\ events' = (IF m.e.psn = psn THEN Append(events, m.e) ELSE events)
      /\ fsm'.state = (IF ~(m.e.psn = psn) THEN "RETRANS_1" ELSE IF m.isTail THEN "MAIN" ELSE "RETRANS_2")
      /\ fsm'.op = fsm.op /\ MRsp' = Tail(MRsp)
      /\ MReq' = (IF m.isTail THEN MReq ELSE Append(MReq, Read(m.next)))
  BY <1>1, Retrans1Effect DEF FsmStep, FifoStep
<1>3. Stay
  BY <1>1, Retrans1Lists
<1>4. \A q \in Qps : Entries(q)' = Entries(q) /\ Chain(q)' = Chain(q)
  BY <1>1, <1>3, EntriesStay DEF ListInv, Stay
<1>5. Qpn' = r
  BY <1>2 DEF Qpn
<1>6. PICK k \in 1 .. n :
              /\ WalkAt(k) /\ m.e = s[k] /\ m.isTail \in BOOLEAN
              /\ m.isTail => k = n /\ MRsp' = <<>> /\ MReq' = <<>>
              /\ ~m.isTail => k # n /\ k + 1 \in 1 .. n /\ WalkAt(k + 1)'
  BY <1>2, <1>3, <1>5, WalkSteps
<1>7. /\ s \in Seq(Request) /\ Len(s) = n /\ n \in Nat
      /\ \A j \in 1 .. n : s[j] = MetaNow[Chain(r)[j]].e
  BY <1>1, EntriesAre DEF EntriesFacts, ListInv
<1>8. \A j \in 1 .. k - 1 : s[j].psn # psn
  <2>1. \A j \in 1 .. k - 1 : MetaNow[Chain(r)[j]].e.psn # psn
    BY <1>2, <1>6 DEF Sought
  <2>2. \A j \in 1 .. k - 1 : j \in 1 .. n
    BY <1>6, <1>7
  <2> QED
    BY <1>7, <2>1, <2>2
<1>9. /\ EntryLists' = EntryLists /\ Entries(Qpn)' = s /\ Len(Chain(Qpn)') = n
      /\ Chain(Qpn)' = Chain(r) /\ MetaNow' = MetaNow /\ fsm'.op[1].psn = psn
  BY <1>2, <1>3, <1>4, <1>5 DEF EntryLists, Stay
<1>10. /\ AbsList = EntryLists /\ AbsInit = init
       /\ AbsPending = SuffixFrom(s, psn) /\ AbsLost = (s # <<>> /\ IndexOf(s, psn) = 0)
  BY <1>2, AbsIs DEF AbsFacts
<1> HIDE DEF m, psn, s, n
<1>11. CASE m.e.psn # psn
  <2>1. fsm'.state = "RETRANS_1" /\ events' = events
    BY <1>2, <1>11
  <2>2. /\ AbsList' = EntryLists' /\ AbsInit' = init' /\ AbsPending' = SuffixFrom(s, psn)
        /\ AbsLost' = (s # <<>> /\ IndexOf(s, psn) = 0)
    BY <1>9, <2>1, AbsIsNext DEF AbsFacts
  <2>3. Stutters
    BY <1>2, <1>9, <1>10, <2>1, <2>2 DEF Stutters
  <2>4. ASSUME NEW i \in 1 .. n, WalkAt(i)', NEW j \in 1 .. i - 1
        PROVE  s[j].psn # psn /\ s[j] = MetaNow[Chain(r)[j]].e
    <3>1. ~m.isTail
      BY <1>6, <2>4 DEF WalkAt
    <3>2. k + 1 \in 1 .. n /\ WalkAt(k + 1)' /\ fsm'.state \in Walking
      BY <1>6, <2>1, <3>1 DEF Walking
    <3>3. i = k + 1
      BY <1>1, <1>9, <2>4, <3>2, WalkIsAtNext DEF WalkFacts
    <3>4. j \in 1 .. k /\ j \in 1 .. n
      BY <1>6, <1>7, <3>2, <3>3
    <3>5. j = k \/ j \in 1 .. k - 1
      BY <1>6, <3>4
    <3> QED
      BY <1>6, <1>7, <1>8, <1>11, <3>4, <3>5
  <2>5. Sought'
    BY <1>9, <2>4 DEF Sought
  <2> QED
    BY <2>3, <2>5
<1>12. CASE m.e.psn = psn
  <2>1. events' = Append(events, m.e) /\ fsm'.state = (IF m.isTail THEN "MAIN" ELSE "RETRANS_2")
    BY <1>2, <1>12
  <2>2. k \in 1 .. Len(s) /\ s[k].psn = psn /\ k # 0
    BY <1>6, <1>7, <1>12
  <2>3. AbsPending = SubSeq(s, k, Len(s))
    BY <1>7, <1>8, <1>10, <2>2, SuffixFromIs
  <2>4. AbsLost = FALSE
    BY <1>7, <1>8, <1>10, <2>2, IndexOfIs
  <2>5. /\ AbsPending # <<>> /\ Head(AbsPending) = m.e
        /\ k = n => Tail(AbsPending) = <<>>
        /\ k # n => Tail(AbsPending) = SubSeq(s, k + 1, Len(s))
    BY <1>6, <1>7, <2>2, <2>3, SuffixIs
  <2>6. AbsList' = EntryLists' /\ AbsInit' = init' /\ AbsLost' = FALSE /\ AbsPending' = Tail(AbsPending)
    <3>1. CASE m.isTail
      <4>1. AbsList' = EntryLists' /\ AbsPending' = <<>> /\ AbsLost' = FALSE /\ AbsInit' = init'
        BY <2>1, <3>1, AbsIsNext DEF AbsFacts, NoPending
      <4> QED
        BY <1>6, <2>5, <3>1, <4>1
    <3>2. CASE ~m.isTail
      <4>1. fsm'.state = "RETRANS_2" /\ fsm'.state \in Walking
        BY <2>1, <3>2 DEF Walking
      <4>2. Position' = k + 1
        BY <1>1, <1>6, <1>9, <3>2, <4>1, WalkIsAtNext DEF WalkFacts
      <4>3. /\ AbsList' = EntryLists' /\ AbsInit' = init' /\ AbsLost' = FALSE
            /\ AbsPending' = SubSeq(s, Position', Len(s))
        BY <1>9, <4>1, AbsIsNext DEF AbsFacts
      <4> QED
        BY <1>6, <2>5, <3>2, <4>2, <4>3
    <3> QED
      BY <1>6, <3>1, <3>2
  <2>7. Queue!Retransmit
    BY <1>2, <1>9, <1>10, <2>1, <2>4, <2>5, <2>6 DEF Queue!Retransmit
  <2>8. Sought'
    BY <2>1, SoughtIdle
  <2> QED
    BY <2>7, <2>8
<1> QED
  BY <1>11, <1>12

LEMMA Retrans2Abs ==
  ASSUME Both, Retrans2
  PROVE  Queue!Retransmit /\ Sought'
<1> DEFINE m == MRsp[1]
<1>1. Types /\ Control /\ ListInv /\ Types' /\ Control' /\ ListInv'
  BY DEF Both
<1> PICK r \in Qps : r = Qpn
  BY <1>1, Retrans2Effect
<1> DEFINE s == Entries(r)
           n == Len(Chain(r))
<1>2. /\ UNCHANGED <<script, in, init>> /\ fsm.state = "RETRANS_2" /\ MRsp # <<>>
      /\ events' = Append(events, m.e)
      /\ fsm'.state = (IF m.isTail THEN "MAIN" ELSE "RETRANS_2")
      /\ fsm'.op = fsm.op /\ MRsp' = Tail(MRsp)
      /\ MReq' = (IF m.isTail THEN MReq ELSE Append(MReq, Read(m.next)))
  BY <1>1, Retrans2Effect DEF FsmStep, FifoStep
<1>3. Stay
  BY <1>1, Retrans2Lists
<1>4. \A q \in Qps : Entries(q)' = Entries(q) /\ Chain(q)' = Chain(q)
  BY <1>1, <1>3, EntriesStay DEF ListInv, Stay
<1>5. Qpn' = r
  BY <1>2 DEF Qpn
<1>6. PICK k \in 1 .. n :
              /\ WalkAt(k) /\ m.e = s[k] /\ m.isTail \in BOOLEAN
              /\ m.isTail => k = n /\ MRsp' = <<>> /\ MReq' = <<>>
              /\ ~m.isTail => k # n /\ k + 1 \in 1 .. n /\ WalkAt(k + 1)'
  BY <1>2, <1>3, <1>5, WalkSteps
<1>7. s \in Seq(Request) /\ Len(s) = n /\ n \in Nat /\ k \in 1 .. Len(s)
  BY <1>1, <1>6, EntriesAre DEF EntriesFacts, ListInv
<1>8. /\ EntryLists' = EntryLists /\ Entries(Qpn)' = s /\ Len(Chain(Qpn)') = n
      /\ Chain(Qpn)' = Chain(r)
  BY <1>4, <1>5 DEF EntryLists
<1>9. Position = k
  BY <1>1, <1>2, <1>6, WalkIsAt DEF WalkFacts, Walking
<1>10. /\ AbsList = EntryLists /\ AbsInit = init /\ AbsLost = FALSE
       /\ AbsPending = SubSeq(s, k, Len(s))
  BY <1>2, <1>9, AbsIs DEF AbsFacts
<1> HIDE DEF m, s, n
<1>11. /\ AbsPending # <<>> /\ Head(AbsPending) = m.e
       /\ k = n => Tail(AbsPending) = <<>>
       /\ k # n => Tail(AbsPending) = SubSeq(s, k + 1, Len(s))
  BY <1>6, <1>7, <1>10, SuffixIs
<1>12. AbsList' = EntryLists' /\ AbsInit' = init' /\ AbsLost' = FALSE /\ AbsPending' = Tail(AbsPending)
  <2>1. CASE m.isTail
    <3>1. AbsList' = EntryLists' /\ AbsPending' = <<>> /\ AbsLost' = FALSE /\ AbsInit' = init'
      BY <1>2, <2>1, AbsIsNext DEF AbsFacts, NoPending
    <3> QED
      BY <1>6, <1>11, <2>1, <3>1
  <2>2. CASE ~m.isTail
    <3>1. fsm'.state = "RETRANS_2" /\ fsm'.state \in Walking
      BY <1>2, <2>2 DEF Walking
    <3>2. Position' = k + 1
      BY <1>1, <1>6, <1>8, <2>2, <3>1, WalkIsAtNext DEF WalkFacts
    <3>3. /\ AbsList' = EntryLists' /\ AbsInit' = init' /\ AbsLost' = FALSE
          /\ AbsPending' = SubSeq(s, Position', Len(s))
      BY <1>8, <3>1, AbsIsNext DEF AbsFacts
    <3> QED
      BY <1>6, <1>11, <2>2, <3>2, <3>3
  <2> QED
    BY <1>6, <2>1, <2>2
<1>13. Queue!Retransmit
  BY <1>2, <1>8, <1>10, <1>11, <1>12 DEF Queue!Retransmit
<1>14. Sought'
  BY <1>2, SoughtIdle
<1> QED
  BY <1>13, <1>14

-----------------------------------------------------------------------------
(* The refinement *)

LEMMA InitAbs == Init => Queue!Init /\ Sought
<1> SUFFICES ASSUME Init PROVE Queue!Init /\ Sought
  OBVIOUS
<1>1. Types /\ Control /\ Lists
  BY InitInv DEF Inv
<1>2. fsm.state = "MAIN" /\ in = [k \in Kinds |-> <<>>] /\ events = <<>> /\ init = <<>>
  BY DEF Init
<1>3. ASSUME NEW q \in Qps PROVE Entries(q) = <<>>
  <2>1. PUpd = <<>> /\ ptr.table[q] = NoPtr
    BY DEF Init, PUpd
  <2>2. PtrOf(q) = NoPtr
    BY <1>1, <2>1, PtrInTable
  <2>3. IsList(NoPtr, MetaNow, Chain(q)) /\ (Chain(q) = <<>> <=> Entries(q) = <<>>)
    BY <1>1, <2>2, EntriesAre DEF Lists, EntriesFacts
  <2> QED
    BY <2>3 DEF IsList, NoPtr
<1>4. AbsList = EntryLists /\ AbsPending = <<>> /\ AbsLost = FALSE /\ AbsInit = init
  BY <1>2, AbsIs DEF AbsFacts, NoPending
<1>5. EntryLists = [q \in Qps |-> <<>>]
  BY <1>3 DEF EntryLists
<1>6. Sought
  BY <1>2 DEF Sought
<1> QED
  BY <1>2, <1>4, <1>5, <1>6 DEF Queue!Init, Queue!Kinds, Kinds

(* Every step of the retransmitter is a step of the queue or none. *)
LEMMA StepAbs ==
  Inv /\ Sought /\ [Next]_vars => (Queue!AbsNext \/ Stutters) /\ Sought'
<1> SUFFICES ASSUME Inv, Sought, [Next]_vars PROVE (Queue!AbsNext \/ Stutters) /\ Sought'
  OBVIOUS
<1>1. Both
  BY StepInv DEF Inv, ListInv, Both
<1>2. Types /\ Control /\ ListInv
  BY <1>1 DEF Both
<1>3. CASE PtrUpdate
  BY <1>1, <1>2, <1>3, PtrUpdateEffect, PtrUpdateLists, TableSteps DEF FifoStep
<1>4. CASE PtrRequest
  BY <1>1, <1>2, <1>4, PtrRequestEffect, PtrRequestLists, TableSteps DEF FifoStep
<1>5. CASE MetaTable
  BY <1>1, <1>2, <1>5, MetaTableEffect, MetaTableLists, TableSteps
<1>6. CASE FreeList
  BY <1>1, <1>2, <1>6, FreeListEffect, FreeListLists, TableSteps DEF MReq, MRsp
<1>7. CASE Arrive
  BY <1>1, <1>7, ArriveAbs DEF Queue!AbsNext
<1>8. CASE MainUpdate
  BY <1>1, <1>8, MainUpdateAbs DEF Queue!AbsNext
<1>9. CASE MainNak
  BY <1>1, <1>9, MainNakAbs DEF Queue!AbsNext
<1>10. CASE MainTimeout
  BY <1>1, <1>10, MainTimeoutAbs DEF Queue!AbsNext
<1>11. CASE MainInsert
  BY <1>1, <1>11, MainInsertAbs DEF Queue!AbsNext
<1>12. CASE Insert0First
  BY <1>1, <1>12, Insert0FirstAbs
<1>13. CASE Insert0Append
  BY <1>1, <1>13, Insert0AppendAbs
<1>14. CASE Insert1
  BY <1>1, <1>14, Insert1Abs
<1>15. CASE Update0
  BY <1>1, <1>15, Update0Abs
<1>16. CASE Update1Keep
  BY <1>1, <1>16, Update1KeepAbs
<1>17. CASE Update1Release
  BY <1>1, <1>17, Update1ReleaseAbs
<1>18. CASE Retrans0
  BY <1>1, <1>18, Retrans0Abs
<1>19. CASE TimerRetrans0
  BY <1>1, <1>19, TimerRetrans0Abs
<1>20. CASE Retrans1
  BY <1>1, <1>20, Retrans1Abs DEF Queue!AbsNext
<1>21. CASE Retrans2
  BY <1>1, <1>21, Retrans2Abs DEF Queue!AbsNext
<1>22. CASE UNCHANGED vars
  <2>1. UNCHANGED <<script, in, fsm, ptr, meta, free, fifo, events, init>>
    BY <1>22 DEF vars
  <2>2. MetaNow' = MetaNow /\ Hand' = Hand /\ MReq' = MReq /\ MRsp' = MRsp /\ PUpd' = PUpd
    BY <2>1, NowSame DEF MReq, MRsp, PUpd, Hand
  <2>3. Stay
    BY <1>2, <2>1, <2>2, PtrsSame, QuietStep DEF ListInv, Stay
  <2> QED
    BY <1>1, <2>1, <2>2, <2>3, TableSteps
<1> QED
  BY <1>3, <1>4, <1>5, <1>6, <1>7, <1>8, <1>9, <1>10, <1>11, <1>12, <1>13, <1>14, <1>15, <1>16,
     <1>17, <1>18, <1>19, <1>20, <1>21, <1>22 DEF Next, Tables, Process

(* The retransmitter implements RetransQueue: although the pointer of a    *)
(* list is written back over a FIFO, its entries are written and read over *)
(* two more, an index is reused once it has gone round the free list, and  *)
(* NAKs and timeouts walk a list that is not locked, an answer is credited *)
(* to the oldest request, a new request is put at the end, a timeout sends *)
(* every stored request in order and a NAK those from its PSN on.          *)
THEOREM Refines == Spec => Implements
<1>1. Init => Queue!Init /\ Sought
  BY InitAbs
<1>2. Inv /\ Sought /\ [Next]_vars => [Queue!AbsNext]_(Queue!absVars) /\ Sought'
  BY StepAbs DEF Stutters, Queue!absVars
<1> QED
  BY <1>1, <1>2, InvHolds, PTL DEF Spec, Implements, Queue!AbsSpec
=============================================================================
