------------------------ MODULE RoceTransportProofs ------------------------
(* Proofs about the reliable connection of ib_transport_protocol, for every *)
(* program of WRITEs and SENDs, window, number of PSNs and pattern of      *)
(* losses.                                                                 *)
EXTENDS RoceTransport, BasicLemmas, FiniteSetTheorems

-----------------------------------------------------------------------------
(* Programs *)

Count == Len(sc.program)
Req(i) == sc.program[i]

(* PSN of request i, its entry in the retransmitter, what it writes.       *)
Psn(i) == Inc(FirstPsn, i - 1)
Entry(i) == [op |-> Req(i).op, psn |-> Psn(i), laddr |-> Req(i).laddr,
             raddr |-> Req(i).raddr, len |-> Req(i).len]
Written(i) == <<IF Req(i).op \in Sends THEN 0 ELSE Req(i).raddr, Req(i).laddr>>

(* Number of requests the responder has taken. *)
Done == Inc(resp.epsn, -FirstPsn)

(* A sum of ones counts them. *)
LEMMA OnesCount ==
  ASSUME NEW s \in Seq(Nat), \A i \in 1 .. Len(s) : s[i] = 1
  PROVE  \A i \in 0 .. Len(s) : Sums(s)[i] = i
<1> DEFINE Bad == {n \in Nat : n <= Len(s) /\ Sums(s)[n] # n}
<1>1. Len(s) \in Nat /\ SumUp(s, Sums(s))
  BY SumsAre
<1>2. Bad = {}
  <2> SUFFICES ASSUME Bad # {} PROVE FALSE
    OBVIOUS
  <2>1. PICK n \in Bad : \A m \in Bad : n <= m
    BY LeastNumber
  <2>2. n # 0
    BY <2>1, <1>1 DEF SumUp
  <2>3. n \in 1 .. Len(s) /\ n - 1 \in Nat /\ n - 1 <= Len(s) /\ n - 1 \notin Bad
    BY <2>1, <2>2, <1>1
  <2>4. Sums(s)[n - 1] = n - 1
    BY <2>3
  <2>5. Sums(s)[n] = Sums(s)[n - 1] + s[n]
    BY <1>1, <2>3 DEF SumUp
  <2> QED
    BY <2>1, <2>3, <2>4, <2>5
<1> QED
  BY <1>1, <1>2

(* One-element sequences, put together. *)
LEMMA SinglesFlat ==
  ASSUME NEW S, NEW n \in Nat, NEW w \in [1 .. n -> S], NEW ss,
         ss = [i \in 1 .. n |-> <<w[i]>>]
  PROVE  FlattenSeq(ss) = w
<1> DEFINE Def(f) == [i \in 1 .. Len(ss) |-> IF i = 1 THEN ss[i] ELSE f[i - 1] \o ss[i]]
           flatten == CHOOSE f : f = Def(f)
           Cut(i) == [k \in 1 .. i |-> w[k]]
           e == [i \in 1 .. n |-> Cut(i)]
<1>1. ss \in Seq(Seq(S)) /\ Len(ss) = n /\ \A i \in 1 .. n : ss[i] = <<w[i]>>
  OBVIOUS
<1>2. CASE n = 0
  <2>1. ss = <<>> /\ w = <<>>
    BY <1>2
  <2> QED
    BY <2>1, <1>1, <1>2 DEF FlattenSeq
<1>3. CASE n # 0
  <2>1. ASSUME NEW i \in 1 .. n PROVE /\ Cut(i) \in Seq(S) /\ Len(Cut(i)) = i
                                      /\ \A k \in 1 .. i : Cut(i)[k] = w[k]
    OBVIOUS
  <2>2. ASSUME NEW i \in 2 .. n PROVE Cut(i - 1) \o ss[i] = Cut(i)
    <3>1. i - 1 \in 1 .. n /\ i \in 1 .. n /\ (i - 1) + 1 = i
      OBVIOUS
    <3>2. <<w[i]>> \in Seq(S) /\ Len(<<w[i]>>) = 1 /\ <<w[i]>>[1] = w[i]
      BY <3>1
    <3> DEFINE c == Cut(i - 1) \o <<w[i]>>
    <3>3. Cut(i - 1) \in Seq(S) /\ Len(Cut(i - 1)) = i - 1 /\ \A k \in 1 .. i - 1 : Cut(i - 1)[k] = w[k]
      BY <2>1, <3>1
    <3>4. /\ Cut(i) \in Seq(S) /\ Len(Cut(i)) = i /\ \A k \in 1 .. i : Cut(i)[k] = w[k]
      BY <2>1, <3>1
    <3> HIDE DEF Cut
    <3>5. /\ c \in Seq(S) /\ Len(c) = i /\ \A k \in 1 .. i - 1 : c[k] = w[k]
          /\ c[i] = w[i]
      BY <3>1, <3>2, <3>3, Concatenated
    <3> HIDE DEF c
    <3>6. c = Cut(i)
      BY <3>1, <3>4, <3>5
    <3> QED
      BY <1>1, <3>1, <3>6 DEF c
  <2>3. Cut(1) = ss[1]
    BY <1>1, <1>3
  <2> HIDE DEF Cut
  <2>4. e = Def(e)
    <3>1. ASSUME NEW i \in 1 .. n PROVE e[i] = Def(e)[i]
      <4>1. CASE i = 1
        BY <4>1, <1>1, <2>3
      <4>2. CASE i # 1
        <5>1. i \in 2 .. n /\ i - 1 \in 1 .. n
          BY <4>2
        <5> QED
          BY <5>1, <4>2, <1>1, <2>2
      <4> QED
        BY <4>1, <4>2
    <3> QED
      BY <3>1, <1>1
  <2>5. flatten = Def(flatten)
    BY <2>4
  <2>6. FlattenSeq(ss) = flatten[n]
    BY <1>1, <1>3 DEF FlattenSeq
  <2> HIDE DEF flatten
  <2> DEFINE Bad == {i \in Nat : i \in 1 .. n /\ flatten[i] # Cut(i)}
  <2>7. Bad = {}
    <3> SUFFICES ASSUME Bad # {} PROVE FALSE
      OBVIOUS
    <3>1. PICK i \in Bad : \A m \in Bad : i <= m
      BY LeastNumber
    <3>2. flatten[i] = IF i = 1 THEN ss[i] ELSE flatten[i - 1] \o ss[i]
      BY <1>1, <2>5, <3>1
    <3>3. i # 1
      BY <3>1, <3>2, <2>3
    <3>4. i \in 2 .. n /\ i - 1 \in Nat /\ i - 1 \in 1 .. n /\ i - 1 \notin Bad
      BY <3>1, <3>3
    <3>5. flatten[i - 1] = Cut(i - 1)
      BY <3>4
    <3> QED
      BY <3>1, <3>2, <3>3, <3>4, <3>5, <2>2
  <2>8. flatten[n] = Cut(n)
    BY <1>3, <2>7
  <2>9. Cut(n) = w
    BY DEF Cut
  <2> QED
    BY <2>6, <2>8, <2>9
<1> QED
  BY <1>2, <1>3

(* What a program of WRITEs and SENDs is. *)
LEMMA Program ==
  ASSUME sc \in Scenarios, ReadFree
  PROVE  /\ Count \in Nat /\ Count < PsnMod
         /\ \A i \in 1 .. Count : /\ Req(i) \in Request /\ Req(i).op \in Writes \cup Sends
                                  /\ Offset(i) = i - 1
                                  /\ NumPkg(Req(i).op, Req(i).len) = 1
         /\ WrittenData \in Seq(Nat \X Nat) /\ Len(WrittenData) = Count
         /\ \A i \in 1 .. Count : WrittenData[i] = Written(i) /\ Written(i) \in Nat \X Nat
         /\ \A i \in 1 .. Count : Req(i).op \in {"WRITE_MIDDLE", "WRITE_LAST"} =>
              i > 1 /\ Continues(Req(i), Req(i - 1))
<1> DEFINE t == Taken(sc.program)
<1>1. sc.program \in Seq(Request) /\ Total(t) < PsnMod /\ DOMAIN sc.program = 1 .. Count
      /\ \A i \in DOMAIN sc.program : sc.program[i].op \in {"WRITE_MIDDLE", "WRITE_LAST"} =>
            i > 1 /\ Continues(sc.program[i], sc.program[i - 1])
  BY RoceAssumption DEF WellCut, Count
<1>2. Count \in Nat
  BY <1>1 DEF Count
<1>3. ASSUME NEW i \in 1 .. Count
      PROVE  /\ Req(i) \in Request /\ Req(i).op \in Writes \cup Sends
             /\ NumPkg(Req(i).op, Req(i).len) = 1
  <2>1. Req(i) \in Request /\ Req(i).op # "READ"
    BY <1>1 DEF Req, Count, ReadFree
  <2> QED
    BY <2>1 DEF Request, NumPkg
<1>4. t = [i \in 1 .. Count |-> 1]
  BY <1>1, <1>3 DEF Taken, Req
<1>5. t \in Seq(Nat) /\ Len(t) = Count /\ \A i \in 1 .. Len(t) : t[i] = 1
  BY <1>2, <1>4
<1> HIDE DEF t
<1>6. \A i \in 0 .. Count : Sums(t)[i] = i
  BY <1>5, OnesCount
<1>7. Total(t) = Count
  BY <1>2, <1>5, <1>6 DEF Total
<1>8. ASSUME NEW i \in 1 .. Count PROVE Offset(i) = i - 1
  BY <1>2, <1>6 DEF Offset, t
<1>9. ASSUME NEW i \in 1 .. Count PROVE Written(i) \in Nat \X Nat
  BY <1>3 DEF Written, Request
<1> DEFINE w == [i \in 1 .. Count |-> Written(i)]
<1>10. w \in [1 .. Count -> Nat \X Nat]
  BY <1>9
<1>11. [i \in DOMAIN sc.program |-> WrittenBy(sc.program[i])] = [i \in 1 .. Count |-> <<w[i]>>]
  <2>1. ASSUME NEW i \in 1 .. Count PROVE WrittenBy(sc.program[i]) = <<w[i]>>
    BY <1>1 DEF WrittenBy, Written, Req, ReadFree
  <2> HIDE DEF w
  <2> QED
    BY <1>1, <2>1
<1>12. \A i \in 1 .. Count : w[i] = Written(i)
  OBVIOUS
<1> HIDE DEF w
<1>13. WrittenData = w
  BY <1>2, <1>10, <1>11, SinglesFlat DEF WrittenData
<1>14. w \in Seq(Nat \X Nat) /\ Len(w) = Count
  BY <1>2, <1>10, FunctionIsSeq
<1> QED
  BY <1>1, <1>2, <1>3, <1>7, <1>8, <1>9, <1>12, <1>13, <1>14 DEF t, Req

-----------------------------------------------------------------------------
(* PSNs *)

Psns == 0 .. PsnMod - 1

LEMMA PsnIs ==
  ASSUME NEW i \in 1 .. PsnMod
  PROVE  /\ Psn(i) \in Psns
         /\ Psn(i) = IF FirstPsn + i - 1 < PsnMod THEN FirstPsn + i - 1
                     ELSE FirstPsn + i - 1 - PsnMod
<1>1. PsnMod \in Nat \ {0} /\ FirstPsn \in 0 .. PsnMod - 1 /\ i - 1 \in 0 .. PsnMod
      /\ FirstPsn \in Int
  BY RoceAssumption
<1>2. FirstPsn % PsnMod = FirstPsn
  BY <1>1, ModSmall
<1>3. (FirstPsn + (i - 1)) % PsnMod = IF FirstPsn + (i - 1) < PsnMod THEN FirstPsn + (i - 1)
                                      ELSE FirstPsn + (i - 1) - PsnMod
  BY <1>1, <1>2, ModAdd
<1>4. Psn(i) = (FirstPsn + (i - 1)) % PsnMod
  BY DEF Psn, Inc
<1>5. Psn(i) \in 0 .. PsnMod - 1
  BY <1>1, <1>4, ModRange
<1> QED
  BY <1>1, <1>3, <1>4, <1>5 DEF Psns

(* No PSN belongs to two requests. *)
LEMMA PsnInjective ==
  ASSUME NEW i \in 1 .. PsnMod, NEW j \in 1 .. PsnMod, Psn(i) = Psn(j)
  PROVE  i = j
<1>1. PsnMod \in Nat \ {0} /\ FirstPsn \in 0 .. PsnMod - 1
  BY RoceAssumption
<1> QED
  BY <1>1, PsnIs

LEMMA PsnNext ==
  ASSUME NEW i \in 1 .. PsnMod - 1
  PROVE  Inc(Psn(i), 1) = Psn(i + 1)
<1>1. PsnMod \in Nat \ {0, 1} /\ FirstPsn \in 0 .. PsnMod - 1 /\ i \in 1 .. PsnMod
      /\ i + 1 \in 1 .. PsnMod /\ 1 \in 0 .. PsnMod
  BY RoceAssumption
<1> DEFINE p == Psn(i)
<1>2. p \in 0 .. PsnMod - 1
      /\ p = IF FirstPsn + i - 1 < PsnMod THEN FirstPsn + i - 1 ELSE FirstPsn + i - 1 - PsnMod
  BY <1>1, PsnIs DEF Psns
<1>3. Psn(i + 1) = IF FirstPsn + i < PsnMod THEN FirstPsn + i ELSE FirstPsn + i - PsnMod
  <2>1. FirstPsn + (i + 1) - 1 = FirstPsn + i
    BY <1>1
  <2> QED
    BY <1>1, <2>1, PsnIs
<1> HIDE DEF p
<1>4. p % PsnMod = p /\ p \in Int
  BY <1>1, <1>2, ModSmall
<1>5. (p + 1) % PsnMod = IF p + 1 < PsnMod THEN p + 1 ELSE p + 1 - PsnMod
  BY <1>1, <1>4, ModAdd
<1>6. Inc(p, 1) = (p + 1) % PsnMod
  BY DEF Inc
<1>7. FirstPsn \in Int /\ i \in Int /\ PsnMod \in Int
  BY <1>1
<1> QED
  BY <1>1, <1>2, <1>3, <1>5, <1>6, <1>7 DEF p

LEMMA DoneIs ==
  ASSUME NEW x \in 0 .. PsnMod - 1
  PROVE  Inc(Psn(x + 1), -FirstPsn) = x
<1> DEFINE e == Psn(x + 1)
<1>1. PsnMod \in Nat \ {0, 1} /\ FirstPsn \in 0 .. PsnMod - 1 /\ x + 1 \in 1 .. PsnMod
  BY RoceAssumption
<1>2. e = IF FirstPsn + x < PsnMod THEN FirstPsn + x ELSE FirstPsn + x - PsnMod
  <2>1. FirstPsn + (x + 1) - 1 = FirstPsn + x
    BY <1>1
  <2> QED
    BY <1>1, <2>1, PsnIs
<1> SUFFICES Inc(e, -FirstPsn) = x
  OBVIOUS
<1> HIDE DEF e
<1>3. Inc(e, -FirstPsn) = (e + -FirstPsn) % PsnMod
  BY DEF Inc
<1>4. CASE FirstPsn + x < PsnMod
  <2>1. e + -FirstPsn = PsnMod * 0 + x
    BY <1>1, <1>2, <1>4
  <2>2. e + -FirstPsn \in Int
    BY <1>1, <2>1
  <2> QED
    BY <1>1, <1>3, <2>1, <2>2, ModUnique
<1>5. CASE ~(FirstPsn + x < PsnMod)
  <2>1. e + -FirstPsn = x - PsnMod
    BY <1>1, <1>2, <1>5
  <2>2. x - PsnMod = PsnMod * (-1) + x /\ -1 \in Int /\ x - PsnMod \in Int
    BY <1>1
  <2> QED
    BY <1>1, <1>3, <2>1, <2>2, ModUnique
<1> QED
  BY <1>4, <1>5

(* The responder tells what it has taken from what it has not. *)
LEMMA DuplicateIs ==
  ASSUME NEW x \in 0 .. PsnMod - 1, NEW i \in 1 .. PsnMod - 1, i # x + 1
  PROVE  /\ Psn(i) # Psn(x + 1)
         /\ IsDuplicate(Psn(i), Psn(x + 1), FirstPsn) <=> i <= x
<1>1. PsnMod \in Nat \ {0, 1} /\ FirstPsn \in 0 .. PsnMod - 1 /\ x + 1 \in 1 .. PsnMod
      /\ i \in 1 .. PsnMod
  BY RoceAssumption
<1>2. Psn(x + 1) = IF FirstPsn + x < PsnMod THEN FirstPsn + x ELSE FirstPsn + x - PsnMod
  <2>1. FirstPsn + (x + 1) - 1 = FirstPsn + x
    BY <1>1
  <2> QED
    BY <1>1, <2>1, PsnIs
<1>3. Psn(i) = IF FirstPsn + i - 1 < PsnMod THEN FirstPsn + i - 1 ELSE FirstPsn + i - 1 - PsnMod
  BY <1>1, PsnIs
<1>4. Psn(i) # Psn(x + 1)
  BY <1>1, PsnInjective
<1> QED
  BY <1>1, <1>2, <1>3, <1>4 DEF IsDuplicate

-----------------------------------------------------------------------------
(* The invariant of every program of WRITEs and SENDs, whatever is lost *)

Entries == {Entry(i) : i \in 1 .. Count}
Packets == {Packet(e) : e \in Entries}
Cells == Nat \X Nat
Event == [psn : Psns, nak : BOOLEAN]
Answer == [op : {"ACK"}, psn : Psns, nak : BOOLEAN, data : {0}]
Loaded == [p : Answer, epsn : Psns, maxForward : Psns]

Types ==
  /\ sc \in Scenarios /\ ReadFree
  /\ sq \in 0 .. Count /\ nextPsn = Psn(sq + 1) /\ unack \in Psns
  /\ rt \in [list : Seq(Entries), insert : Seq(Entries), upd : Seq({"ACK"}), nak : Seq(Psns),
             timeout : Nat, events : Seq(Entries), init : {<<>>}, lost : BOOLEAN]
  /\ rx \in Seq(Loaded) /\ Len(rx) <= 1
  /\ exh \in [fifo : Seq(Answer), vaddr : {0}, mem : {<<>>}]
  /\ acked \in Seq(Psns)
  /\ net \in [req : Seq(Packets), rsp : Seq(Answer), lost : Nat]
  /\ resp \in [epsn : Psns, retry : {6, 7}, fifo : Seq(Packets), msn : Nat, vaddr : Nat,
               mem : Seq(Cells), exhEvents : Seq(Event), ibhEvents : Seq(Event),
               reads : {<<>>}, readEvents : {<<>>}]

(* The responder has taken the first Done requests; those in its FIFO are  *)
(* the last of them, and the others are in memory.                         *)
Served ==
  /\ Done \in 0 .. Count /\ resp.epsn = Psn(Done + 1)
  /\ Done = Len(resp.mem) + Len(resp.fifo)
  /\ \A j \in 1 .. Len(resp.fifo) : resp.fifo[j] = Packet(Entry(Len(resp.mem) + j))
  /\ \A j \in 1 .. Len(resp.mem) : resp.mem[j] = Written(j)
  /\ Len(resp.mem) # 0 /\ Req(Len(resp.mem)).op \in Writes =>
        resp.vaddr = Req(Len(resp.mem)).raddr + 1

Plain == Types /\ Served

(* An entry and the packet made from it. *)
LEMMA EntryIs ==
  ASSUME sc \in Scenarios, ReadFree, NEW i \in 1 .. Count
  PROVE  /\ Entry(i) \in Entries /\ Packet(Entry(i)) \in Packets /\ Psn(i) \in Psns
         /\ Entry(i).psn = Psn(i) /\ Packet(Entry(i)).psn = Psn(i)
         /\ Entry(i).op = Req(i).op /\ Packet(Entry(i)).op = Req(i).op
         /\ Packet(Entry(i)).raddr = Req(i).raddr /\ Packet(Entry(i)).data = Req(i).laddr
         /\ Packet(Entry(i)).len = Req(i).len
<1>1. i \in 1 .. PsnMod
  BY Program, RoceAssumption
<1>2. Psn(i) \in Psns
  BY <1>1, PsnIs
<1> QED
  BY <1>2 DEF Entry, Packet, Entries, Packets

(* The invariant is about the responder and the scenario. *)
LEMMA ServedSame ==
  ASSUME Served, UNCHANGED <<sc, resp>>
  PROVE  Served'
  BY DEF Served, Done, Count, Req, Written, Packet, Entry, Psn

LEMMA InitPlain ==
  ASSUME Init, ReadFree
  PROVE  Plain
<1>1. sc \in Scenarios /\ Count \in Nat /\ Count < PsnMod
  BY Program DEF Init
<1>2. 1 \in 1 .. PsnMod /\ 0 \in 0 .. PsnMod - 1 /\ 0 + 1 = 1
  BY RoceAssumption
<1>3. FirstPsn = Psn(1) /\ Psn(1) \in Psns
  <2>1. Psn(1) = FirstPsn /\ Psn(1) \in Psns
    BY <1>2, PsnIs, RoceAssumption
  <2> QED
    BY <2>1
<1>4. resp.epsn = Psn(0 + 1)
  BY <1>3 DEF Init
<1>5. Done = 0
  BY <1>2, <1>4, DoneIs DEF Done
<1>6. Types
  BY <1>1, <1>3 DEF Init, StateSetup, Types
<1>7. Served
  BY <1>1, <1>4, <1>5 DEF Init, Served
<1> QED
  BY <1>6, <1>7 DEF Plain

-----------------------------------------------------------------------------
(* Its steps *)

LEMMA SameProgram ==
  ASSUME sc' = sc
  PROVE  /\ Count' = Count /\ Entries' = Entries /\ Packets' = Packets
         /\ ReadFree' = ReadFree
         /\ \A i : Psn(i)' = Psn(i) /\ Entry(i)' = Entry(i) /\ Req(i)' = Req(i)
                   /\ Written(i)' = Written(i)
  BY DEF Count, Entries, Packets, ReadFree, Psn, Entry, Req, Written, Packet

LEMMA LocalRequestPlain ==
  ASSUME Plain, LocalRequest
  PROVE  Plain'
<1>1. Types /\ Served
  BY DEF Plain
<1>2. sc \in Scenarios /\ ReadFree /\ sq \in 0 .. Count /\ Count \in Nat /\ Count < PsnMod
  BY <1>1, Program DEF Types
<1>3. sq + 1 \in 1 .. Count /\ sq + 1 \in 1 .. PsnMod - 1
  BY <1>2, RoceAssumption DEF LocalRequest, Count
<1> DEFINE e == Entry(sq + 1)
<1>4. /\ net' = [net EXCEPT !.req = Append(@, Packet(e))]
      /\ nextPsn' = Inc(nextPsn, NumPkg(Req(sq + 1).op, Req(sq + 1).len))
      /\ rt' = [rt EXCEPT !.insert = Append(@, e)]
  BY <1>1 DEF LocalRequest, Entry, Req, Types
<1>5. e \in Entries /\ Packet(e) \in Packets
  BY <1>2, <1>3, EntryIs
<1> HIDE DEF e
<1>6. UNCHANGED <<sc, unack, rx, exh, acked, resp>> /\ sq' = sq + 1
  BY DEF LocalRequest
<1>7. nextPsn' = Psn(sq' + 1)
  <2>1. NumPkg(Req(sq + 1).op, Req(sq + 1).len) = 1
    BY <1>2, <1>3, Program
  <2>2. nextPsn' = Inc(Psn(sq + 1), 1)
    BY <1>1, <1>4, <2>1 DEF Types
  <2>3. Inc(Psn(sq + 1), 1) = Psn((sq + 1) + 1)
    BY <1>3, PsnNext
  <2> QED
    BY <1>6, <2>2, <2>3
<1>8. Append(rt.insert, e) \in Seq(Entries) /\ Append(net.req, Packet(e)) \in Seq(Packets)
  BY <1>1, <1>5, Appended DEF Types
<1>9. Types'
  <2>1. sq' \in 0 .. Count
    BY <1>2, <1>3, <1>6
  <2> QED
    BY <1>1, <1>4, <1>6, <1>7, <1>8, <2>1, SameProgram DEF Types
<1> QED
  BY <1>1, <1>6, <1>9, ServedSame DEF Plain

LEMMA LocalRetransmitPlain ==
  ASSUME Plain, LocalRetransmit
  PROVE  Plain'
<1>1. Types /\ Served
  BY DEF Plain
<1>2. UNCHANGED <<sc, sq, nextPsn, acked, unack, rx, exh, resp>> /\ rt.events # <<>>
      /\ net' = [net EXCEPT !.req = Append(@, Packet(Head(rt.events)))]
      /\ rt' = [rt EXCEPT !.events = Tail(@)]
  BY DEF LocalRetransmit, tx
<1>3. rt.events \in Seq(Entries) /\ net.req \in Seq(Packets)
  BY <1>1 DEF Types
<1>4. Head(rt.events) \in Entries /\ Tail(rt.events) \in Seq(Entries)
  BY <1>2, <1>3, HeadAndTail
<1>5. Append(net.req, Packet(Head(rt.events))) \in Seq(Packets)
  BY <1>3, <1>4, Appended DEF Packets
<1>6. Types'
  BY <1>1, <1>2, <1>4, <1>5, SameProgram DEF Types
<1> QED
  BY <1>1, <1>2, <1>6, ServedSame DEF Plain

LEMMA TimerPlain ==
  ASSUME Plain, Timer
  PROVE  Plain'
<1>1. Types /\ Served
  BY DEF Plain
<1>2. UNCHANGED <<sc, sq, nextPsn, acked, unack, rx, exh, net, resp>>
      /\ (rt' = rt \/ rt' = [rt EXCEPT !.timeout = @ + 1])
  BY DEF Timer, TimerClear, TimerSet, TimerExpire, tx
<1>3. Types'
  <2>1. CASE rt' = rt
    BY <1>1, <1>2, <2>1, SameProgram DEF Types
  <2>2. CASE rt' = [rt EXCEPT !.timeout = rt.timeout + 1]
    <3>1. rt.timeout + 1 \in Nat
      BY <1>1, SMTT(40) DEF Types
    <3> QED
      BY <1>1, <1>2, <2>2, <3>1, SameProgram DEF Types
  <2> QED
    BY <1>2, <2>1, <2>2
<1> QED
  BY <1>1, <1>2, <1>3, ServedSame DEF Plain

(* What a NAK sends again is stored. *)
LEMMA SuffixStored ==
  ASSUME NEW S, NEW q \in Seq(S), NEW psn
  PROVE  SuffixFrom(q, psn) \in Seq(S)
<1> DEFINE I == {i \in 1 .. Len(q) : q[i].psn = psn}
<1>1. IndexOf(q, psn) \in 0 .. Len(q)
  <2>1. IndexOf(q, psn) = IF I # {} THEN Min(I) ELSE 0
    BY DEF IndexOf, SelectInSeq
  <2>2. CASE I = {}
    BY <2>1, <2>2
  <2>3. CASE I # {}
    <3>1. I \in SUBSET Nat
      OBVIOUS
    <3>2. \E n \in I : \A m \in I : n <= m
      <4> HIDE DEF I
      <4> QED
        BY <2>3, <3>1, LeastNumber
    <3>3. Min(I) \in I
      BY <3>2 DEF Min
    <3> QED
      BY <2>1, <2>3, <3>3
  <2> QED
    BY <2>2, <2>3
<1>2. IndexOf(q, psn) # 0 => SubSeq(q, IndexOf(q, psn), Len(q)) \in Seq(S)
  <2> DEFINE i == IndexOf(q, psn)
  <2>1. i \in 0 .. Len(q)
    BY <1>1
  <2> HIDE DEF i
  <2>2. i # 0 => SubSeq(q, i, Len(q)) \in Seq(S)
    BY <2>1
  <2> QED
    BY <2>2 DEF i
<1>3. SuffixFrom(q, psn) = IF IndexOf(q, psn) = 0 THEN <<>>
                           ELSE SubSeq(q, IndexOf(q, psn), Len(q))
  BY DEF SuffixFrom
<1> QED
  BY <1>2, <1>3

LEMMA RetransmitterPlain ==
  ASSUME Plain, Retransmitter
  PROVE  Plain'
<1>1. Types /\ Served
  BY DEF Plain
<1>2. UNCHANGED <<sc, sq, nextPsn, acked, unack, timer, rx, exh, net, resp>>
  BY DEF Retransmitter, RetransUpdate, RetransNak, RetransTimeout, RetransInsert, tx
<1>3. rt.list \in Seq(Entries) /\ rt.insert \in Seq(Entries) /\ rt.events \in Seq(Entries)
      /\ rt.upd \in Seq({"ACK"}) /\ rt.nak \in Seq(Psns) /\ rt.timeout \in Nat
  BY <1>1 DEF Types
<1>4. CASE RetransUpdate
  <2>1. rt.upd # <<>>
    BY <1>4 DEF RetransUpdate
  <2>2. Head(rt.upd) = "ACK" /\ Tail(rt.upd) \in Seq({"ACK"})
    BY <1>3, <2>1, HeadAndTail
  <2>3. Answered(rt.list, "ACK") \in Seq(Entries)
    <3>1. Answered(rt.list, "ACK") = IF rt.list = <<>> THEN rt.list ELSE Tail(rt.list)
      BY DEF Answered, KeepsEntry
    <3>2. rt.list # <<>> => Tail(rt.list) \in Seq(Entries)
      BY <1>3, HeadAndTail
    <3> QED
      BY <1>3, <3>1, <3>2
  <2>4. rt' = [rt EXCEPT !.upd = Tail(rt.upd), !.list = Answered(rt.list, "ACK"),
                         !.init = rt.init]
    BY <1>1, <1>4, <2>2 DEF RetransUpdate, ForwardsAddress, Types
  <2>5. Types'
    BY <1>1, <1>2, <2>2, <2>3, <2>4, SameProgram DEF Types
  <2> QED
    BY <1>1, <1>2, <2>5, ServedSame DEF Plain
<1>5. CASE RetransNak
  <2>1. rt.nak # <<>>
        /\ rt' = [rt EXCEPT !.nak = Tail(rt.nak),
                    !.events = rt.events \o SuffixFrom(rt.list, Head(rt.nak)),
                    !.lost = rt.list # <<>> /\ IndexOf(rt.list, Head(rt.nak)) = 0]
    BY <1>1, <1>5 DEF RetransNak, Types
  <2>2. Tail(rt.nak) \in Seq(Psns)
    BY <1>3, <2>1, HeadAndTail
  <2>3. rt.events \o SuffixFrom(rt.list, Head(rt.nak)) \in Seq(Entries)
    BY <1>3, SuffixStored, Concatenated
  <2>4. (rt.list # <<>> /\ IndexOf(rt.list, Head(rt.nak)) = 0) \in BOOLEAN
    OBVIOUS
  <2>5. Types'
    BY <1>1, <1>2, <2>1, <2>2, <2>3, <2>4, SameProgram DEF Types
  <2> QED
    BY <1>1, <1>2, <2>5, ServedSame DEF Plain
<1>6. CASE RetransTimeout
  <2>1. rt.timeout > 0 /\ rt' = [rt EXCEPT !.timeout = rt.timeout - 1,
                                          !.events = rt.events \o rt.list]
    BY <1>1, <1>6 DEF RetransTimeout, Types
  <2>2. rt.events \o rt.list \in Seq(Entries) /\ rt.timeout - 1 \in Nat
    BY <1>3, <2>1, Concatenated
  <2>3. Types'
    BY <1>1, <1>2, <2>1, <2>2, SameProgram DEF Types
  <2> QED
    BY <1>1, <1>2, <2>3, ServedSame DEF Plain
<1>7. CASE RetransInsert
  <2>1. rt.insert # <<>> /\ rt' = [rt EXCEPT !.insert = Tail(rt.insert),
                                            !.list = Append(rt.list, Head(rt.insert))]
    BY <1>1, <1>7 DEF RetransInsert, Types
  <2>2. Tail(rt.insert) \in Seq(Entries) /\ Append(rt.list, Head(rt.insert)) \in Seq(Entries)
    BY <1>3, <2>1, HeadAndTail, Appended
  <2>3. Types'
    BY <1>1, <1>2, <2>1, <2>2, SameProgram DEF Types
  <2> QED
    BY <1>1, <1>2, <2>3, ServedSame DEF Plain
<1> QED
  BY <1>4, <1>5, <1>6, <1>7 DEF Retransmitter

LEMMA ReceivePlain ==
  ASSUME Plain, Receive
  PROVE  Plain'
<1>1. Types /\ Served
  BY DEF Plain
<1>2. UNCHANGED <<sc, sq, nextPsn, resp>>
  BY DEF Receive, RxLoad, RxAccept, RxDrop, RxExh, tx
<1>3. /\ PsnMod \in Nat \ {0} /\ rx \in Seq(Loaded) /\ Len(rx) <= 1 /\ net.rsp \in Seq(Answer)
      /\ exh.fifo \in Seq(Answer) /\ rt.upd \in Seq({"ACK"}) /\ rt.nak \in Seq(Psns)
      /\ acked \in Seq(Psns) /\ unack \in Psns /\ <<>> \in Seq(Loaded) /\ Len(<<>>) = 0
  BY <1>1, RoceAssumption DEF Types
<1>4. CASE RxLoad
  <2>1. /\ net.rsp # <<>> /\ rx' = <<ResponseWindow(Head(net.rsp))>>
        /\ net' = [net EXCEPT !.rsp = Tail(net.rsp)] /\ UNCHANGED <<acked, unack, rt, exh>>
    BY <1>1, <1>4 DEF RxLoad, tx, Types
  <2>2. Head(net.rsp) \in Answer /\ Tail(net.rsp) \in Seq(Answer)
    BY <1>3, <2>1, HeadAndTail
  <2>3. Inc(nextPsn, -1) \in Psns
    <3>1. nextPsn \in Int
      <4>1. sq + 1 \in 1 .. PsnMod /\ nextPsn = Psn(sq + 1)
        <5>1. sq \in 0 .. Count /\ Count \in Nat /\ Count < PsnMod
          BY <1>1, Program DEF Types
        <5> QED
          BY <1>1, <1>3, <5>1 DEF Types
      <4> QED
        BY <4>1, PsnIs DEF Psns
    <3>2. nextPsn + -1 \in Int
      BY <3>1
    <3> QED
      BY <1>3, <3>2, ModRange DEF Inc, Psns
  <2>4. ResponseWindow(Head(net.rsp)) \in Loaded
    BY <1>3, <2>2, <2>3 DEF ResponseWindow, Loaded
  <2>5. rx' \in Seq(Loaded) /\ Len(rx') <= 1
    BY <2>1, <2>4
  <2>6. Types'
    BY <1>1, <1>2, <2>1, <2>2, <2>5, SameProgram DEF Types
  <2> QED
    BY <1>1, <1>2, <2>6, ServedSame DEF Plain
<1>5. CASE RxAccept
  <2> DEFINE p == rx[1].p
  <2>1. rx # <<>> /\ rx' = <<>> /\ net' = net
    BY <1>5 DEF RxAccept
  <2>2. rx[1] \in Loaded
    BY <1>3, <2>1, HeadAndTail
  <2>3. p \in Answer
    BY <2>2 DEF Loaded
  <2>4. p.op = "ACK" /\ p.psn \in Psns /\ p.nak \in BOOLEAN
    BY <2>3 DEF Answer
  <2>5. /\ unack' \in {unack, Inc(p.psn, 1)}
        /\ exh' = [exh EXCEPT !.fifo = Append(exh.fifo, p)]
        /\ rt' = IF p.nak THEN rt ELSE [rt EXCEPT !.upd = Append(rt.upd, p.op)]
        /\ acked' = IF p.nak \/ p.op \in KeepsEntry THEN acked ELSE Append(acked, p.psn)
    BY <1>1, <1>5 DEF RxAccept, Types
  <2> HIDE DEF p
  <2>6. acked' = IF p.nak THEN acked ELSE Append(acked, p.psn)
    BY <2>4, <2>5 DEF KeepsEntry
  <2>7. Inc(p.psn, 1) \in Psns
    <3>1. p.psn + 1 \in Int
      BY <2>4 DEF Psns
    <3> QED
      BY <1>3, <3>1, ModRange DEF Inc, Psns
  <2>8. unack' \in Psns /\ acked' \in Seq(Psns)
    BY <1>3, <2>4, <2>5, <2>6, <2>7, Appended
  <2>9. Append(exh.fifo, p) \in Seq(Answer) /\ Append(rt.upd, p.op) \in Seq({"ACK"})
    BY <1>3, <2>3, <2>4, Appended
  <2>10. rt' \in [list : Seq(Entries), insert : Seq(Entries), upd : Seq({"ACK"}), nak : Seq(Psns),
             timeout : Nat, events : Seq(Entries), init : {<<>>}, lost : BOOLEAN]
    <3>1. CASE p.nak
      BY <1>1, <2>5, <3>1 DEF Types
    <3>2. CASE ~p.nak
      <4>1. rt' = [rt EXCEPT !.upd = Append(rt.upd, p.op)]
        BY <2>5, <3>2
      <4> QED
        BY <1>1, <2>9, <4>1 DEF Types
    <3> QED
      BY <3>1, <3>2
  <2>a. exh' \in [fifo : Seq(Answer), vaddr : {0}, mem : {<<>>}]
    BY <1>1, <2>5, <2>9 DEF Types
  <2>11. Types'
    BY <1>1, <1>2, <1>3, <2>1, <2>8, <2>a, <2>10, SameProgram DEF Types
  <2> QED
    BY <1>1, <1>2, <2>11, ServedSame DEF Plain
<1>6. CASE RxDrop
  <2>1. rx' = <<>> /\ UNCHANGED <<acked, unack, rt, exh, net>>
    BY <1>6 DEF RxDrop, tx
  <2>2. Types'
    BY <1>1, <1>2, <1>3, <2>1, SameProgram DEF Types
  <2> QED
    BY <1>1, <1>2, <2>2, ServedSame DEF Plain
<1>7. CASE RxExh
  <2> DEFINE p == Head(exh.fifo)
  <2>1. exh.fifo # <<>> /\ UNCHANGED <<acked, unack, rx, net>>
    BY <1>7 DEF RxExh, tx
  <2>2. p \in Answer /\ Tail(exh.fifo) \in Seq(Answer)
    BY <1>3, <2>1, HeadAndTail
  <2>3. p.op = "ACK" /\ p.psn \in Psns /\ p.nak \in BOOLEAN
    BY <2>2 DEF Answer
  <2>4. exh' = [exh EXCEPT !.fifo = Tail(exh.fifo)]
        /\ rt' = [rt EXCEPT !.init = rt.init, !.nak = IF p.nak THEN Append(rt.nak, p.psn) ELSE rt.nak]
    BY <1>1, <1>7, <2>3 DEF RxExh, ReadResponses, ForwardsAddress, Types
  <2> HIDE DEF p
  <2>5. (IF p.nak THEN Append(rt.nak, p.psn) ELSE rt.nak) \in Seq(Psns)
    BY <1>3, <2>3, Appended
  <2>6. Types'
    BY <1>1, <1>2, <2>1, <2>2, <2>4, <2>5, SameProgram DEF Types
  <2> QED
    BY <1>1, <1>2, <2>6, ServedSame DEF Plain
<1> QED
  BY <1>4, <1>5, <1>6, <1>7 DEF Receive

(* The responder takes, repeats or refuses a request. *)
LEMMA RespIbhPlain ==
  ASSUME Plain, RespIbh
  PROVE  Plain'
<1>1. Types /\ Served
  BY DEF Plain
<1> DEFINE p == Head(net.req)
<1>2. net.req # <<>> /\ UNCHANGED <<sc, sq, nextPsn, acked, unack, rt, rx, exh>>
      /\ net' = [net EXCEPT !.req = Tail(net.req)] /\ (Accept(p) \/ Again(p) \/ Reject(p))
  BY <1>1 DEF RespIbh, tx, Types
<1>3. p \in Packets /\ Tail(net.req) \in Seq(Packets)
  BY <1>1, <1>2, HeadAndTail DEF Types
<1>4. PICK i \in 1 .. Count : p = Packet(Entry(i))
  BY <1>3 DEF Packets, Entries
<1> HIDE DEF p
<1>5. /\ Count \in Nat /\ Count < PsnMod /\ i \in 1 .. PsnMod - 1 /\ p.psn = Psn(i)
      /\ p.op = Req(i).op /\ NumPkg(p.op, p.len) = 1 /\ p.op # "READ" /\ p.psn \in Psns
  <2>1. sc \in Scenarios /\ ReadFree
    BY <1>1 DEF Types
  <2>2. Count \in Nat /\ Count < PsnMod /\ PsnMod \in Nat
    BY <2>1, Program, RoceAssumption
  <2>3. Req(i).op \in Writes \cup Sends /\ NumPkg(Req(i).op, Req(i).len) = 1
    BY <2>1, Program
  <2>4. Req(i).op # "READ"
    BY <2>3 DEF Writes, Sends
  <2> QED
    BY <1>4, <2>1, <2>2, <2>3, <2>4, EntryIs
<1>6. Done \in 0 .. Count /\ resp.epsn = Psn(Done + 1) /\ Done \in 0 .. PsnMod - 1
  <2>1. Done \in 0 .. Count /\ resp.epsn = Psn(Done + 1)
    BY <1>1 DEF Served
  <2>2. Count \in Nat /\ Count < PsnMod /\ PsnMod \in Nat
    BY <1>5, RoceAssumption
  <2> HIDE DEF Done
  <2> QED
    BY <2>1, <2>2
<1>7. ASSUME resp' \in [epsn : Psns, retry : {6, 7}, fifo : Seq(Packets), msn : Nat, vaddr : Nat,
               mem : Seq(Cells), exhEvents : Seq(Event), ibhEvents : Seq(Event),
               reads : {<<>>}, readEvents : {<<>>}]
      PROVE  Types'
  BY <1>1, <1>2, <1>3, <1>7, SameProgram DEF Types
<1>8. CASE Accept(p)
  <2> PICK x \in 0 .. PsnMod - 1 : x = Done
    BY <1>6
  <2>1. p.psn = resp.epsn /\ resp' = [resp EXCEPT !.epsn = Inc(p.psn, 1), !.retry = 7,
                                                 !.fifo = Append(resp.fifo, p)]
    BY <1>1, <1>5, <1>8 DEF Accept, Types
  <2>2. x \in 0 .. PsnMod - 1 /\ resp.epsn = Psn(x + 1)
    BY <1>6
  <2>3. i = x + 1
    <3>1. i \in 1 .. PsnMod /\ x + 1 \in 1 .. PsnMod
      BY <1>5, <2>2, RoceAssumption
    <3> QED
      BY <1>5, <2>1, <2>2, <3>1, PsnInjective
  <2>4. Inc(p.psn, 1) = Psn((x + 1) + 1) /\ x + 1 \in 0 .. PsnMod - 1
    <3>1. x + 1 \in 1 .. PsnMod - 1
      BY <1>5, <2>3
    <3>2. Inc(Psn(x + 1), 1) = Psn((x + 1) + 1)
      BY <3>1, PsnNext
    <3> QED
      BY <1>5, <2>3, <3>1, <3>2
  <2>5. Psn((x + 1) + 1) \in Psns
    <3>1. (x + 1) + 1 \in 1 .. PsnMod
      BY <2>4, RoceAssumption
    <3> QED
      BY <3>1, PsnIs
  <2>6. resp.fifo \in Seq(Packets) /\ Len(resp.fifo) \in Nat /\ resp.mem \in Seq(Cells)
        /\ Len(resp.mem) \in Nat
    <3>1. resp.fifo \in Seq(Packets) /\ resp.mem \in Seq(Cells)
      BY <1>1 DEF Types
    <3>2. Len(resp.fifo) \in Nat
      BY <3>1
    <3>3. Len(resp.mem) \in Nat
      BY <3>1
    <3> QED
      BY <3>1, <3>2, <3>3
  <2>7. /\ Append(resp.fifo, p) \in Seq(Packets) /\ Len(Append(resp.fifo, p)) = Len(resp.fifo) + 1
        /\ \A j \in 1 .. Len(resp.fifo) : Append(resp.fifo, p)[j] = resp.fifo[j]
        /\ Append(resp.fifo, p)[Len(resp.fifo) + 1] = p
    BY <1>3, <2>6, Appended DEF p
  <2>8. Types'
    <3>1. resp' \in [epsn : Psns, retry : {6, 7}, fifo : Seq(Packets), msn : Nat, vaddr : Nat,
               mem : Seq(Cells), exhEvents : Seq(Event), ibhEvents : Seq(Event),
               reads : {<<>>}, readEvents : {<<>>}]
      BY <1>1, <2>1, <2>4, <2>5, <2>7 DEF Types
    <3> QED
      BY <1>7, <3>1
  <2>9. resp'.epsn = Psn((x + 1) + 1) /\ resp'.fifo = Append(resp.fifo, p)
        /\ resp'.mem = resp.mem /\ resp'.vaddr = resp.vaddr
    BY <1>1, <2>1, <2>4 DEF Types
  <2>10. Done' = x + 1
    <3>1. Done' = Inc(Psn((x + 1) + 1), -FirstPsn)
      BY <2>9 DEF Done
    <3> QED
      BY <2>4, <3>1, DoneIs
  <2>11. x = Len(resp.mem) + Len(resp.fifo)
         /\ (\A j \in 1 .. Len(resp.fifo) : resp.fifo[j] = Packet(Entry(Len(resp.mem) + j)))
         /\ (\A j \in 1 .. Len(resp.mem) : resp.mem[j] = Written(j))
         /\ (Len(resp.mem) # 0 /\ Req(Len(resp.mem)).op \in Writes =>
               resp.vaddr = Req(Len(resp.mem)).raddr + 1)
    BY <1>1 DEF Served
  <2>a. x = Len(resp.mem) + Len(resp.fifo)
    BY <2>11
  <2>b. Len(resp.fifo) \in Nat /\ Len(resp.mem) \in Nat
    BY <2>6
  <2>13. x + 1 = Len(resp.mem) + (Len(resp.fifo) + 1)
    <3>1. PICK m \in Nat : m = Len(resp.mem)
      BY <2>b
    <3>2. PICK n \in Nat : n = Len(resp.fifo)
      BY <2>b
    <3>3. x = m + n
      BY <2>a, <3>1, <3>2
    <3>4. x + 1 = m + (n + 1)
      BY <3>3
    <3> QED
      BY <3>1, <3>2, <3>4
  <2>12. \A j \in 1 .. Len(resp.fifo) + 1 :
            Append(resp.fifo, p)[j] = Packet(Entry(Len(resp.mem) + j))
    <3>1. p = Packet(Entry(Len(resp.mem) + (Len(resp.fifo) + 1)))
      <4>1. Len(resp.mem) + (Len(resp.fifo) + 1) = i
        BY <2>3, <2>13
      <4> QED
        BY <1>4, <4>1
    <3> SUFFICES ASSUME NEW j \in 1 .. Len(resp.fifo) + 1
                 PROVE  Append(resp.fifo, p)[j] = Packet(Entry(Len(resp.mem) + j))
      OBVIOUS
    <3>2. CASE j = Len(resp.fifo) + 1
      BY <2>7, <3>1, <3>2
    <3>3. CASE j # Len(resp.fifo) + 1
      <4>1. j \in 1 .. Len(resp.fifo)
        BY <2>6, <3>3
      <4> QED
        BY <2>7, <2>11, <4>1
    <3> QED
      BY <3>2, <3>3
  <2>14. Served'
    <3>1. Count' = Count /\ \A j : Psn(j)' = Psn(j) /\ Entry(j)' = Entry(j) /\ Req(j)' = Req(j)
                                   /\ Written(j)' = Written(j)
      BY <1>2, SameProgram
    <3>2. x + 1 \in 0 .. Count
      BY <1>5, <2>3
    <3>3. Len(resp'.fifo) = Len(resp.fifo) + 1 /\ Len(resp'.mem) = Len(resp.mem)
      BY <2>7, <2>9
    <3>4. \A j \in 1 .. Len(resp'.fifo) : resp'.fifo[j] = Packet(Entry(Len(resp'.mem) + j))
      BY <2>9, <2>12, <3>3
    <3>5. resp'.epsn = Psn(Done' + 1) /\ Done' = Len(resp'.mem) + Len(resp'.fifo)
          /\ Done' \in 0 .. Count
      BY <2>9, <2>10, <2>13, <3>2, <3>3
    <3>6. (\A j \in 1 .. Len(resp'.mem) : resp'.mem[j] = Written(j))
          /\ (Len(resp'.mem) # 0 /\ Req(Len(resp'.mem)).op \in Writes =>
               resp'.vaddr = Req(Len(resp'.mem)).raddr + 1)
      BY <2>9, <2>11
    <3> QED
      BY <3>1, <3>4, <3>5, <3>6 DEF Served, Packet
  <2> QED
    BY <2>8, <2>14 DEF Plain
<1>9. ASSUME /\ resp'.epsn = resp.epsn /\ resp'.fifo = resp.fifo
             /\ resp'.mem = resp.mem /\ resp'.vaddr = resp.vaddr
      PROVE  Served'
  <2>1. Done' = Done
    BY <1>9 DEF Done
  <2>2. Count' = Count /\ \A j : Psn(j)' = Psn(j) /\ Entry(j)' = Entry(j) /\ Req(j)' = Req(j)
                                 /\ Written(j)' = Written(j)
    BY <1>2, SameProgram
  <2>3. /\ Done' \in 0 .. Count /\ resp'.epsn = Psn(Done' + 1)
        /\ Done' = Len(resp'.mem) + Len(resp'.fifo)
        /\ \A j \in 1 .. Len(resp'.fifo) : resp'.fifo[j] = Packet(Entry(Len(resp'.mem) + j))
        /\ \A j \in 1 .. Len(resp'.mem) : resp'.mem[j] = Written(j)
        /\ Len(resp'.mem) # 0 /\ Req(Len(resp'.mem)).op \in Writes =>
              resp'.vaddr = Req(Len(resp'.mem)).raddr + 1
    BY <1>1, <1>9, <2>1 DEF Served
  <2> QED
    BY <2>2, <2>3 DEF Served, Packet
<1>10. CASE Again(p)
  <2> DEFINE ev == [psn |-> p.psn, nak |-> FALSE]
  <2>1. /\ p.op \in Writes => resp' = [resp EXCEPT !.ibhEvents = Append(resp.ibhEvents, ev)]
        /\ p.op \notin Writes => resp' = resp
    <3>1. p.op # "READ"
      BY <1>5
    <3> HIDE DEF p
    <3> QED
      BY <1>1, <1>10, <3>1 DEF Again, Types
  <2>2. ev \in Event
    BY <1>5 DEF Event
  <2> HIDE DEF ev
  <2>3. Append(resp.ibhEvents, ev) \in Seq(Event)
    BY <1>1, <2>2, Appended DEF Types
  <2>4. CASE p.op \in Writes
    <3>1. resp' = [resp EXCEPT !.ibhEvents = Append(resp.ibhEvents, ev)]
      BY <2>1, <2>4
    <3>2. Types'
      BY <1>1, <1>7, <2>3, <3>1 DEF Types
    <3>3. Served'
      BY <1>1, <1>9, <3>1 DEF Types
    <3> QED
      BY <3>2, <3>3 DEF Plain
  <2>5. CASE p.op \notin Writes
    <3>1. resp' = resp
      BY <2>1, <2>5
    <3>2. Types' /\ Served'
      BY <1>1, <1>7, <1>9, <3>1 DEF Types
    <3> QED
      BY <3>2 DEF Plain
  <2> QED
    BY <2>4, <2>5
<1>11. CASE Reject(p)
  <2> DEFINE ev == [psn |-> resp.epsn, nak |-> TRUE]
  <2>1. resp' = IF resp.retry = 7 THEN [resp EXCEPT !.retry = 6,
                                          !.ibhEvents = Append(resp.ibhEvents, ev)]
                ELSE resp
    BY <1>1, <1>11 DEF Reject, Types
  <2>2. ev \in Event
    BY <1>1 DEF Event, Types
  <2> HIDE DEF ev
  <2>3. Append(resp.ibhEvents, ev) \in Seq(Event)
    BY <1>1, <2>2, Appended DEF Types
  <2>4. CASE resp.retry = 7
    <3>1. resp' = [resp EXCEPT !.retry = 6, !.ibhEvents = Append(resp.ibhEvents, ev)]
      BY <2>1, <2>4
    <3>2. Types'
      BY <1>1, <1>7, <2>3, <3>1 DEF Types
    <3>3. Served'
      BY <1>1, <1>9, <3>1 DEF Types
    <3> QED
      BY <3>2, <3>3 DEF Plain
  <2>5. CASE resp.retry # 7
    <3>1. resp' = resp
      BY <2>1, <2>5
    <3>2. Types' /\ Served'
      BY <1>1, <1>7, <1>9, <3>1 DEF Types
    <3> QED
      BY <3>2 DEF Plain
  <2> QED
    BY <2>4, <2>5
<1> QED
  BY <1>2, <1>8, <1>10, <1>11

(* The address of a packet without an RDMA header is where the packet      *)
(* before it ended.                                                        *)
LEMMA AddressIs ==
  ASSUME sc \in Scenarios, ReadFree, NEW m \in Nat, m + 1 \in 1 .. Count,
         Req(m + 1).op \in Writes,
         m # 0 /\ Req(m).op \in Writes => resp.vaddr = Req(m).raddr + 1
  PROVE  MsnLookup(Packet(Entry(m + 1))) = Req(m + 1).raddr
<1> DEFINE r == Req(m + 1)
           p == Packet(Entry(m + 1))
<1>1. p.op = r.op /\ p.raddr = r.raddr
  BY EntryIs
<1>2. MsnLookup(p) = IF p.op \in HasRdmaHeader THEN p.raddr ELSE resp.vaddr
  BY DEF MsnLookup
<1> HIDE DEF p
<1>3. CASE r.op \in HasRdmaHeader
  BY <1>1, <1>2, <1>3 DEF p
<1>4. CASE r.op \notin HasRdmaHeader
  <2>1. r.op \in {"WRITE_MIDDLE", "WRITE_LAST"}
    BY <1>4 DEF HasRdmaHeader, Writes
  <2>2. m + 1 > 1 /\ Continues(Req(m + 1), Req((m + 1) - 1))
    BY <2>1, Program
  <2>3. (m + 1) - 1 = m /\ m # 0
    BY <2>2
  <2>4. Continues(r, Req(m))
    BY <2>2, <2>3
  <2>5. Req(m).op \in Writes /\ r.raddr = Req(m).raddr + 1
    BY <2>4 DEF Continues, Writes
  <2> QED
    BY <1>1, <1>2, <1>4, <2>3, <2>5 DEF p
<1> QED
  BY <1>3, <1>4

(* A request is executed. *)
LEMMA RespExhPlain ==
  ASSUME Plain, RespExh
  PROVE  Plain'
<1>1. Types /\ Served
  BY DEF Plain
<1> DEFINE p == Head(resp.fifo)
           ack == [psn |-> p.psn, nak |-> FALSE]
           addr == MsnLookup(p)
<1>2. resp.fifo # <<>> /\ UNCHANGED <<sc, sq, nextPsn, acked, unack, rt, rx, exh, net>>
  BY DEF RespExh, tx
<1>3. resp.fifo \in Seq(Packets) /\ resp.mem \in Seq(Cells) /\ resp.exhEvents \in Seq(Event)
      /\ resp.msn \in Nat /\ sc \in Scenarios /\ ReadFree
  BY <1>1 DEF Types
<1>4. PICK m \in Nat : m = Len(resp.mem)
  BY <1>3
<1>5. PICK n \in Nat \ {0} : n = Len(resp.fifo)
  BY <1>2, <1>3, HeadAndTail
<1>6. /\ p = resp.fifo[1] /\ Tail(resp.fifo) \in Seq(Packets) /\ Len(Tail(resp.fifo)) = n - 1
      /\ \A j \in 1 .. n - 1 : Tail(resp.fifo)[j] = resp.fifo[j + 1]
  BY <1>2, <1>3, <1>5, HeadAndTail
<1>7. /\ Done \in 0 .. Count /\ resp.epsn = Psn(Done + 1) /\ Done = m + n
      /\ \A j \in 1 .. n : resp.fifo[j] = Packet(Entry(m + j))
      /\ \A j \in 1 .. m : resp.mem[j] = Written(j)
      /\ m # 0 /\ Req(m).op \in Writes => resp.vaddr = Req(m).raddr + 1
  BY <1>1, <1>4, <1>5 DEF Served
<1>8. m + 1 \in 1 .. Count /\ 1 \in 1 .. n
  <2>1. Count \in Nat
    BY <1>3, Program
  <2> QED
    BY <2>1, <1>7
<1>9. p = Packet(Entry(m + 1))
  BY <1>6, <1>7, <1>8
<1>10. /\ p.op = Req(m + 1).op /\ p.data = Req(m + 1).laddr /\ p.psn = Psn(m + 1)
       /\ Psn(m + 1) \in Psns
  BY <1>3, <1>8, <1>9, EntryIs
<1>11. Req(m + 1) \in Request /\ Req(m + 1).op \in Writes \cup Sends
       /\ Written(m + 1) \in Cells
  BY <1>3, <1>8, Program DEF Cells
<1>12. Req(m + 1).op \in Writes => addr = Req(m + 1).raddr
  BY <1>3, <1>7, <1>8, <1>9, AddressIs
<1>13. ack \in Event
  BY <1>10 DEF Event
<1> HIDE DEF p, addr, ack
<1>14. Append(resp.exhEvents, ack) \in Seq(Event)
  BY <1>3, <1>13, Appended
<1>15. /\ Append(resp.mem, Written(m + 1)) \in Seq(Cells)
       /\ Len(Append(resp.mem, Written(m + 1))) = m + 1
       /\ \A j \in 1 .. m : Append(resp.mem, Written(m + 1))[j] = resp.mem[j]
       /\ Append(resp.mem, Written(m + 1))[m + 1] = Written(m + 1)
  BY <1>3, <1>4, <1>11, Appended
<1>16. \E v \in Nat :
          /\ Req(m + 1).op \in Writes => v = Req(m + 1).raddr + 1
          /\ resp' = [resp EXCEPT !.fifo = Tail(resp.fifo), !.msn = resp.msn + 1,
                                  !.mem = Append(resp.mem, Written(m + 1)), !.vaddr = v,
                                  !.exhEvents = Append(resp.exhEvents, ack)]
  <2>1. CASE p.op \in Writes
    <3>1. Req(m + 1).op \notin Sends /\ addr \in Nat /\ addr + 1 \in Nat
          /\ Written(m + 1) = <<addr, p.data>>
      BY <1>10, <1>11, <1>12, <2>1 DEF Writes, Sends, Request, Written
    <3>2. resp' = [resp EXCEPT !.fifo = Tail(resp.fifo), !.msn = resp.msn + 1,
                               !.mem = Append(resp.mem, <<addr, p.data>>), !.vaddr = addr + 1,
                               !.exhEvents = Append(resp.exhEvents, ack)]
      <4>1. p.op \notin Sends /\ p.op # "READ"
        BY <2>1 DEF Writes, Sends
      <4>2. resp' = [[resp EXCEPT !.fifo = Tail(@), !.msn = @ + 1] EXCEPT
                       !.mem = Append(@, <<addr, p.data>>), !.vaddr = addr + 1,
                       !.exhEvents = Append(@, ack)]
        BY <2>1, <4>1 DEF RespExh, p, addr, ack
      <4> QED
        BY <1>1, <4>2 DEF Types
    <3> QED
      BY <1>10, <1>12, <2>1, <3>1, <3>2
  <2>2. CASE p.op \in Sends
    <3>1. p.op \notin Writes /\ p.op # "READ" /\ Written(m + 1) = <<0, p.data>>
      BY <1>10, <2>2 DEF Writes, Sends, Written
    <3>2. resp' = [resp EXCEPT !.fifo = Tail(resp.fifo), !.msn = resp.msn + 1,
                               !.mem = Append(resp.mem, <<0, p.data>>), !.vaddr = 0,
                               !.exhEvents = Append(resp.exhEvents, ack)]
      BY <1>1, <2>2, <3>1 DEF RespExh, Types, p, ack
    <3> QED
      BY <1>10, <3>1, <3>2
  <2> QED
    BY <1>10, <1>11, <2>1, <2>2
<1>17. PICK v \in Nat :
          /\ Req(m + 1).op \in Writes => v = Req(m + 1).raddr + 1
          /\ resp' = [resp EXCEPT !.fifo = Tail(resp.fifo), !.msn = resp.msn + 1,
                                  !.mem = Append(resp.mem, Written(m + 1)), !.vaddr = v,
                                  !.exhEvents = Append(resp.exhEvents, ack)]
  BY <1>16
<1>18. Types'
  <2>1. resp.msn + 1 \in Nat
    BY <1>3
  <2>2. resp' \in [epsn : Psns, retry : {6, 7}, fifo : Seq(Packets), msn : Nat, vaddr : Nat,
               mem : Seq(Cells), exhEvents : Seq(Event), ibhEvents : Seq(Event),
               reads : {<<>>}, readEvents : {<<>>}]
    BY <1>1, <1>6, <1>14, <1>15, <1>17, <2>1 DEF Types
  <2> QED
    BY <1>1, <1>2, <2>2, SameProgram DEF Types
<1>19. resp'.fifo = Tail(resp.fifo) /\ resp'.mem = Append(resp.mem, Written(m + 1))
       /\ resp'.vaddr = v /\ resp'.epsn = resp.epsn
  BY <1>1, <1>17 DEF Types
<1>20. Done' = Done
  BY <1>19 DEF Done
<1>21. Served'
  <2>1. Count' = Count /\ \A j : Psn(j)' = Psn(j) /\ Entry(j)' = Entry(j) /\ Req(j)' = Req(j)
                                 /\ Written(j)' = Written(j)
    BY <1>2, SameProgram
  <2>2. Len(resp'.fifo) = n - 1 /\ Len(resp'.mem) = m + 1 /\ m + 1 # 0
    BY <1>6, <1>15, <1>19
  <2>3. Done' \in 0 .. Count /\ resp'.epsn = Psn(Done' + 1)
    BY <1>7, <1>19, <1>20
  <2>4. Done' = Len(resp'.mem) + Len(resp'.fifo)
    <3>1. m + n = (m + 1) + (n - 1)
      OBVIOUS
    <3> QED
      BY <1>7, <1>20, <2>2, <3>1
  <2>5. ASSUME NEW j \in 1 .. n - 1
        PROVE  resp'.fifo[j] = Packet(Entry((m + 1) + j))
    <3>1. j + 1 \in 1 .. n /\ m + (j + 1) = (m + 1) + j
      OBVIOUS
    <3>2. resp.fifo[j + 1] = Packet(Entry(m + (j + 1)))
      BY <1>7, <3>1
    <3> QED
      BY <1>6, <1>19, <3>1, <3>2
  <2>6. ASSUME NEW j \in 1 .. m + 1
        PROVE  resp'.mem[j] = Written(j)
    <3>1. CASE j = m + 1
      BY <1>15, <1>19, <3>1
    <3>2. CASE j # m + 1
      <4>1. j \in 1 .. m
        BY <3>2
      <4> QED
        BY <1>7, <1>15, <1>19, <4>1
    <3> QED
      BY <3>1, <3>2
  <2>7. Req(m + 1).op \in Writes => resp'.vaddr = Req(m + 1).raddr + 1
    BY <1>17, <1>19
  <2>8. /\ \A j \in 1 .. Len(resp'.fifo) : resp'.fifo[j] = Packet(Entry(Len(resp'.mem) + j))
        /\ \A j \in 1 .. Len(resp'.mem) : resp'.mem[j] = Written(j)
        /\ Len(resp'.mem) # 0 /\ Req(Len(resp'.mem)).op \in Writes =>
              resp'.vaddr = Req(Len(resp'.mem)).raddr + 1
    BY <2>2, <2>5, <2>6, <2>7
  <2> QED
    BY <2>1, <2>3, <2>4, <2>8 DEF Served, Packet
<1> QED
  BY <1>18, <1>21 DEF Plain

LEMMA ServedFields ==
  ASSUME Served, sc' = sc, resp'.epsn = resp.epsn, resp'.fifo = resp.fifo,
         resp'.mem = resp.mem, resp'.vaddr = resp.vaddr
  PROVE  Served'
<1>1. Done' = Done
  BY DEF Done
<1>2. Count' = Count /\ \A j : Psn(j)' = Psn(j) /\ Entry(j)' = Entry(j) /\ Req(j)' = Req(j)
                               /\ Written(j)' = Written(j)
  BY SameProgram
<1>3. /\ Done' \in 0 .. Count /\ resp'.epsn = Psn(Done' + 1)
      /\ Done' = Len(resp'.mem) + Len(resp'.fifo)
      /\ \A j \in 1 .. Len(resp'.fifo) : resp'.fifo[j] = Packet(Entry(Len(resp'.mem) + j))
      /\ \A j \in 1 .. Len(resp'.mem) : resp'.mem[j] = Written(j)
      /\ Len(resp'.mem) # 0 /\ Req(Len(resp'.mem)).op \in Writes =>
            resp'.vaddr = Req(Len(resp'.mem)).raddr + 1
  BY <1>1 DEF Served
<1> QED
  BY <1>2, <1>3 DEF Served, Packet

LEMMA SendAckPlain ==
  ASSUME Plain, SendAck
  PROVE  Plain'
<1>1. Types /\ Served
  BY DEF Plain
<1>2. UNCHANGED <<sc, sq, nextPsn, acked, unack, rt, rx, exh>>
  BY DEF SendAck, tx
<1>3. resp.exhEvents \in Seq(Event) /\ resp.ibhEvents \in Seq(Event) /\ net.rsp \in Seq(Answer)
  BY <1>1 DEF Types
<1> DEFINE Ack(ev) == [op |-> "ACK", psn |-> ev.psn, nak |-> ev.nak, data |-> 0]
<1>4. ASSUME NEW ev \in Event PROVE Append(net.rsp, Ack(ev)) \in Seq(Answer)
  <2>1. Ack(ev) \in Answer
    BY DEF Event, Answer
  <2> HIDE DEF Ack
  <2> QED
    BY <1>3, <2>1, Appended
<1>5. CASE resp.exhEvents # <<>>
  <2> DEFINE ev == Head(resp.exhEvents)
  <2>1. ev \in Event /\ Tail(resp.exhEvents) \in Seq(Event)
    BY <1>3, <1>5, HeadAndTail
  <2>2. net' = [net EXCEPT !.rsp = Append(net.rsp, Ack(ev))]
        /\ resp' = [resp EXCEPT !.exhEvents = Tail(resp.exhEvents)]
    BY <1>1, <1>5 DEF SendAck, Types
  <2> HIDE DEF ev, Ack
  <2>3. Append(net.rsp, Ack(ev)) \in Seq(Answer)
    BY <1>4, <2>1
  <2>4. Types'
    BY <1>1, <1>2, <2>1, <2>2, <2>3, SameProgram DEF Types
  <2>5. Served'
    BY <1>1, <1>2, <2>2, ServedFields DEF Types
  <2> QED
    BY <2>4, <2>5 DEF Plain
<1>6. CASE resp.exhEvents = <<>>
  <2> DEFINE ev == Head(resp.ibhEvents)
  <2>0. resp.ibhEvents # <<>>
    BY <1>6 DEF SendAck
  <2>1. ev \in Event /\ Tail(resp.ibhEvents) \in Seq(Event)
    BY <1>3, <2>0, HeadAndTail
  <2>2. net' = [net EXCEPT !.rsp = Append(net.rsp, Ack(ev))]
        /\ resp' = [resp EXCEPT !.ibhEvents = Tail(resp.ibhEvents)]
    BY <1>1, <1>6 DEF SendAck, Types
  <2> HIDE DEF ev, Ack
  <2>3. Append(net.rsp, Ack(ev)) \in Seq(Answer)
    BY <1>4, <2>1
  <2>4. Types'
    BY <1>1, <1>2, <2>1, <2>2, <2>3, SameProgram DEF Types
  <2>5. Served'
    BY <1>1, <1>2, <2>2, ServedFields DEF Types
  <2> QED
    BY <2>4, <2>5 DEF Plain
<1> QED
  BY <1>5, <1>6

LEMMA LosePlain ==
  ASSUME Plain, Lose
  PROVE  Plain'
<1>1. Types /\ Served
  BY DEF Plain
<1>2. UNCHANGED <<sc, sq, nextPsn, acked, unack, rt, rx, exh, resp>>
  BY DEF Lose, tx
<1>3. net.lost + 1 \in Nat /\ net.req \in Seq(Packets) /\ net.rsp \in Seq(Answer)
  BY <1>1, SMTT(40) DEF Types
<1>4. \/ net.req # <<>> /\ net' = [net EXCEPT !.req = Tail(net.req), !.lost = net.lost + 1]
      \/ net.rsp # <<>> /\ net' = [net EXCEPT !.rsp = Tail(net.rsp), !.lost = net.lost + 1]
  BY <1>1 DEF Lose, Types
<1>5. CASE net.req # <<>> /\ net' = [net EXCEPT !.req = Tail(net.req), !.lost = net.lost + 1]
  <2>1. Tail(net.req) \in Seq(Packets)
    BY <1>3, <1>5, HeadAndTail
  <2>2. Types'
    BY <1>1, <1>2, <1>3, <1>5, <2>1, SameProgram DEF Types
  <2> QED
    BY <1>1, <1>2, <2>2, ServedSame DEF Plain
<1>6. CASE net.rsp # <<>> /\ net' = [net EXCEPT !.rsp = Tail(net.rsp), !.lost = net.lost + 1]
  <2>1. Tail(net.rsp) \in Seq(Answer)
    BY <1>3, <1>6, HeadAndTail
  <2>2. Types'
    BY <1>1, <1>2, <1>3, <1>6, <2>1, SameProgram DEF Types
  <2> QED
    BY <1>1, <1>2, <2>2, ServedSame DEF Plain
<1> QED
  BY <1>4, <1>5, <1>6

(* Nothing is read. *)
LEMMA NoReads ==
  ASSUME Types
  PROVE  ~HandleRead /\ ~SendReadResponse
<1>1. resp.reads = <<>> /\ resp.readEvents = <<>>
  BY DEF Types
<1> QED
  BY <1>1 DEF HandleRead, SendReadResponse

LEMMA StutterPlain ==
  ASSUME Plain, UNCHANGED vars
  PROVE  Plain'
<1>1. Types /\ Served
  BY DEF Plain
<1>2. Types'
  BY <1>1, SameProgram DEF Types, vars
<1>3. Served'
  BY <1>1, ServedSame DEF vars
<1> QED
  BY <1>2, <1>3 DEF Plain

LEMMA NextPlain ==
  ASSUME Plain, [Next]_vars
  PROVE  Plain'
<1>1. CASE Next
  BY <1>1, LocalRequestPlain, LocalRetransmitPlain, TimerPlain, RetransmitterPlain, ReceivePlain,
     RespIbhPlain, RespExhPlain, SendAckPlain, LosePlain, NoReads
     DEF Next, Send, Responder, Plain
<1>2. CASE UNCHANGED vars
  BY <1>2, StutterPlain
<1> QED
  BY <1>1, <1>2

(* The scenario does not change. *)
LEMMA Fixed ==
  ASSUME [Next]_vars
  PROVE  sc' = sc
  BY DEF Next, Send, LocalRequest, LocalRetransmit, Timer, TimerClear, TimerSet, TimerExpire,
     Retransmitter, RetransUpdate, RetransNak, RetransTimeout, RetransInsert, Receive, RxLoad,
     RxAccept, RxDrop, RxExh, Responder, RespIbh, RespExh, HandleRead, SendAck,
     SendReadResponse, Lose, vars

LEMMA PlainWrites ==
  ASSUME Plain
  PROVE  WritesInOrder
<1>1. Types /\ Served
  BY DEF Plain
<1>2. resp.mem \in Seq(Cells) /\ resp.fifo \in Seq(Packets) /\ sc \in Scenarios /\ ReadFree
  BY <1>1 DEF Types
<1>3. PICK m \in Nat : m = Len(resp.mem)
  BY <1>2
<1>4. PICK n \in Nat : n = Len(resp.fifo)
  BY <1>2
<1>5. Done = m + n /\ Done \in 0 .. Count /\ \A j \in 1 .. m : resp.mem[j] = Written(j)
  BY <1>1, <1>3, <1>4 DEF Served
<1>6. /\ Count \in Nat /\ WrittenData \in Seq(Cells) /\ Len(WrittenData) = Count
      /\ \A j \in 1 .. Count : WrittenData[j] = Written(j)
  BY <1>2, Program DEF Cells
<1>7. m <= Count /\ \A j \in 1 .. m : resp.mem[j] = WrittenData[j]
  BY <1>5, <1>6
<1>8. SubSeq(resp.mem, 1, m) = SubSeq(WrittenData, 1, m)
  <2>1. ASSUME NEW q \in Seq(Cells), m <= Len(q)
        PROVE  SubSeq(q, 1, m) = [j \in 1 .. m |-> q[j]]
    BY <2>1
  <2>2. SubSeq(resp.mem, 1, m) = [j \in 1 .. m |-> resp.mem[j]]
    BY <1>2, <1>3, <2>1
  <2>3. SubSeq(WrittenData, 1, m) = [j \in 1 .. m |-> WrittenData[j]]
    BY <1>6, <1>7, <2>1
  <2>4. [j \in 1 .. m |-> resp.mem[j]] = [j \in 1 .. m |-> WrittenData[j]]
    BY <1>7
  <2> QED
    BY <2>2, <2>3, <2>4
<1> QED
  BY <1>3, <1>6, <1>7, <1>8 DEF WritesInOrder, WritesPlaced, IsPrefix

(* For every program of WRITEs and SENDs that is cut as local_req_handler  *)
(* cuts it, whatever the window is and whatever packets and answers are    *)
(* lost: rx_ibh_fsm and rx_exh_fsm of the responder write every packet     *)
(* once, in order and at its address, although requests are sent again     *)
(* after a NAK and after a time-out, and although answers release requests *)
(* from the retransmission list whatever their PSN.                        *)
THEOREM WritesCorrect == Spec => [](ReadFree => WritesInOrder)
<1>1. Init => (ReadFree => Plain)
  BY InitPlain
<1>2. (ReadFree => Plain) /\ [Next]_vars => (ReadFree => Plain)'
  <2> SUFFICES ASSUME ReadFree => Plain, [Next]_vars, ReadFree' PROVE Plain'
    OBVIOUS
  <2>1. ReadFree
    BY Fixed DEF ReadFree
  <2> QED
    BY <2>1, NextPlain
<1>3. (ReadFree => Plain) => (ReadFree => WritesInOrder)
  BY PlainWrites
<1> QED
  BY <1>1, <1>2, <1>3, PTL DEF Spec


-----------------------------------------------------------------------------
(* Requests and answers on their way, by their position in the program *)

Index(psn) == Inc(psn, -FirstPsn) + 1
At(s) == {Index(s[i].psn) : i \in 1 .. Len(s)}

LEMMA IndexIs ==
  ASSUME NEW i \in 1 .. PsnMod
  PROVE  Index(Psn(i)) = i
<1>1. i - 1 \in 0 .. PsnMod - 1 /\ (i - 1) + 1 = i
  BY RoceAssumption
<1>2. Inc(Psn((i - 1) + 1), -FirstPsn) = i - 1
  BY <1>1, DoneIs
<1> QED
  BY <1>1, <1>2 DEF Index

LEMMA AtEmpty == At(<<>>) = {}
  BY DEF At

LEMMA AtHead ==
  ASSUME NEW S, NEW s \in Seq(S), s # <<>>
  PROVE  At(s) = At(Tail(s)) \cup {Index(Head(s).psn)}
<1>1. PICK n \in Nat \ {0} : n = Len(s)
  BY HeadAndTail
<1>2. /\ Head(s) = s[1] /\ Len(Tail(s)) = n - 1
      /\ \A i \in 1 .. n - 1 : Tail(s)[i] = s[i + 1]
  BY <1>1, HeadAndTail
<1>3. At(s) = {Index(s[i].psn) : i \in 1 .. n}
  BY <1>1 DEF At
<1>4. At(Tail(s)) = {Index(s[i + 1].psn) : i \in 1 .. n - 1}
  BY <1>2 DEF At
<1>5. ASSUME NEW i \in 1 .. n
      PROVE  Index(s[i].psn) \in At(Tail(s)) \cup {Index(s[1].psn)}
  <2>1. CASE i = 1
    BY <2>1
  <2>2. CASE i # 1
    <3>1. i - 1 \in 1 .. n - 1 /\ (i - 1) + 1 = i
      BY <2>2
    <3> QED
      BY <1>4, <3>1
  <2> QED
    BY <2>1, <2>2
<1>6. \A i \in 1 .. n - 1 : i + 1 \in 1 .. n
  OBVIOUS
<1>7. 1 \in 1 .. n
  OBVIOUS
<1> QED
  BY <1>2, <1>3, <1>4, <1>5, <1>6, <1>7

LEMMA AtAppend ==
  ASSUME NEW S, NEW s \in Seq(S), NEW e \in S
  PROVE  At(Append(s, e)) = At(s) \cup {Index(e.psn)}
<1>1. PICK n \in Nat : n = Len(s)
  OBVIOUS
<1>2. /\ Len(Append(s, e)) = n + 1 /\ Append(s, e)[n + 1] = e
      /\ \A i \in 1 .. n : Append(s, e)[i] = s[i]
  BY <1>1, Appended
<1>3. At(s) = {Index(s[i].psn) : i \in 1 .. n}
  BY <1>1 DEF At
<1>4. At(Append(s, e)) = {Index(Append(s, e)[i].psn) : i \in 1 .. n + 1}
  BY <1>2 DEF At
<1>5. \A i \in 1 .. n + 1 : i \in 1 .. n \/ i = n + 1
  OBVIOUS
<1>6. \A i \in 1 .. n : i \in 1 .. n + 1
  OBVIOUS
<1>7. n + 1 \in 1 .. n + 1
  OBVIOUS
<1> QED
  BY <1>2, <1>3, <1>4, <1>5, <1>6, <1>7

LEMMA AtConcat ==
  ASSUME NEW S, NEW s \in Seq(S), NEW t \in Seq(S)
  PROVE  At(s \o t) = At(s) \cup At(t)
<1>1. PICK n \in Nat : n = Len(s)
  OBVIOUS
<1>2. PICK m \in Nat : m = Len(t)
  OBVIOUS
<1>3. /\ Len(s \o t) = n + m
      /\ \A i \in 1 .. n : (s \o t)[i] = s[i]
      /\ \A i \in n + 1 .. n + m : (s \o t)[i] = t[i - n]
  BY <1>1, <1>2, Concatenated
<1>4. /\ At(s) = {Index(s[i].psn) : i \in 1 .. n} /\ At(t) = {Index(t[i].psn) : i \in 1 .. m}
      /\ At(s \o t) = {Index((s \o t)[i].psn) : i \in 1 .. n + m}
  BY <1>1, <1>2, <1>3 DEF At
<1>5. \A i \in 1 .. n + m : i \in 1 .. n \/ (i \in n + 1 .. n + m /\ i - n \in 1 .. m)
  OBVIOUS
<1>6. \A i \in 1 .. n : i \in 1 .. n + m
  OBVIOUS
<1>7. \A i \in 1 .. m : i + n \in n + 1 .. n + m /\ i + n \in 1 .. n + m /\ (i + n) - n = i
  OBVIOUS
<1>8. At(s \o t) \subseteq At(s) \cup At(t)
  BY <1>3, <1>4, <1>5
<1>9. At(s) \subseteq At(s \o t)
  BY <1>3, <1>4, <1>6
<1>10. ASSUME NEW i \in 1 .. m
       PROVE  Index(t[i].psn) \in At(s \o t)
  BY <1>3, <1>4, <1>7
<1> QED
  BY <1>4, <1>8, <1>9, <1>10

(* As many as the queue is long, at most. *)
LEMMA AtBound ==
  ASSUME NEW S, NEW s \in Seq(S)
  PROVE  Len(s) \in Nat /\ IsFiniteSet(At(s)) /\ Cardinality(At(s)) <= Len(s)
         /\ Cardinality(At(s)) \in Nat
<1>1. PICK n \in Nat : n = Len(s)
  OBVIOUS
<1>2. IsFiniteSet(1 .. n) /\ Cardinality(1 .. n) = n
  <2>1. IsFiniteSet(1 .. n) /\ Cardinality(1 .. n) = IF 1 > n THEN 0 ELSE n - 1 + 1
    BY FS_Interval
  <2> QED
    BY <2>1
<1> DEFINE f == [i \in 1 .. n |-> Index(s[i].psn)]
<1>3. f \in Surjection(1 .. n, At(s))
  BY <1>1 DEF At, Surjection
<1>4. IsFiniteSet(At(s)) /\ Cardinality(At(s)) <= Cardinality(1 .. n)
  BY <1>2, <1>3, FS_Surjection
<1>5. Cardinality(At(s)) \in Nat
  BY <1>4, FS_CardinalityType
<1> QED
  BY <1>1, <1>2, <1>4, <1>5


-----------------------------------------------------------------------------
(* The invariant of such programs without gaps *)

(* Answers that are on their way, the one rx_ibh_fsm holds among them, and *)
(* everything that is on its way.                                          *)
Checked == {Index(rx[i].p.psn) : i \in 1 .. Len(rx)}
Answering == At(resp.exhEvents) \cup At(resp.ibhEvents) \cup At(net.rsp) \cup Checked
Flight == At(rt.events) \cup At(net.req) \cup At(resp.fifo) \cup Answering
Load == Len(rt.events) + Len(net.req) + Len(resp.fifo) + Len(resp.exhEvents)
        + Len(resp.ibhEvents) + Len(net.rsp) + Len(rx)
Low(S, n) == {k \in S : k <= n}

(* Requests that were released, and requests that were entered in the list. *)
Released == Len(acked) - Len(rt.upd)
Stored == sq - Len(rt.insert)

(* The list holds the requests after those released, in order. *)
Listed ==
  /\ Released >= 0 /\ Released + Len(rt.list) = Stored
  /\ \A j \in 1 .. Len(rt.list) : rt.list[j] = Entry(Released + j)
  /\ \A j \in 1 .. Len(rt.insert) : rt.insert[j] = Entry(Stored + j)

(* Each request is on its way at most once, and each answer to come or to  *)
(* be applied has its own entry in the list.                               *)
Counted ==
  /\ Flight \subseteq 1 .. sq /\ Cardinality(Flight) = Load
  /\ Cardinality(Low(Flight, Stored)) + Len(rt.upd) <= Len(rt.list)
  /\ rt.timeout \in {0, 1}
  /\ rt.timeout = 1 => \A k \in Flight : k > Stored

(* Only what was taken is answered, and nothing is refused. *)
Fine(s) == \A i \in 1 .. Len(s) : ~s[i].nak
Earned ==
  /\ Len(acked) <= Done /\ Done <= sq
  /\ Answering \subseteq 1 .. Done /\ Checked \subseteq 1 .. Stored
  /\ rt.nak = <<>> /\ Fine(resp.exhEvents) /\ Fine(resp.ibhEvents) /\ Fine(net.rsp)
  /\ Fine(exh.fifo) /\ \A i \in 1 .. Len(rx) : ~rx[i].p.nak

(* What the responder has not taken is on the wire, in order.              *)
Undropped == sc.losses = 0 \/ "request" \notin sc.may
Waiting ==
  /\ Done + 1 .. sq \subseteq At(net.req) /\ At(rt.events) \subseteq 1 .. Done
  /\ \A i, j \in 1 .. Len(net.req) :
        i < j /\ Index(net.req[i].psn) > Done /\ Index(net.req[j].psn) > Done
          => Index(net.req[i].psn) < Index(net.req[j].psn)
  /\ rt.timeout = 1 => Stored <= Done

(* One request at a time. *)
Single == Flight \subseteq {sq} /\ sq <= Len(acked) + 1

Flow == /\ Listed /\ Counted /\ Earned
        /\ Undropped => Waiting
        /\ sc.window = 1 => Single
Steady == Plain /\ Gapless /\ Flow

LEMMA CheckedBound ==
  ASSUME Types
  PROVE  Len(rx) \in Nat /\ IsFiniteSet(Checked) /\ Cardinality(Checked) <= Len(rx)
         /\ Cardinality(Checked) \in Nat
<1>1. PICK n \in Nat : n = Len(rx)
  BY DEF Types
<1>2. IsFiniteSet(1 .. n) /\ Cardinality(1 .. n) = n
  <2>1. IsFiniteSet(1 .. n) /\ Cardinality(1 .. n) = IF 1 > n THEN 0 ELSE n - 1 + 1
    BY FS_Interval
  <2> QED
    BY <2>1
<1> DEFINE f == [i \in 1 .. n |-> Index(rx[i].p.psn)]
<1>3. f \in Surjection(1 .. n, Checked)
  BY <1>1 DEF Checked, Surjection
<1>4. IsFiniteSet(Checked) /\ Cardinality(Checked) <= Cardinality(1 .. n)
  BY <1>2, <1>3, FS_Surjection
<1>5. Cardinality(Checked) \in Nat
  BY <1>4, FS_CardinalityType
<1> QED
  BY <1>1, <1>2, <1>4, <1>5

LEMMA UnionBound ==
  ASSUME NEW A, IsFiniteSet(A), NEW B, IsFiniteSet(B), NEW a \in Nat, NEW b \in Nat,
         Cardinality(A) <= a, Cardinality(B) <= b
  PROVE  IsFiniteSet(A \cup B) /\ Cardinality(A \cup B) <= a + b
<1>1. IsFiniteSet(A \cup B) /\ Cardinality(A \cup B) = Cardinality(A) + Cardinality(B) - Cardinality(A \cap B)
  BY FS_Union
<1>2. Cardinality(A) \in Nat /\ Cardinality(B) \in Nat
  BY FS_CardinalityType
<1>3. Cardinality(A \cap B) \in Nat
  <2>1. A \cap B \in SUBSET A
    OBVIOUS
  <2>2. IsFiniteSet(A \cap B)
    BY <2>1, FS_Subset
  <2> QED
    BY <2>2, FS_CardinalityType
<1> QED
  BY <1>1, <1>2, <1>3

(* No more than the queues hold. *)
LEMMA FlightBound ==
  ASSUME Types
  PROVE  IsFiniteSet(Flight) /\ Cardinality(Flight) \in Nat /\ Load \in Nat
         /\ Cardinality(Flight) <= Load
<1>1. PICK a \in Nat : a = Len(rt.events) /\ IsFiniteSet(At(rt.events)) /\ Cardinality(At(rt.events)) <= a
  BY AtBound DEF Types
<1>2. PICK b \in Nat : b = Len(net.req) /\ IsFiniteSet(At(net.req)) /\ Cardinality(At(net.req)) <= b
  BY AtBound DEF Types
<1>3. PICK c \in Nat : c = Len(resp.fifo) /\ IsFiniteSet(At(resp.fifo)) /\ Cardinality(At(resp.fifo)) <= c
  BY AtBound DEF Types
<1>4. PICK d \in Nat : d = Len(resp.exhEvents) /\ IsFiniteSet(At(resp.exhEvents)) /\ Cardinality(At(resp.exhEvents)) <= d
  BY AtBound DEF Types
<1>5. PICK e \in Nat : e = Len(resp.ibhEvents) /\ IsFiniteSet(At(resp.ibhEvents)) /\ Cardinality(At(resp.ibhEvents)) <= e
  BY AtBound DEF Types
<1>6. PICK f \in Nat : f = Len(net.rsp) /\ IsFiniteSet(At(net.rsp)) /\ Cardinality(At(net.rsp)) <= f
  BY AtBound DEF Types
<1>7. PICK g \in Nat : g = Len(rx) /\ IsFiniteSet(Checked) /\ Cardinality(Checked) <= g
  BY CheckedBound
<1>8. Load = a + b + c + d + e + f + g
  BY <1>1, <1>2, <1>3, <1>4, <1>5, <1>6, <1>7 DEF Load
<1> DEFINE C1 == At(resp.exhEvents) \cup At(resp.ibhEvents)
           C2 == C1 \cup At(net.rsp)
           C3 == C2 \cup Checked
           C4 == At(rt.events) \cup At(net.req)
           C5 == C4 \cup At(resp.fifo)
<1> HIDE DEF C1, C2, C3, C4, C5
<1>9. IsFiniteSet(C1) /\ Cardinality(C1) <= d + e
  BY <1>4, <1>5, UnionBound DEF C1
<1>10. IsFiniteSet(C2) /\ Cardinality(C2) <= (d + e) + f
  <2>1. d + e \in Nat
    OBVIOUS
  <2> QED
    BY <1>6, <1>9, <2>1, UnionBound DEF C2
<1>11. IsFiniteSet(C3) /\ Cardinality(C3) <= ((d + e) + f) + g
  <2>1. (d + e) + f \in Nat
    OBVIOUS
  <2> QED
    BY <1>7, <1>10, <2>1, UnionBound DEF C3
<1>12. IsFiniteSet(C4) /\ Cardinality(C4) <= a + b
  BY <1>1, <1>2, UnionBound DEF C4
<1>13. IsFiniteSet(C5) /\ Cardinality(C5) <= (a + b) + c
  <2>1. a + b \in Nat
    OBVIOUS
  <2> QED
    BY <1>3, <1>12, <2>1, UnionBound DEF C5
<1>14. IsFiniteSet(C5 \cup C3) /\ Cardinality(C5 \cup C3) <= ((a + b) + c) + (((d + e) + f) + g)
  <2>1. (a + b) + c \in Nat /\ ((d + e) + f) + g \in Nat
    OBVIOUS
  <2> QED
    BY <1>11, <1>13, <2>1, UnionBound
<1>15. Flight = C5 \cup C3
  BY DEF Flight, Answering, C1, C2, C3, C4, C5
<1>16. IsFiniteSet(Flight) /\ Cardinality(Flight) <= ((a + b) + c) + (((d + e) + f) + g)
  BY <1>14, <1>15
<1>17. Cardinality(Flight) \in Nat
  BY <1>16, FS_CardinalityType
<1> QED
  BY <1>8, <1>16, <1>17

LEMMA LowIs ==
  ASSUME NEW S, IsFiniteSet(S), NEW n \in Int
  PROVE  IsFiniteSet(Low(S, n)) /\ Cardinality(Low(S, n)) \in Nat
<1>1. Low(S, n) \in SUBSET S
  BY DEF Low
<1>2. IsFiniteSet(Low(S, n))
  BY <1>1, FS_Subset
<1> QED
  BY <1>2, FS_CardinalityType

LEMMA LowAdd ==
  ASSUME NEW S, IsFiniteSet(S), NEW n \in Int, NEW x \in Int, x \notin S
  PROVE  Cardinality(Low(S \cup {x}, n)) = Cardinality(Low(S, n)) + IF x <= n THEN 1 ELSE 0
<1>1. IsFiniteSet(Low(S, n)) /\ Cardinality(Low(S, n)) \in Nat /\ x \notin Low(S, n)
  BY LowIs DEF Low
<1>2. CASE x <= n
  <2>1. Low(S \cup {x}, n) = Low(S, n) \cup {x}
    BY <1>2 DEF Low
  <2>2. Cardinality(Low(S, n) \cup {x}) = Cardinality(Low(S, n)) + 1
    BY <1>1, FS_AddElement
  <2> QED
    BY <1>1, <1>2, <2>1, <2>2
<1>3. CASE ~(x <= n)
  <2>1. Low(S \cup {x}, n) = Low(S, n)
    BY <1>3 DEF Low
  <2> QED
    BY <1>1, <1>3, <2>1
<1> QED
  BY <1>2, <1>3

(* Something leaves its queue for good. *)
LEMMA Leaves ==
  ASSUME Types, Types', Counted, NEW x, Flight = Flight' \cup {x}, Load' = Load - 1
  PROVE  /\ x \in 1 .. sq /\ x \notin Flight' /\ Cardinality(Flight') = Load'
         /\ \A n \in Int : Cardinality(Low(Flight, n)) =
                Cardinality(Low(Flight', n)) + IF x <= n THEN 1 ELSE 0
<1>1. IsFiniteSet(Flight) /\ Load \in Nat /\ Cardinality(Flight) = Load /\ Flight \subseteq 1 .. sq
  BY FlightBound DEF Counted
<1>2. IsFiniteSet(Flight') /\ Cardinality(Flight') \in Nat /\ Cardinality(Flight') <= Load'
  <2>1. (IsFiniteSet(Flight) /\ Cardinality(Flight) \in Nat /\ Cardinality(Flight) <= Load)'
    BY FlightBound, PTL
  <2> QED
    BY <2>1
<1>3. Cardinality(Flight' \cup {x}) = IF x \in Flight' THEN Cardinality(Flight') ELSE Cardinality(Flight') + 1
  BY <1>2, FS_AddElement
<1>4. x \notin Flight' /\ Cardinality(Flight') = Load'
  BY <1>1, <1>2, <1>3
<1>5. x \in 1 .. sq /\ x \in Int
  BY <1>1
<1>6. \A n \in Int : Cardinality(Low(Flight' \cup {x}, n)) =
          Cardinality(Low(Flight', n)) + IF x <= n THEN 1 ELSE 0
  BY <1>2, <1>4, <1>5, LowAdd
<1> QED
  BY <1>4, <1>5, <1>6


(* What a step that only moves or loses packets leaves alone. *)
Kept ==
  /\ sc' = sc /\ sq' = sq /\ acked' = acked
  /\ rt'.list = rt.list /\ rt'.insert = rt.insert /\ rt'.upd = rt.upd
  /\ rt'.timeout = rt.timeout

LEMMA Sizes ==
  ASSUME Types
  PROVE  /\ sq \in Nat /\ Count \in Nat /\ Count < PsnMod /\ sq <= Count /\ PsnMod \in Nat
         /\ Len(acked) \in Nat /\ Len(rt.upd) \in Nat
         /\ Len(rt.list) \in Nat /\ Len(rt.insert) \in Nat
         /\ Released \in Int /\ Stored \in Int
<1>1. Count \in Nat /\ Count < PsnMod /\ sq \in 0 .. Count /\ PsnMod \in Nat
  BY Program, RoceAssumption DEF Types
<1>2. PICK a \in Nat : a = Len(acked)
  BY DEF Types
<1>3. PICK u \in Nat : u = Len(rt.upd)
  BY DEF Types
<1>4. PICK l \in Nat : l = Len(rt.list)
  BY DEF Types
<1>5. PICK n \in Nat : n = Len(rt.insert)
  BY DEF Types
<1>6. Released = a - u /\ Stored = sq - n
  BY <1>2, <1>3, <1>5 DEF Released, Stored
<1> QED
  BY <1>1, <1>2, <1>3, <1>4, <1>5, <1>6

LEMMA KeptList ==
  ASSUME Kept, Listed
  PROVE  Listed' /\ Released' = Released /\ Stored' = Stored
<1>1. Released' = Released /\ Stored' = Stored
  BY DEF Kept, Released, Stored
<1>2. \A j : Entry(j)' = Entry(j)
  BY SameProgram DEF Kept
<1> QED
  BY <1>1, <1>2 DEF Kept, Listed

(* Packets move from one queue to another. *)
LEMMA Moved ==
  ASSUME Types, Types', Flow, Kept, Flight' = Flight, Load' = Load
  PROVE  Listed' /\ Counted' /\ (sc.window = 1 => Single)'
<1>1. Listed /\ Counted /\ (sc.window = 1 => Single)
  BY DEF Flow
<1>2. Listed' /\ Released' = Released /\ Stored' = Stored
  BY <1>1, KeptList
<1>3. Counted'
  BY <1>1, <1>2 DEF Counted, Kept, Low
<1>4. (sc.window = 1 => Single)'
  BY <1>1 DEF Single, Kept
<1> QED
  BY <1>2, <1>3, <1>4

(* A packet is lost or dropped. *)
LEMMA Dropped ==
  ASSUME Types, Types', Flow, Kept, NEW x, Flight = Flight' \cup {x}, Load' = Load - 1
  PROVE  Listed' /\ Counted' /\ (sc.window = 1 => Single)'
<1>1. Listed /\ Counted /\ (sc.window = 1 => Single)
  BY DEF Flow
<1>2. Listed' /\ Released' = Released /\ Stored' = Stored
  BY <1>1, KeptList
<1>3. /\ Cardinality(Flight') = Load'
      /\ \A n \in Int : Cardinality(Low(Flight, n)) =
             Cardinality(Low(Flight', n)) + IF x <= n THEN 1 ELSE 0
  BY <1>1, Leaves
<1>4. Stored \in Int /\ IsFiniteSet(Flight')
  <2>1. IsFiniteSet(Flight)
    BY FlightBound
  <2>2. Flight' \in SUBSET Flight
    OBVIOUS
  <2> QED
    BY <2>1, <2>2, Sizes, FS_Subset
<1>5. Cardinality(Low(Flight', Stored)) \in Nat
  BY <1>4, LowIs
<1>6. Cardinality(Low(Flight', Stored)) <= Cardinality(Low(Flight, Stored))
  <2>1. Cardinality(Low(Flight, Stored)) =
            Cardinality(Low(Flight', Stored)) + IF x <= Stored THEN 1 ELSE 0
    BY <1>3, <1>4, Zenon
  <2> QED
    BY <1>5, <2>1
<1>7. Cardinality(Low(Flight', Stored)) + Len(rt.upd) <= Len(rt.list)
  <2>1. PICK u \in Nat : u = Len(rt.upd)
    BY Sizes
  <2>2. PICK l \in Nat : l = Len(rt.list)
    BY Sizes
  <2>3. PICK c : c = Cardinality(Low(Flight, Stored)) /\ c \in Nat
    BY <1>4, LowIs, FlightBound
  <2>4. c + u <= l
    BY <1>1, <2>1, <2>2, <2>3 DEF Counted
  <2> QED
    BY <1>5, <1>6, <2>1, <2>2, <2>3, <2>4
<1>8. Counted'
  <2>1. Flight' \subseteq 1 .. sq /\ (rt.timeout = 1 => \A k \in Flight' : k > Stored)
    BY <1>1 DEF Counted
  <2> QED
    BY <1>1, <1>2, <1>3, <1>7, <2>1 DEF Counted, Kept, Low
<1>9. (sc.window = 1 => Single)'
  BY <1>1 DEF Single, Kept
<1> QED
  BY <1>2, <1>8, <1>9

LEMMA FineHead ==
  ASSUME NEW S, NEW s \in Seq(S), s # <<>>, Fine(s)
  PROVE  ~Head(s).nak /\ Fine(Tail(s))
<1>1. PICK n \in Nat \ {0} : n = Len(s)
  BY HeadAndTail
<1>2. /\ Head(s) = s[1] /\ Len(Tail(s)) = n - 1
      /\ \A i \in 1 .. n - 1 : Tail(s)[i] = s[i + 1]
  BY <1>1, HeadAndTail
<1>3. \A i \in 1 .. n : ~s[i].nak
  BY <1>1 DEF Fine
<1>4. 1 \in 1 .. n /\ \A i \in 1 .. n - 1 : i + 1 \in 1 .. n
  OBVIOUS
<1> QED
  BY <1>2, <1>3, <1>4 DEF Fine

LEMMA FineAppend ==
  ASSUME NEW S, NEW s \in Seq(S), NEW e \in S, Fine(s), ~e.nak
  PROVE  Fine(Append(s, e))
<1>1. PICK n \in Nat : n = Len(s)
  OBVIOUS
<1>2. /\ Len(Append(s, e)) = n + 1 /\ Append(s, e)[n + 1] = e
      /\ \A i \in 1 .. n : Append(s, e)[i] = s[i]
  BY <1>1, Appended
<1>3. \A i \in 1 .. n + 1 : i \in 1 .. n \/ i = n + 1
  OBVIOUS
<1> QED
  BY <1>1, <1>2, <1>3 DEF Fine


LEMMA Parts ==
  ASSUME Types
  PROVE  \E a, b, c, d, e, f, g \in Nat :
           /\ a = Len(rt.events) /\ b = Len(net.req) /\ c = Len(resp.fifo)
           /\ d = Len(resp.exhEvents) /\ e = Len(resp.ibhEvents)
           /\ f = Len(net.rsp) /\ g = Len(rx)
<1>1. Len(rt.events) \in Nat /\ Len(net.req) \in Nat /\ Len(resp.fifo) \in Nat
      /\ Len(resp.exhEvents) \in Nat /\ Len(resp.ibhEvents) \in Nat
      /\ Len(net.rsp) \in Nat /\ Len(rx) \in Nat
  BY AtBound, CheckedBound DEF Types
<1> QED
  BY <1>1

LEMMA DoneNat ==
  ASSUME Plain
  PROVE  Done \in Nat /\ Done <= Count
<1>1. Done \in 0 .. Count /\ Count \in Nat
  BY Program DEF Plain, Types, Served
<1> QED
  BY <1>1

LEMMA EarnedSame ==
  ASSUME Earned, Kept, Listed, resp' = resp, net'.rsp = net.rsp, rx' = rx, exh' = exh,
         rt'.nak = rt.nak
  PROVE  Earned'
<1>1. Stored' = Stored
  BY KeptList
<1>2. Answering' = Answering /\ Checked' = Checked /\ Done' = Done
  BY DEF Answering, Checked, Done
<1> QED
  BY <1>1, <1>2 DEF Earned, Kept

LEMMA WaitingSame ==
  ASSUME Waiting, Kept, Listed, Done' = Done, net'.req = net.req, rt'.events = rt.events
  PROVE  Waiting'
<1>1. Stored' = Stored
  BY KeptList
<1> QED
  BY <1>1 DEF Waiting, Kept

LEMMA LocalRetransmitFlow ==
  ASSUME Steady, LocalRetransmit
  PROVE  Flow'
<1>1. Types /\ Types' /\ Flow
  BY LocalRetransmitPlain DEF Steady, Plain
<1> DEFINE h == Packet(Head(rt.events))
           k == Index(Head(rt.events).psn)
<1>2. /\ UNCHANGED <<sc, sq, nextPsn, acked, unack, rx, exh, resp>> /\ rt.events # <<>>
      /\ net' = [net EXCEPT !.req = Append(@, h)] /\ rt' = [rt EXCEPT !.events = Tail(@)]
  BY DEF LocalRetransmit, tx
<1>3. Kept /\ rt'.nak = rt.nak /\ rt'.events = Tail(rt.events)
      /\ net'.req = Append(net.req, h) /\ net'.rsp = net.rsp
  BY <1>1, <1>2 DEF Kept, Types
<1>4. rt.events \in Seq(Entries) /\ net.req \in Seq(Packets) /\ h \in Packets
  <2>1. rt.events \in Seq(Entries) /\ net.req \in Seq(Packets)
    BY <1>1 DEF Types
  <2>2. Head(rt.events) \in Entries
    BY <1>2, <2>1, HeadAndTail
  <2> QED
    BY <2>1, <2>2 DEF Packets
<1>5. Index(h.psn) = k
  BY DEF Packet
<1> HIDE DEF h, k
<1>6. At(rt.events) = At(Tail(rt.events)) \cup {k}
  BY <1>2, <1>4, AtHead DEF k
<1>7. At(Append(net.req, h)) = At(net.req) \cup {k}
  BY <1>4, <1>5, AtAppend
<1>8. Flight' = Flight
  BY <1>2, <1>3, <1>6, <1>7 DEF Flight, Answering, Checked
<1>9. PICK a, b, c, d, e, f, g \in Nat :
        /\ a = Len(rt.events) /\ b = Len(net.req) /\ c = Len(resp.fifo)
        /\ d = Len(resp.exhEvents) /\ e = Len(resp.ibhEvents)
        /\ f = Len(net.rsp) /\ g = Len(rx)
  BY <1>1, Parts
<1>10. /\ Len(Tail(rt.events)) = a - 1 /\ Len(Append(net.req, h)) = b + 1
       /\ Append(net.req, h)[b + 1] = h
       /\ \A i \in 1 .. b : Append(net.req, h)[i] = net.req[i]
  BY <1>2, <1>4, <1>9, HeadAndTail, Appended
<1>11. Load' = Load
  <2>1. Load = a + b + c + d + e + f + g
    BY <1>9 DEF Load
  <2>2. Load' = (a - 1) + (b + 1) + c + d + e + f + g
    BY <1>2, <1>3, <1>9, <1>10 DEF Load
  <2> QED
    BY <2>1, <2>2
<1>12. Listed' /\ Counted' /\ (sc.window = 1 => Single)'
  BY <1>1, <1>3, <1>8, <1>11, Moved
<1>13. Earned'
  BY <1>1, <1>2, <1>3, EarnedSame DEF Flow
<1>14. ASSUME Waiting
       PROVE  Waiting'
  <2>1. Stored' = Stored /\ Done' = Done /\ sq' = sq /\ rt'.timeout = rt.timeout
    BY <1>1, <1>2, <1>3, KeptList DEF Flow, Done, Kept
  <2>2. (Done + 1 .. sq \subseteq At(net'.req)) /\ At(rt'.events) \subseteq 1 .. Done
    BY <1>3, <1>6, <1>7, <1>14 DEF Waiting
  <2>3. k \in 1 .. Done /\ Done \in Nat
    BY <1>6, <1>14, DoneNat DEF Waiting, Steady
  <2>4. ASSUME NEW i \in 1 .. b + 1, NEW j \in 1 .. b + 1, i < j,
               Index(net'.req[i].psn) > Done, Index(net'.req[j].psn) > Done
        PROVE  Index(net'.req[i].psn) < Index(net'.req[j].psn)
    <3>1. j # b + 1
      BY <1>3, <1>5, <1>10, <2>3, <2>4
    <3>2. i \in 1 .. b /\ j \in 1 .. b
      BY <2>4, <3>1
    <3>3. net'.req[i] = net.req[i] /\ net'.req[j] = net.req[j]
      BY <1>3, <1>10, <3>2
    <3> QED
      BY <1>9, <1>14, <2>4, <3>2, <3>3 DEF Waiting
  <2> QED
    BY <1>3, <1>10, <1>14, <2>1, <2>2, <2>4 DEF Waiting
<1> QED
  BY <1>1, <1>2, <1>12, <1>13, <1>14 DEF Flow, Undropped


LEMMA SendAckFlow ==
  ASSUME Steady, SendAck
  PROVE  Flow'
<1>1. Types /\ Types' /\ Flow
  BY SendAckPlain DEF Steady, Plain
<1>2. UNCHANGED <<sc, sq, nextPsn, acked, unack, rt, rx, exh>>
  BY DEF SendAck, tx
<1>3. Kept /\ Listed /\ Counted /\ Earned /\ (Undropped => Waiting)
  BY <1>1, <1>2 DEF Flow, Kept
<1>4. resp.exhEvents \in Seq(Event) /\ resp.ibhEvents \in Seq(Event) /\ net.rsp \in Seq(Answer)
  BY <1>1 DEF Types
<1>5. PICK a, b, c, d, e, f, g \in Nat :
        /\ a = Len(rt.events) /\ b = Len(net.req) /\ c = Len(resp.fifo)
        /\ d = Len(resp.exhEvents) /\ e = Len(resp.ibhEvents)
        /\ f = Len(net.rsp) /\ g = Len(rx)
  BY <1>1, Parts
<1>6. Load = a + b + c + d + e + f + g
  BY <1>5 DEF Load
<1> DEFINE Ack(ev) == [op |-> "ACK", psn |-> ev.psn, nak |-> ev.nak, data |-> 0]
<1>7. ASSUME NEW ev \in Event, ~ev.nak
      PROVE  /\ Len(Append(net.rsp, Ack(ev))) = f + 1 /\ Fine(Append(net.rsp, Ack(ev)))
             /\ At(Append(net.rsp, Ack(ev))) = At(net.rsp) \cup {Index(ev.psn)}
  <2>1. Ack(ev) \in Answer /\ Ack(ev).psn = ev.psn /\ ~Ack(ev).nak
    BY <1>7 DEF Event, Answer
  <2> HIDE DEF Ack
  <2> QED
    BY <1>3, <1>4, <1>5, <2>1, Appended, FineAppend, AtAppend DEF Earned
<1>8. ASSUME NEW ev, net' = [net EXCEPT !.rsp = Append(net.rsp, Ack(ev))],
             resp'.epsn = resp.epsn, resp'.fifo = resp.fifo,
             Fine(resp'.exhEvents), Fine(resp'.ibhEvents), ev \in Event, ~ev.nak,
             At(resp.exhEvents) \cup At(resp.ibhEvents)
               = At(resp'.exhEvents) \cup At(resp'.ibhEvents) \cup {Index(ev.psn)},
             \/ Len(resp'.exhEvents) = d - 1 /\ Len(resp'.ibhEvents) = e
             \/ Len(resp'.exhEvents) = d /\ Len(resp'.ibhEvents) = e - 1
      PROVE  Flow'
  <2> HIDE DEF Ack
  <2>1. net'.rsp = Append(net.rsp, Ack(ev)) /\ net'.req = net.req
    BY <1>1, <1>8 DEF Types
  <2>2. At(net'.rsp) = At(net.rsp) \cup {Index(ev.psn)} /\ Len(net'.rsp) = f + 1 /\ Fine(net'.rsp)
    BY <1>7, <1>8, <2>1
  <2>3. Answering' = Answering /\ Checked' = Checked
    BY <1>2, <1>8, <2>2 DEF Answering, Checked
  <2>4. Flight' = Flight
    BY <1>2, <1>8, <2>1, <2>3 DEF Flight
  <2>5. Load' = Load
    <3>1. CASE Len(resp'.exhEvents) = d - 1 /\ Len(resp'.ibhEvents) = e
      <4>1. Load' = a + b + c + (d - 1) + e + (f + 1) + g
        BY <1>2, <1>5, <1>8, <2>1, <2>2, <3>1 DEF Load
      <4> QED
        BY <1>6, <4>1
    <3>2. CASE Len(resp'.exhEvents) = d /\ Len(resp'.ibhEvents) = e - 1
      <4>1. Load' = a + b + c + d + (e - 1) + (f + 1) + g
        BY <1>2, <1>5, <1>8, <2>1, <2>2, <3>2 DEF Load
      <4> QED
        BY <1>6, <4>1
    <3> QED
      BY <1>8, <3>1, <3>2
  <2>6. Listed' /\ Counted' /\ (sc.window = 1 => Single)'
    BY <1>1, <1>3, <2>4, <2>5, Moved
  <2>7. Done' = Done /\ Stored' = Stored
    BY <1>3, <1>8, KeptList DEF Done
  <2>8. Earned'
    BY <1>2, <1>3, <1>8, <2>2, <2>3, <2>7 DEF Earned
  <2>9. (Undropped => Waiting)'
    BY <1>2, <1>3, <2>1, <2>7, WaitingSame DEF Undropped
  <2> QED
    BY <2>6, <2>8, <2>9 DEF Flow
<1>9. CASE resp.exhEvents # <<>>
  <2> DEFINE ev == Head(resp.exhEvents)
  <2>1. net' = [net EXCEPT !.rsp = Append(net.rsp, Ack(ev))]
        /\ resp' = [resp EXCEPT !.exhEvents = Tail(resp.exhEvents)]
    BY <1>1, <1>9 DEF SendAck, Types
  <2>2. ev \in Event /\ ~ev.nak /\ Fine(Tail(resp.exhEvents))
        /\ Len(Tail(resp.exhEvents)) = d - 1
        /\ At(resp.exhEvents) = At(Tail(resp.exhEvents)) \cup {Index(ev.psn)}
    BY <1>3, <1>4, <1>5, <1>9, HeadAndTail, FineHead, AtHead DEF Earned
  <2>3. resp'.exhEvents = Tail(resp.exhEvents) /\ resp'.ibhEvents = resp.ibhEvents
        /\ resp'.epsn = resp.epsn /\ resp'.fifo = resp.fifo
    BY <1>1, <2>1 DEF Types
  <2> HIDE DEF ev, Ack
  <2>4. At(resp.exhEvents) \cup At(resp.ibhEvents)
          = At(resp'.exhEvents) \cup At(resp'.ibhEvents) \cup {Index(ev.psn)}
    BY <2>2, <2>3
  <2> QED
    BY <1>3, <1>5, <1>8, <2>1, <2>2, <2>3, <2>4 DEF Earned
<1>10. CASE resp.exhEvents = <<>>
  <2> DEFINE ev == Head(resp.ibhEvents)
  <2>0. resp.ibhEvents # <<>>
    BY <1>10 DEF SendAck
  <2>1. net' = [net EXCEPT !.rsp = Append(net.rsp, Ack(ev))]
        /\ resp' = [resp EXCEPT !.ibhEvents = Tail(resp.ibhEvents)]
    BY <1>1, <1>10 DEF SendAck, Types
  <2>2. ev \in Event /\ ~ev.nak /\ Fine(Tail(resp.ibhEvents))
        /\ Len(Tail(resp.ibhEvents)) = e - 1
        /\ At(resp.ibhEvents) = At(Tail(resp.ibhEvents)) \cup {Index(ev.psn)}
    BY <1>3, <1>4, <1>5, <2>0, HeadAndTail, FineHead, AtHead DEF Earned
  <2>3. resp'.ibhEvents = Tail(resp.ibhEvents) /\ resp'.exhEvents = resp.exhEvents
        /\ resp'.epsn = resp.epsn /\ resp'.fifo = resp.fifo
    BY <1>1, <2>1 DEF Types
  <2> HIDE DEF ev, Ack
  <2>4. At(resp.exhEvents) \cup At(resp.ibhEvents)
          = At(resp'.exhEvents) \cup At(resp'.ibhEvents) \cup {Index(ev.psn)}
    BY <2>2, <2>3
  <2> QED
    BY <1>3, <1>5, <1>8, <2>1, <2>2, <2>3, <2>4 DEF Earned
<1> QED
  BY <1>9, <1>10


LEMMA RespExhIs ==
  ASSUME Types, RespExh
  PROVE  /\ resp.fifo # <<>> /\ Head(resp.fifo) \in Packets
         /\ resp'.fifo = Tail(resp.fifo) /\ resp'.epsn = resp.epsn
         /\ resp'.ibhEvents = resp.ibhEvents
         /\ resp'.exhEvents = Append(resp.exhEvents, [psn |-> Head(resp.fifo).psn, nak |-> FALSE])
<1> DEFINE p == Head(resp.fifo)
           ack == [psn |-> p.psn, nak |-> FALSE]
           next == [resp EXCEPT !.fifo = Tail(@), !.msn = @ + 1]
<1>1. resp.fifo # <<>>
  BY DEF RespExh
<1>2. p \in Packets
  BY <1>1, HeadAndTail DEF Types
<1>3. p.op \in Writes \cup Sends
  <2>1. PICK i \in 1 .. Count : p = Packet(Entry(i))
    BY <1>2 DEF Packets, Entries
  <2>2. sc \in Scenarios /\ ReadFree
    BY DEF Types
  <2>3. p.op = Req(i).op
    BY <2>1, <2>2, EntryIs
  <2> QED
    BY <2>2, <2>3, Program
<1>4. CASE p.op \in Writes
  <2>1. p.op \notin Sends /\ p.op # "READ"
    BY <1>4 DEF Writes, Sends
  <2>2. resp' = [next EXCEPT !.mem = Append(@, <<MsnLookup(p), p.data>>),
                             !.vaddr = MsnLookup(p) + 1, !.exhEvents = Append(@, ack)]
    BY <1>4, <2>1 DEF RespExh
  <2> HIDE DEF p, ack
  <2> QED
    BY <1>1, <1>2, <2>2 DEF Types, p, ack
<1>5. CASE p.op \in Sends
  <2>1. p.op \notin Writes /\ p.op # "READ"
    BY <1>5 DEF Writes, Sends
  <2>2. resp' = [next EXCEPT !.mem = Append(@, <<0, p.data>>), !.vaddr = 0,
                             !.exhEvents = Append(@, ack)]
    BY <1>5, <2>1 DEF RespExh
  <2> HIDE DEF p, ack
  <2> QED
    BY <1>1, <1>2, <2>2 DEF Types, p, ack
<1> QED
  BY <1>3, <1>4, <1>5

LEMMA RespExhFlow ==
  ASSUME Steady, RespExh
  PROVE  Flow'
<1>1. Types /\ Types' /\ Flow /\ Served
  BY RespExhPlain DEF Steady, Plain
<1>2. UNCHANGED <<sc, sq, nextPsn, acked, unack, rt, rx, exh, net>>
  BY DEF RespExh, tx
<1>3. Kept /\ Listed /\ Counted /\ Earned /\ (Undropped => Waiting)
  BY <1>1, <1>2 DEF Flow, Kept
<1> DEFINE p == Head(resp.fifo)
           ack == [psn |-> p.psn, nak |-> FALSE]
<1>4. /\ resp.fifo # <<>> /\ p \in Packets
      /\ resp'.fifo = Tail(resp.fifo) /\ resp'.epsn = resp.epsn
      /\ resp'.ibhEvents = resp.ibhEvents /\ resp'.exhEvents = Append(resp.exhEvents, ack)
  BY <1>1, RespExhIs
<1>5. resp.fifo \in Seq(Packets) /\ resp.exhEvents \in Seq(Event) /\ resp.mem \in Seq(Cells)
  BY <1>1 DEF Types
<1>6. p = resp.fifo[1]
  BY <1>4, <1>5, HeadAndTail
<1> DEFINE k == Index(p.psn)
<1>7. Index(p.psn) \in 1 .. Done /\ p.psn \in Psns
  <2>1. PICK m \in Nat : m = Len(resp.mem)
    BY <1>5
  <2>2. PICK n \in Nat \ {0} : n = Len(resp.fifo)
    BY <1>4, <1>5, HeadAndTail
  <2>3. Done = m + n /\ \A j \in 1 .. n : resp.fifo[j] = Packet(Entry(m + j))
    BY <1>1, <2>1, <2>2 DEF Served
  <2>4. 1 \in 1 .. n /\ m + 1 \in 1 .. Done
    BY <2>3
  <2>5. Count < PsnMod /\ Count \in Nat /\ PsnMod \in Nat /\ Done <= Count /\ Done \in Nat
    BY <1>1, Sizes, DoneNat DEF Steady
  <2>6. m + 1 \in 1 .. Count /\ m + 1 \in 1 .. PsnMod
    BY <2>4, <2>5
  <2>7. p = Packet(Entry(m + 1))
    BY <1>6, <2>3, <2>4
  <2> HIDE DEF p
  <2>8. p.psn = Psn(m + 1) /\ Psn(m + 1) \in Psns
    BY <1>1, <2>6, <2>7, EntryIs DEF Types
  <2>9. Index(p.psn) = m + 1
    BY <2>6, <2>8, IndexIs
  <2> QED
    BY <2>4, <2>8, <2>9
<1>8. ack \in Event /\ ack.psn = p.psn /\ ~ack.nak
  BY <1>7 DEF Event
<1> HIDE DEF p, ack
<1>9. /\ At(resp.fifo) = At(Tail(resp.fifo)) \cup {k}
      /\ At(Append(resp.exhEvents, ack)) = At(resp.exhEvents) \cup {k}
      /\ Fine(Append(resp.exhEvents, ack))
  BY <1>3, <1>4, <1>5, <1>8, AtHead, AtAppend, FineAppend DEF Earned, p
<1> HIDE DEF k
<1>10. Flight' = Flight /\ Answering' = Answering \cup {k} /\ Checked' = Checked
  BY <1>2, <1>4, <1>9 DEF Flight, Answering, Checked
<1>11. PICK a, b, c, d, e, f, g \in Nat :
        /\ a = Len(rt.events) /\ b = Len(net.req) /\ c = Len(resp.fifo)
        /\ d = Len(resp.exhEvents) /\ e = Len(resp.ibhEvents)
        /\ f = Len(net.rsp) /\ g = Len(rx)
  BY <1>1, Parts
<1>12. Len(Tail(resp.fifo)) = c - 1 /\ Len(Append(resp.exhEvents, ack)) = d + 1
  BY <1>4, <1>5, <1>8, <1>11, HeadAndTail, Appended
<1>13. Load' = Load
  <2>1. Load = a + b + c + d + e + f + g
    BY <1>11 DEF Load
  <2>2. Load' = a + b + (c - 1) + (d + 1) + e + f + g
    BY <1>2, <1>4, <1>11, <1>12 DEF Load
  <2> QED
    BY <2>1, <2>2
<1>14. Listed' /\ Counted' /\ (sc.window = 1 => Single)'
  BY <1>1, <1>3, <1>10, <1>13, Moved
<1>15. Done' = Done /\ Stored' = Stored
  BY <1>3, <1>4, KeptList DEF Done
<1>16. Earned'
  <2>1. Answering' \subseteq 1 .. Done
    BY <1>3, <1>7, <1>10 DEF Earned, k
  <2> QED
    BY <1>2, <1>3, <1>4, <1>9, <1>10, <1>15, <2>1 DEF Earned
<1>17. (Undropped => Waiting)'
  BY <1>2, <1>3, <1>15, WaitingSame DEF Undropped
<1> QED
  BY <1>14, <1>16, <1>17 DEF Flow


LEMMA PsnOf ==
  ASSUME NEW p \in Psns
  PROVE  Index(p) \in 1 .. PsnMod /\ Psn(Index(p)) = p
<1>1. PsnMod \in Nat \ {0} /\ FirstPsn \in 0 .. PsnMod - 1 /\ p \in 0 .. PsnMod - 1
  BY RoceAssumption DEF Psns
<1> DEFINE i == IF p >= FirstPsn THEN p - FirstPsn + 1 ELSE p - FirstPsn + PsnMod + 1
<1>2. i \in 1 .. PsnMod
  BY <1>1
<1>3. Psn(i) = IF FirstPsn + i - 1 < PsnMod THEN FirstPsn + i - 1 ELSE FirstPsn + i - 1 - PsnMod
  BY <1>2, PsnIs
<1>4. Psn(i) = p
  BY <1>1, <1>2, <1>3
<1>5. Index(p) = i
  BY <1>2, <1>4, IndexIs
<1> QED
  BY <1>2, <1>4, <1>5

LEMMA CheckedIs ==
  /\ rx = <<>> => Checked = {}
  /\ \A w : rx = <<w>> => Checked = {Index(w.p.psn)}
  BY DEF Checked

LEMMA RxLoadFlow ==
  ASSUME Steady, RxLoad
  PROVE  Flow'
<1>1. Types /\ Types' /\ Flow
  BY ReceivePlain DEF Steady, Plain, Receive
<1> DEFINE h == Head(net.rsp)
           w == ResponseWindow(h)
           k == Index(h.psn)
<1>2. /\ UNCHANGED <<sc, sq, nextPsn, acked, unack, rt, exh, resp>> /\ rx = <<>>
      /\ net.rsp # <<>> /\ StoredBefore(h) /\ rx' = <<w>>
      /\ net' = [net EXCEPT !.rsp = Tail(@)]
  BY DEF RxLoad, tx
<1>3. Kept /\ Listed /\ Counted /\ Earned /\ (Undropped => Waiting)
  BY <1>1, <1>2 DEF Flow, Kept
<1>4. net'.rsp = Tail(net.rsp) /\ net'.req = net.req /\ net.rsp \in Seq(Answer)
      /\ rt.insert \in Seq(Entries)
  BY <1>1, <1>2 DEF Types
<1>5. h \in Answer /\ ~h.nak /\ Fine(Tail(net.rsp)) /\ At(net.rsp) = At(Tail(net.rsp)) \cup {k}
  BY <1>2, <1>3, <1>4, HeadAndTail, FineHead, AtHead DEF Earned
<1>6. w.p = h
  BY DEF ResponseWindow
<1>7. h.psn \in Psns
  BY <1>5 DEF Answer
<1> HIDE DEF h
<1>8. Checked = {} /\ Checked' = {k} /\ Len(rx) = 0 /\ Len(rx') = 1 /\ rx'[1].p = h
  <2>1. Checked' = {Index(w.p.psn)}
    <3> HIDE DEF w
    <3> QED
      BY <1>2 DEF Checked
  <2> QED
    BY <1>2, <1>6, <2>1, CheckedIs
<1> HIDE DEF w, k
<1>9. Answering' = Answering /\ Flight' = Flight /\ k \in Answering
  BY <1>2, <1>4, <1>5, <1>8 DEF Flight, Answering
<1>10. PICK a, b, c, d, e, f, g \in Nat :
        /\ a = Len(rt.events) /\ b = Len(net.req) /\ c = Len(resp.fifo)
        /\ d = Len(resp.exhEvents) /\ e = Len(resp.ibhEvents)
        /\ f = Len(net.rsp) /\ g = Len(rx)
  BY <1>1, Parts
<1>11. Len(Tail(net.rsp)) = f - 1
  BY <1>2, <1>4, <1>10, HeadAndTail
<1>12. Load' = Load
  <2>1. Load = a + b + c + d + e + f + 0
    BY <1>8, <1>10 DEF Load
  <2>2. Load' = a + b + c + d + e + (f - 1) + 1
    BY <1>2, <1>4, <1>8, <1>10, <1>11 DEF Load
  <2> QED
    BY <2>1, <2>2
<1>13. Listed' /\ Counted' /\ (sc.window = 1 => Single)'
  BY <1>1, <1>3, <1>9, <1>12, Moved
<1>14. Done' = Done /\ Stored' = Stored
  BY <1>2, <1>3, KeptList DEF Done
<1>15. k \in 1 .. Stored
  <2>1. PICK n \in Nat : n = Len(rt.insert)
    BY <1>4
  <2>2. Stored = sq - n /\ sq \in Nat /\ Count \in Nat /\ sq <= Count
    BY <1>1, <2>1, Sizes DEF Stored
  <2>3. k \in 1 .. sq
    BY <1>3, <1>9 DEF Counted, Flight
  <2>4. ASSUME k > Stored
        PROVE  FALSE
    <3>1. PICK j \in 1 .. n : k = Stored + j
      <4>1. k - Stored \in 1 .. n /\ k = Stored + (k - Stored)
        BY <2>2, <2>3, <2>4
      <4> QED
        BY <4>1
    <3>2. rt.insert[j] = Entry(k)
      BY <1>3, <2>1, <3>1 DEF Listed
    <3>3. k \in 1 .. Count
      BY <2>2, <2>3
    <3>4. rt.insert[j].psn = Psn(k)
      BY <1>1, <3>2, <3>3, EntryIs DEF Types
    <3>5. Psn(k) = h.psn
      BY <1>7, PsnOf DEF k
    <3>6. j \in DOMAIN rt.insert
      BY <1>4, <2>1
    <3> QED
      BY <1>2, <3>4, <3>5, <3>6 DEF StoredBefore
  <2> QED
    BY <2>2, <2>3, <2>4
<1>16. Earned'
  <2>1. \A i \in 1 .. Len(rx') : ~rx'[i].p.nak
    BY <1>5, <1>8
  <2> QED
    BY <1>2, <1>3, <1>4, <1>5, <1>8, <1>9, <1>14, <1>15, <2>1 DEF Earned
<1>17. (Undropped => Waiting)'
  BY <1>2, <1>3, <1>4, <1>14, WaitingSame DEF Undropped
<1> QED
  BY <1>13, <1>16, <1>17 DEF Flow

LEMMA RxExhFlow ==
  ASSUME Steady, RxExh
  PROVE  Flow'
<1>1. Types /\ Types' /\ Flow
  BY ReceivePlain DEF Steady, Plain, Receive
<1> DEFINE p == Head(exh.fifo)
<1>2. UNCHANGED <<sc, sq, nextPsn, acked, unack, rx, net, resp>> /\ exh.fifo # <<>>
  BY DEF RxExh, tx
<1>3. Listed /\ Counted /\ Earned /\ (Undropped => Waiting)
  BY <1>1, <1>2 DEF Flow
<1>4. exh.fifo \in Seq(Answer)
  BY <1>1 DEF Types
<1>5. p \in Answer /\ ~p.nak /\ Fine(Tail(exh.fifo))
  BY <1>2, <1>3, <1>4, HeadAndTail, FineHead DEF Earned
<1>6. p.op = "ACK"
  BY <1>5 DEF Answer
<1>7. exh' = [exh EXCEPT !.fifo = Tail(exh.fifo)]
      /\ rt' = [rt EXCEPT !.init = rt.init, !.nak = rt.nak]
  BY <1>1, <1>5, <1>6 DEF RxExh, ReadResponses, ForwardsAddress, Types
<1> HIDE DEF p
<1>8. rt' = rt /\ exh'.fifo = Tail(exh.fifo)
  BY <1>1, <1>7 DEF Types
<1>9. Kept
  BY <1>2, <1>8 DEF Kept
<1>10. Flight' = Flight /\ Load' = Load /\ Answering' = Answering /\ Checked' = Checked
  BY <1>2, <1>8 DEF Flight, Answering, Checked, Load
<1>11. Listed' /\ Counted' /\ (sc.window = 1 => Single)'
  BY <1>1, <1>9, <1>10, Moved
<1>12. Done' = Done /\ Stored' = Stored
  BY <1>2, <1>3, <1>9, KeptList DEF Done
<1>13. Earned'
  BY <1>2, <1>3, <1>5, <1>8, <1>10, <1>12 DEF Earned
<1>14. (Undropped => Waiting)'
  BY <1>2, <1>3, <1>8, <1>9, <1>12, WaitingSame DEF Undropped
<1> QED
  BY <1>11, <1>13, <1>14 DEF Flow

(* Every answer is an acknowledgement: none is dropped. *)
LEMMA NoDrop ==
  ASSUME Types
  PROVE  ~RxDrop
<1>1. ASSUME rx # <<>>
      PROVE  rx[1].p.op = "ACK"
  <2>1. rx[1] \in Loaded
    BY <1>1, HeadAndTail DEF Types
  <2>2. rx[1].p \in Answer
    BY <2>1 DEF Loaded
  <2> QED
    BY <2>2 DEF Answer
<1> QED
  BY <1>1 DEF RxDrop


LEMMA SameFlow ==
  ASSUME Types, Types', Flow, UNCHANGED <<sc, sq, acked, rt, rx, exh, net, resp>>
  PROVE  Flow'
<1>1. Kept /\ Listed /\ Earned /\ (Undropped => Waiting)
  BY DEF Flow, Kept
<1>2. Flight' = Flight /\ Load' = Load /\ Done' = Done
  BY DEF Flight, Answering, Checked, Load, Done
<1>3. Listed' /\ Counted' /\ (sc.window = 1 => Single)'
  BY <1>1, <1>2, Moved
<1>4. Earned'
  BY <1>1, EarnedSame
<1>5. (Undropped => Waiting)'
  BY <1>1, <1>2, WaitingSame DEF Undropped
<1> QED
  BY <1>3, <1>4, <1>5 DEF Flow

LEMMA TimerFlow ==
  ASSUME Steady, Timer
  PROVE  Flow'
<1>1. Types /\ Types' /\ Flow
  BY TimerPlain DEF Steady, Plain
<1>2. UNCHANGED <<sc, sq, nextPsn, acked, unack, rx, exh, net, resp>>
  BY DEF Timer, TimerClear, TimerSet, TimerExpire, tx
<1>3. rt' = rt \/ (Quiet /\ rt' = [rt EXCEPT !.timeout = @ + 1])
  BY DEF Timer, TimerClear, TimerSet, TimerExpire
<1>4. CASE rt' = rt
  BY <1>1, <1>2, <1>4, SameFlow
<1>5. CASE Quiet /\ rt' = [rt EXCEPT !.timeout = @ + 1]
  <2>1. Listed /\ Counted /\ Earned /\ (Undropped => Waiting) /\ (sc.window = 1 => Single)
    BY <1>1 DEF Flow
  <2>2. /\ rt'.list = rt.list /\ rt'.insert = rt.insert /\ rt'.upd = rt.upd
        /\ rt'.events = rt.events /\ rt'.nak = rt.nak /\ rt'.timeout = 1 /\ rt.insert = <<>>
    BY <1>1, <1>5 DEF Quiet, Types
  <2>3. Flight = {}
    BY <1>5, AtEmpty, CheckedIs DEF Flight, Answering, Quiet
  <2>4. Flight' = Flight /\ Answering' = Answering /\ Checked' = Checked /\ Load' = Load
        /\ Done' = Done
    BY <1>2, <2>2 DEF Flight, Answering, Checked, Load, Done
  <2>5. Stored' = Stored /\ Released' = Released
    BY <1>2, <2>2 DEF Stored, Released
  <2>6. Listed'
    <3>1. \A j : Entry(j)' = Entry(j)
      BY <1>2, SameProgram
    <3> QED
      BY <2>1, <2>2, <2>5, <3>1 DEF Listed
  <2>7. Counted'
    BY <1>2, <2>1, <2>2, <2>3, <2>4, <2>5 DEF Counted, Low
  <2>8. Earned'
    BY <1>2, <2>1, <2>2, <2>4, <2>5 DEF Earned
  <2>9. ASSUME Waiting
        PROVE  Waiting'
    <3>1. net.req = <<>>
      BY <1>5 DEF Quiet
    <3>2. Done + 1 .. sq \subseteq {}
      BY <2>9, <3>1, AtEmpty DEF Waiting
    <3>3. Done \in Nat /\ sq \in Nat
      BY <1>1, Sizes, DoneNat DEF Steady
    <3>4. sq <= Done
      BY <3>2, <3>3
    <3>5. Stored = sq
      BY <2>2, <3>3 DEF Stored
    <3> QED
      BY <1>2, <2>2, <2>4, <2>5, <2>9, <3>4, <3>5 DEF Waiting
  <2>10. (sc.window = 1 => Single)'
    BY <1>2, <2>1, <2>4 DEF Single
  <2> QED
    BY <1>2, <2>1, <2>6, <2>7, <2>8, <2>9, <2>10 DEF Flow, Undropped
<1> QED
  BY <1>3, <1>4, <1>5

LEMMA LoseFlow ==
  ASSUME Steady, Lose
  PROVE  Flow'
<1>1. Types /\ Types' /\ Flow
  BY LosePlain DEF Steady, Plain
<1>2. UNCHANGED <<sc, sq, nextPsn, acked, unack, rt, rx, exh, resp>>
  BY DEF Lose, tx
<1>3. Kept /\ Listed /\ Counted /\ Earned /\ (Undropped => Waiting)
  BY <1>1, <1>2 DEF Flow, Kept
<1>4. net.req \in Seq(Packets) /\ net.rsp \in Seq(Answer)
  BY <1>1 DEF Types
<1>5. PICK a, b, c, d, e, f, g \in Nat :
        /\ a = Len(rt.events) /\ b = Len(net.req) /\ c = Len(resp.fifo)
        /\ d = Len(resp.exhEvents) /\ e = Len(resp.ibhEvents)
        /\ f = Len(net.rsp) /\ g = Len(rx)
  BY <1>1, Parts
<1>6. Load = a + b + c + d + e + f + g
  BY <1>5 DEF Load
<1>7. Done' = Done /\ Stored' = Stored
  BY <1>2, <1>3, KeptList DEF Done
<1>8. \/ /\ "request" \in sc.may /\ net.lost < sc.losses /\ net.req # <<>>
         /\ net'.req = Tail(net.req) /\ net'.rsp = net.rsp
      \/ net.rsp # <<>> /\ net'.req = net.req /\ net'.rsp = Tail(net.rsp)
  BY <1>1 DEF Lose, Types
<1>9. CASE /\ "request" \in sc.may /\ net.lost < sc.losses /\ net.req # <<>>
           /\ net'.req = Tail(net.req) /\ net'.rsp = net.rsp
  <2> DEFINE k == Index(Head(net.req).psn)
  <2>1. At(net.req) = At(Tail(net.req)) \cup {k} /\ Len(Tail(net.req)) = b - 1
    BY <1>4, <1>5, <1>9, AtHead, HeadAndTail
  <2> HIDE DEF k
  <2>2. Flight = Flight' \cup {k}
    BY <1>2, <1>9, <2>1 DEF Flight, Answering, Checked
  <2>3. Load' = Load - 1
    <3>1. Load' = a + (b - 1) + c + d + e + f + g
      BY <1>2, <1>5, <1>9, <2>1 DEF Load
    <3> QED
      BY <1>6, <3>1
  <2>4. Listed' /\ Counted' /\ (sc.window = 1 => Single)'
    BY <1>1, <1>3, <2>2, <2>3, Dropped
  <2>5. Earned'
    BY <1>2, <1>3, <1>9, EarnedSame
  <2>6. ~Undropped
    <3>1. net.lost \in Nat
      BY <1>1 DEF Types
    <3> QED
      BY <1>9, <3>1 DEF Undropped
  <2> QED
    BY <1>2, <2>4, <2>5, <2>6 DEF Flow, Undropped
<1>10. CASE net.rsp # <<>> /\ net'.req = net.req /\ net'.rsp = Tail(net.rsp)
  <2> DEFINE k == Index(Head(net.rsp).psn)
  <2>1. At(net.rsp) = At(Tail(net.rsp)) \cup {k} /\ Len(Tail(net.rsp)) = f - 1
        /\ Fine(Tail(net.rsp))
    BY <1>3, <1>4, <1>5, <1>10, AtHead, HeadAndTail, FineHead DEF Earned
  <2> HIDE DEF k
  <2>2. Flight = Flight' \cup {k} /\ Answering' \subseteq Answering /\ Checked' = Checked
    BY <1>2, <1>10, <2>1 DEF Flight, Answering, Checked
  <2>3. Load' = Load - 1
    <3>1. Load' = a + b + c + d + e + (f - 1) + g
      BY <1>2, <1>5, <1>10, <2>1 DEF Load
    <3> QED
      BY <1>6, <3>1
  <2>4. Listed' /\ Counted' /\ (sc.window = 1 => Single)'
    BY <1>1, <1>3, <2>2, <2>3, Dropped
  <2>5. Earned'
    BY <1>2, <1>3, <1>7, <1>10, <2>1, <2>2 DEF Earned
  <2>6. (Undropped => Waiting)'
    BY <1>2, <1>3, <1>7, <1>10, WaitingSame DEF Undropped
  <2> QED
    BY <2>4, <2>5, <2>6 DEF Flow
<1> QED
  BY <1>8, <1>9, <1>10


(* The responder meets no gap. *)
LEMMA HeadRequest ==
  ASSUME Steady, net.req # <<>>
  PROVE  LET p == Head(net.req)
             k == Index(p.psn)
         IN /\ p \in Packets /\ p.psn = Psn(k) /\ k \in 1 .. sq /\ k <= Done + 1
            /\ p.op \in Writes \cup Sends /\ NumPkg(p.op, p.len) = 1
            /\ At(net.req) = At(Tail(net.req)) \cup {k}
<1>1. Types /\ Flow /\ net.req \in Seq(Packets) /\ sc \in Scenarios /\ ReadFree /\ Gapless
  BY DEF Steady, Plain, Types
<1> DEFINE p == Head(net.req)
           k == Index(p.psn)
<1>2. p \in Packets /\ p = net.req[1] /\ At(net.req) = At(Tail(net.req)) \cup {k}
  BY <1>1, HeadAndTail, AtHead
<1>3. PICK n \in Nat \ {0} : n = Len(net.req)
  BY <1>1, HeadAndTail
<1>4. PICK i \in 1 .. Count : p = Packet(Entry(i))
  BY <1>2 DEF Packets, Entries
<1>5. sq \in Nat /\ Count \in Nat /\ Count < PsnMod /\ PsnMod \in Nat /\ Done \in Nat
  BY <1>1, Sizes, DoneNat DEF Steady
<1>6. i \in 1 .. PsnMod
  BY <1>5
<1>7. p.psn = Psn(i) /\ p.op = Req(i).op /\ p.len = Req(i).len
  BY <1>1, <1>4, EntryIs
<1>8. k = i
  BY <1>6, <1>7, IndexIs
<1>9. p.op \in Writes \cup Sends /\ NumPkg(p.op, p.len) = 1
  BY <1>1, <1>7, Program
<1>10. k \in 1 .. sq
  BY <1>1, <1>2 DEF Flow, Counted, Flight
<1> HIDE DEF p, k
<1>11. k <= Done + 1
  <2>1. CASE sc.window = 1
    <3>1. k = sq /\ sq <= Len(acked) + 1 /\ Len(acked) <= Done
      BY <1>1, <1>2, <2>1 DEF Flow, Single, Earned, Flight
    <3>2. PICK a \in Nat : a = Len(acked)
      BY <1>1, Sizes
    <3> QED
      BY <1>5, <3>1, <3>2
  <2>2. CASE Undropped
    <3> SUFFICES ASSUME k > Done PROVE k <= Done + 1
      BY <1>5, <1>10
    <3>1. Waiting
      BY <1>1, <2>2 DEF Flow
    <3>2. Done + 1 \in Done + 1 .. sq
      BY <1>5, <1>10
    <3>3. Done + 1 \in At(net.req)
      BY <3>1, <3>2 DEF Waiting
    <3>4. PICK j \in 1 .. n : Done + 1 = Index(net.req[j].psn)
      BY <1>3, <3>3 DEF At
    <3>5. CASE j = 1
      BY <1>2, <1>5, <3>4, <3>5 DEF k
    <3>6. CASE j # 1
      <4>1. 1 \in 1 .. n /\ 1 < j
        BY <3>6
      <4>2. Index(net.req[1].psn) > Done /\ Index(net.req[j].psn) > Done
        BY <1>2, <1>5, <3>4 DEF k
      <4>3. Index(net.req[1].psn) < Index(net.req[j].psn)
        BY <1>3, <3>1, <4>1, <4>2 DEF Waiting
      <4>4. k < Done + 1
        BY <1>2, <3>4, <4>3 DEF k
      <4> QED
        BY <1>5, <1>10, <4>4
    <3> QED
      BY <3>5, <3>6
  <2> QED
    BY <1>1, <2>1, <2>2 DEF Gapless, Undropped
<1> QED
  BY <1>2, <1>7, <1>8, <1>9, <1>10, <1>11 DEF p, k


LEMMA RespIbhFlow ==
  ASSUME Steady, RespIbh
  PROVE  Flow'
<1>1. Types /\ Types' /\ Flow /\ Served
  BY RespIbhPlain DEF Steady, Plain
<1> DEFINE p == Head(net.req)
           k == Index(p.psn)
<1>2. net.req # <<>> /\ UNCHANGED <<sc, sq, nextPsn, acked, unack, rt, rx, exh>>
      /\ net' = [net EXCEPT !.req = Tail(@)] /\ (Accept(p) \/ Again(p) \/ Reject(p))
  BY DEF RespIbh, tx
<1>3. /\ p \in Packets /\ p.psn = Psn(k) /\ k \in 1 .. sq /\ k <= Done + 1
      /\ p.op \in Writes \cup Sends /\ NumPkg(p.op, p.len) = 1
      /\ At(net.req) = At(Tail(net.req)) \cup {k}
  BY <1>2, HeadRequest
<1> HIDE DEF p
<1>4. Kept /\ Listed /\ Counted /\ Earned /\ (Undropped => Waiting)
  BY <1>1, <1>2 DEF Flow, Kept
<1>5. /\ net'.req = Tail(net.req) /\ net'.rsp = net.rsp /\ net.req \in Seq(Packets)
      /\ resp.fifo \in Seq(Packets) /\ resp.ibhEvents \in Seq(Event)
  BY <1>1, <1>2 DEF Types
<1>6. PICK a, b, c, d, e, f, g \in Nat :
        /\ a = Len(rt.events) /\ b = Len(net.req) /\ c = Len(resp.fifo)
        /\ d = Len(resp.exhEvents) /\ e = Len(resp.ibhEvents)
        /\ f = Len(net.rsp) /\ g = Len(rx)
  BY <1>1, Parts
<1>7. Load = a + b + c + d + e + f + g
  BY <1>6 DEF Load
<1>8. Len(Tail(net.req)) = b - 1 /\ \A i \in 1 .. b - 1 : Tail(net.req)[i] = net.req[i + 1]
  BY <1>2, <1>5, <1>6, HeadAndTail
<1>9. sq \in Nat /\ Count \in Nat /\ Count < PsnMod /\ PsnMod \in Nat /\ sq <= Count
      /\ Done \in Nat /\ Done <= Count /\ Done \in 0 .. PsnMod - 1 /\ Stored \in Int
  <2>1. sq \in Nat /\ Count \in Nat /\ Count < PsnMod /\ PsnMod \in Nat /\ sq <= Count
        /\ Done \in Nat /\ Done <= Count /\ Stored \in Int
    BY <1>1, Sizes, DoneNat DEF Steady
  <2> QED
    BY <2>1
<1>10. resp.epsn = Psn(Done + 1)
  BY <1>1 DEF Served
<1>11. k \in 1 .. PsnMod - 1 /\ k \in 1 .. PsnMod
  BY <1>3, <1>9
<1>12. Stored' = Stored
  BY <1>4, KeptList
<1> HIDE DEF k
<1>13. CASE p.psn = resp.epsn
  <2>1. k = Done + 1
    <3>1. Done + 1 \in 1 .. PsnMod
      BY <1>9
    <3> QED
      BY <1>3, <1>10, <1>11, <1>13, <3>1, PsnInjective
  <2>2. resp' = [resp EXCEPT !.epsn = Inc(p.psn, 1), !.retry = 7, !.fifo = Append(@, p)]
    BY <1>2, <1>3, <1>13 DEF Accept, Again, Reject
  <2>3. resp'.epsn = Inc(p.psn, 1) /\ resp'.fifo = Append(resp.fifo, p)
        /\ resp'.exhEvents = resp.exhEvents /\ resp'.ibhEvents = resp.ibhEvents
    BY <1>1, <2>2 DEF Types
  <2>4. Done' = Done + 1
    <3>1. k \in 0 .. PsnMod - 1
      BY <1>11
    <3>2. Inc(p.psn, 1) = Psn(k + 1)
      BY <1>3, <1>11, PsnNext
    <3>3. Inc(resp'.epsn, -FirstPsn) = k
      BY <2>3, <3>1, <3>2, DoneIs
    <3> QED
      BY <2>1, <3>3 DEF Done
  <2>5. At(Append(resp.fifo, p)) = At(resp.fifo) \cup {k} /\ Len(Append(resp.fifo, p)) = c + 1
    BY <1>3, <1>5, <1>6, AtAppend, Appended DEF k
  <2>6. Flight' = Flight /\ Answering' = Answering /\ Checked' = Checked
    BY <1>2, <1>3, <1>5, <2>3, <2>5 DEF Flight, Answering, Checked
  <2>7. Load' = Load
    <3>1. Load' = a + (b - 1) + (c + 1) + d + e + f + g
      BY <1>2, <1>5, <1>6, <1>8, <2>3, <2>5 DEF Load
    <3> QED
      BY <1>7, <3>1
  <2>8. Listed' /\ Counted' /\ (sc.window = 1 => Single)'
    BY <1>1, <1>4, <2>6, <2>7, Moved
  <2>9. Earned'
    <3>1. Done + 1 <= sq
      BY <1>3, <2>1
    <3>2. Answering \subseteq 1 .. Done + 1
      BY <1>4, <1>9 DEF Earned
    <3>3. Len(acked) <= Done + 1
      <4>1. PICK z \in Nat : z = Len(acked)
        BY <1>1, Sizes
      <4> QED
        BY <1>4, <1>9, <4>1 DEF Earned
    <3> QED
      BY <1>2, <1>4, <1>5, <1>12, <2>3, <2>4, <2>6, <3>1, <3>2, <3>3 DEF Earned
  <2>10. ASSUME Waiting
         PROVE  Waiting'
    <3>1. (Done + 1) + 1 .. sq \subseteq At(Tail(net.req))
      <4> SUFFICES ASSUME NEW l \in (Done + 1) + 1 .. sq PROVE l \in At(Tail(net.req))
        OBVIOUS
      <4>1. l \in Done + 1 .. sq /\ l # k
        BY <1>9, <2>1
      <4> QED
        BY <1>3, <2>10, <4>1 DEF Waiting
    <3>2. At(rt.events) \subseteq 1 .. Done + 1 /\ (rt.timeout = 1 => Stored <= Done + 1)
      BY <1>9, <2>10 DEF Waiting
    <3>3. ASSUME NEW i \in 1 .. b - 1, NEW j \in 1 .. b - 1, i < j,
                 Index(Tail(net.req)[i].psn) > Done + 1, Index(Tail(net.req)[j].psn) > Done + 1
          PROVE  Index(Tail(net.req)[i].psn) < Index(Tail(net.req)[j].psn)
      <4>1. i + 1 \in 1 .. b /\ j + 1 \in 1 .. b /\ i + 1 < j + 1
        BY <3>3
      <4>2. Tail(net.req)[i] = net.req[i + 1] /\ Tail(net.req)[j] = net.req[j + 1]
        BY <1>8
      <4>3. Index(net.req[i + 1].psn) > Done /\ Index(net.req[j + 1].psn) > Done
        <5>1. Index(net.req[i + 1].psn) \in Int /\ Index(net.req[j + 1].psn) \in Int
          <6>1. At(net.req) \subseteq 1 .. sq
            BY <1>4 DEF Counted, Flight
          <6>2. Index(net.req[i + 1].psn) \in At(net.req) /\ Index(net.req[j + 1].psn) \in At(net.req)
            BY <1>6, <4>1 DEF At
          <6> QED
            BY <6>1, <6>2
        <5> QED
          <6>1. PICK y \in Int : y = Index(net.req[i + 1].psn)
            BY <5>1
          <6>2. PICK z \in Int : z = Index(net.req[j + 1].psn)
            BY <5>1
          <6>3. y > Done + 1 /\ z > Done + 1
            BY <3>3, <4>2, <6>1, <6>2
          <6> HIDE DEF Done
          <6> QED
            BY <1>9, <6>1, <6>2, <6>3
      <4> QED
        BY <1>6, <2>10, <4>1, <4>2, <4>3 DEF Waiting
    <3> QED
      BY <1>2, <1>5, <1>8, <1>12, <2>4, <3>1, <3>2, <3>3 DEF Waiting
  <2> QED
    BY <1>2, <1>4, <2>8, <2>9, <2>10 DEF Flow, Undropped
<1>14. CASE p.psn # resp.epsn
  <2>1. k # Done + 1
    BY <1>3, <1>10, <1>14
  <2>2. k <= Done
    BY <1>3, <1>9, <2>1
  <2>3. IsDuplicate(p.psn, resp.epsn, FirstPsn)
    BY <1>3, <1>9, <1>10, <1>11, <2>1, <2>2, DuplicateIs
  <2>4. Again(p)
    BY <1>2, <1>14, <2>3 DEF Accept, Reject
  <2>5. ASSUME Waiting, Done' = Done
        PROVE  Waiting'
    <3>1. Done + 1 .. sq \subseteq At(Tail(net.req))
      <4> SUFFICES ASSUME NEW l \in Done + 1 .. sq PROVE l \in At(Tail(net.req))
        OBVIOUS
      <4>1. l # k
        BY <1>3, <1>9, <2>2
      <4> QED
        BY <1>3, <2>5, <4>1 DEF Waiting
    <3>2. ASSUME NEW i \in 1 .. b - 1, NEW j \in 1 .. b - 1, i < j,
                 Index(Tail(net.req)[i].psn) > Done, Index(Tail(net.req)[j].psn) > Done
          PROVE  Index(Tail(net.req)[i].psn) < Index(Tail(net.req)[j].psn)
      <4>1. i + 1 \in 1 .. b /\ j + 1 \in 1 .. b /\ i + 1 < j + 1
        BY <3>2
      <4>2. Tail(net.req)[i] = net.req[i + 1] /\ Tail(net.req)[j] = net.req[j + 1]
        BY <1>8
      <4> QED
        BY <1>6, <2>5, <3>2, <4>1, <4>2 DEF Waiting
    <3> QED
      BY <1>2, <1>5, <1>8, <1>12, <2>5, <3>1, <3>2 DEF Waiting
  <2>6. CASE p.op \in Writes
    <3> DEFINE ev == [psn |-> p.psn, nak |-> FALSE]
    <3>1. p.op # "READ"
      BY <2>6 DEF Writes
    <3>2. resp' = [resp EXCEPT !.ibhEvents = Append(@, ev)]
      BY <2>4, <2>6, <3>1 DEF Again
    <3>3. ev \in Event /\ ev.psn = p.psn /\ ~ev.nak
      BY <1>3, <1>11, PsnIs DEF Event
    <3> HIDE DEF ev
    <3>4. resp'.epsn = resp.epsn /\ resp'.fifo = resp.fifo
          /\ resp'.exhEvents = resp.exhEvents /\ resp'.ibhEvents = Append(resp.ibhEvents, ev)
      BY <1>1, <3>2 DEF Types
    <3>5. /\ At(Append(resp.ibhEvents, ev)) = At(resp.ibhEvents) \cup {k}
          /\ Len(Append(resp.ibhEvents, ev)) = e + 1 /\ Fine(Append(resp.ibhEvents, ev))
      BY <1>4, <1>5, <1>6, <3>3, AtAppend, Appended, FineAppend DEF k, Earned
    <3>6. Flight' = Flight /\ Answering' = Answering \cup {k} /\ Checked' = Checked
      BY <1>2, <1>3, <1>5, <3>4, <3>5 DEF Flight, Answering, Checked
    <3>7. Load' = Load
      <4>1. Load' = a + (b - 1) + c + d + (e + 1) + f + g
        BY <1>2, <1>5, <1>6, <1>8, <3>4, <3>5 DEF Load
      <4> QED
        BY <1>7, <4>1
    <3>8. Listed' /\ Counted' /\ (sc.window = 1 => Single)'
      BY <1>1, <1>4, <3>6, <3>7, Moved
    <3>9. Done' = Done
      BY <3>4 DEF Done
    <3>10. Earned'
      <4>1. Answering' \subseteq 1 .. Done
        <5>1. k \in 1 .. Done
          BY <1>3, <1>9, <2>2
        <5> QED
          BY <1>4, <3>6, <5>1 DEF Earned
      <4> QED
        BY <1>2, <1>4, <1>5, <1>12, <3>4, <3>5, <3>6, <3>9, <4>1 DEF Earned
    <3> QED
      BY <1>2, <1>4, <2>5, <3>8, <3>9, <3>10 DEF Flow, Undropped
  <2>7. CASE p.op \notin Writes
    <3>1. p.op # "READ"
      BY <1>3, <2>7 DEF Sends
    <3>2. resp' = resp
      BY <2>4, <2>7, <3>1 DEF Again
    <3>3. Flight = Flight' \cup {k}
      BY <1>2, <1>3, <1>5, <3>2 DEF Flight, Answering, Checked
    <3>4. Load' = Load - 1
      <4>1. Load' = a + (b - 1) + c + d + e + f + g
        BY <1>2, <1>5, <1>6, <1>8, <3>2 DEF Load
      <4> QED
        BY <1>7, <4>1
    <3>5. Listed' /\ Counted' /\ (sc.window = 1 => Single)'
      BY <1>1, <1>4, <3>3, <3>4, Dropped
    <3>6. Earned' /\ Done' = Done
      BY <1>2, <1>4, <1>5, <3>2, EarnedSame DEF Done
    <3> QED
      BY <1>2, <1>4, <2>5, <3>5, <3>6 DEF Flow, Undropped
  <2> QED
    BY <2>6, <2>7
<1> QED
  BY <1>13, <1>14


(* No more was acknowledged than stored, and answers to come are left. *)
LEMMA Room ==
  ASSUME Types, Listed, Counted
  PROVE  /\ Cardinality(Low(Flight, Stored)) \in Nat /\ Stored \in Nat /\ Stored <= sq
         /\ Len(acked) + Cardinality(Low(Flight, Stored)) <= Stored
<1>1. Stored \in Int /\ Released \in Int /\ sq \in Nat
  BY Sizes
<1>2. PICK a \in Nat : a = Len(acked)
  BY Sizes
<1>3. PICK u \in Nat : u = Len(rt.upd)
  BY Sizes
<1>4. PICK l \in Nat : l = Len(rt.list)
  BY Sizes
<1>5. PICK n \in Nat : n = Len(rt.insert)
  BY Sizes
<1>6. PICK c : c = Cardinality(Low(Flight, Stored)) /\ c \in Nat
  BY <1>1, FlightBound, LowIs
<1>7. Stored = sq - n /\ Released = a - u /\ Released >= 0 /\ Released + l = Stored /\ c + u <= l
  BY <1>2, <1>3, <1>4, <1>5, <1>6 DEF Stored, Released, Listed, Counted
<1> QED
  BY <1>1, <1>2, <1>6, <1>7

LEMMA LocalRequestFlow ==
  ASSUME Steady, LocalRequest
  PROVE  Flow'
<1>1. Types /\ Types' /\ Flow
  BY LocalRequestPlain DEF Steady, Plain
<1> DEFINE x == sq + 1
           e == Entry(x)
           h == Packet(e)
<1>2. Listed /\ Counted /\ Earned /\ (Undropped => Waiting) /\ (sc.window = 1 => Single)
  BY <1>1 DEF Flow
<1>3. sq \in Nat /\ Count \in Nat /\ Count < PsnMod /\ PsnMod \in Nat /\ sq <= Count
      /\ Done \in Nat /\ Stored \in Nat /\ Stored <= sq
  BY <1>1, <1>2, Sizes, DoneNat, Room DEF Steady
<1>4. x \in 1 .. Count /\ x \in 1 .. PsnMod
  <2>1. sq < Count
    BY DEF LocalRequest, Count
  <2> QED
    BY <1>3, <2>1
<1>5. /\ UNCHANGED <<sc, unack, rx, exh, acked, resp>> /\ sq' = x
      /\ net' = [net EXCEPT !.req = Append(@, h)] /\ rt' = [rt EXCEPT !.insert = Append(@, e)]
  BY <1>1 DEF LocalRequest, Entry, Req, Types
<1>6. e \in Entries /\ h \in Packets /\ Index(h.psn) = x
  BY <1>1, <1>4, EntryIs, IndexIs DEF Types
<1> HIDE DEF e, h
<1>7. /\ rt'.insert = Append(rt.insert, e) /\ rt'.list = rt.list /\ rt'.upd = rt.upd
      /\ rt'.events = rt.events /\ rt'.nak = rt.nak /\ rt'.timeout = rt.timeout
      /\ net'.req = Append(net.req, h) /\ net'.rsp = net.rsp
      /\ rt.insert \in Seq(Entries) /\ net.req \in Seq(Packets)
  BY <1>1, <1>5 DEF Types
<1>8. PICK a, b, c, d, f, z, g \in Nat :
        /\ a = Len(rt.events) /\ b = Len(net.req) /\ c = Len(resp.fifo)
        /\ d = Len(resp.exhEvents) /\ f = Len(resp.ibhEvents)
        /\ z = Len(net.rsp) /\ g = Len(rx)
  BY <1>1, Parts
<1>9. PICK n \in Nat : n = Len(rt.insert)
  BY <1>7
<1>10. /\ Len(rt'.insert) = n + 1 /\ rt'.insert[n + 1] = e
       /\ \A j \in 1 .. n : rt'.insert[j] = rt.insert[j]
       /\ Len(net'.req) = b + 1 /\ net'.req[b + 1] = h
       /\ \A j \in 1 .. b : net'.req[j] = net.req[j]
       /\ At(net'.req) = At(net.req) \cup {x}
  BY SMTT(40), <1>6, <1>7, <1>8, <1>9, Appended, AtAppend
<1>11. Released' = Released /\ Stored = sq - n /\ Stored' = Stored
  <2>1. Stored' = (sq + 1) - (n + 1)
    BY <1>5, <1>10 DEF Stored
  <2>2. Stored = sq - n
    BY <1>9 DEF Stored
  <2>3. Released' = Released
    BY <1>5, <1>7 DEF Released
  <2> QED
    BY <1>3, <2>1, <2>2, <2>3
<1>12. Flight' = Flight \cup {x} /\ Answering' = Answering /\ Checked' = Checked /\ Done' = Done
  BY <1>5, <1>7, <1>10 DEF Flight, Answering, Checked, Done
<1>13. Load' = Load + 1
  <2>1. Load = a + b + c + d + f + z + g
    BY <1>8 DEF Load
  <2>2. Load' = a + (b + 1) + c + d + f + z + g
    BY <1>5, <1>7, <1>8, <1>10 DEF Load
  <2> QED
    BY <2>1, <2>2
<1>14. Listed'
  <2>1. ASSUME NEW j \in 1 .. n + 1
        PROVE  rt'.insert[j] = Entry(Stored + j)
    <3>1. CASE j \in 1 .. n
      BY <1>2, <1>9, <1>10, <3>1 DEF Listed
    <3>2. CASE j = n + 1
      <4>1. Stored + j = x
        BY <1>3, <1>11, <3>2
      <4> QED
        BY <1>10, <3>2, <4>1 DEF e
    <3> QED
      BY <3>1, <3>2
  <2>2. \A j : Entry(j)' = Entry(j)
    BY <1>5, SameProgram
  <2> QED
    BY <1>2, <1>7, <1>10, <1>11, <2>1, <2>2 DEF Listed
<1>15. Flight \subseteq 1 .. sq /\ x \notin Flight /\ IsFiniteSet(Flight)
       /\ Cardinality(Flight) = Load /\ Load \in Nat
  <2>1. Flight \subseteq 1 .. sq /\ Cardinality(Flight) = Load
    BY <1>2 DEF Counted
  <2> QED
    BY <1>1, <1>3, <2>1, FlightBound
<1>16. Counted'
  <2>1. Flight' \subseteq 1 .. sq'
    <3>1. 1 .. sq \subseteq 1 .. x /\ x \in 1 .. x
      BY <1>3
    <3> QED
      BY <1>5, <1>12, <1>15, <3>1
  <2>2. Cardinality(Flight') = Load'
    <3>1. Cardinality(Flight \cup {x}) = Cardinality(Flight) + 1
      BY <1>15, FS_AddElement
    <3> QED
      BY <1>12, <1>13, <1>15, <3>1
  <2>3. ~(x <= Stored) /\ x > Stored /\ x \in Int
    BY <1>3
  <2>4. Cardinality(Low(Flight', Stored)) = Cardinality(Low(Flight, Stored))
    <3>1. Low(Flight \cup {x}, Stored) = Low(Flight, Stored)
      BY <2>3 DEF Low
    <3> QED
      BY <1>12, <3>1
  <2>5. rt.timeout = 1 => \A k \in Flight' : k > Stored
    BY <1>2, <1>12, <2>3 DEF Counted
  <2> QED
    BY <1>2, <1>7, <1>11, <2>1, <2>2, <2>4, <2>5 DEF Counted, Low
<1>17. Earned'
  <2>1. Done <= sq'
    BY <1>2, <1>3, <1>5 DEF Earned
  <2> QED
    BY <1>2, <1>5, <1>7, <1>11, <1>12, <2>1 DEF Earned
<1>18. ASSUME Waiting
       PROVE  Waiting'
  <2>1. Done + 1 .. x \subseteq At(net'.req)
    <3>1. \A k \in Done + 1 .. x : k = x \/ k \in Done + 1 .. sq
      BY <1>3
    <3> QED
      BY <1>10, <1>18, <3>1 DEF Waiting
  <2>2. ASSUME NEW i \in 1 .. b + 1, NEW j \in 1 .. b + 1, i < j,
               Index(net'.req[i].psn) > Done, Index(net'.req[j].psn) > Done
        PROVE  Index(net'.req[i].psn) < Index(net'.req[j].psn)
    <3>1. i \in 1 .. b
      BY <2>2
    <3>2. CASE j \in 1 .. b
      <4>1. net'.req[i] = net.req[i] /\ net'.req[j] = net.req[j]
        BY <1>10, <3>1, <3>2
      <4> QED
        BY <1>8, <1>18, <2>2, <3>1, <3>2, <4>1 DEF Waiting
    <3>3. CASE j = b + 1
      <4>1. Index(net.req[i].psn) \in At(net.req)
        BY <1>8, <3>1 DEF At
      <4>2. Index(net.req[i].psn) \in 1 .. sq
        BY <1>15, <4>1 DEF Flight
      <4>3. Index(net'.req[j].psn) = x
        BY <1>6, <1>10, <3>3
      <4>4. net'.req[i] = net.req[i]
        BY <1>10, <3>1
      <4> QED
        BY <1>3, <4>2, <4>3, <4>4
    <3> QED
      BY <3>2, <3>3
  <2> QED
    BY <1>5, <1>7, <1>10, <1>11, <1>12, <1>18, <2>1, <2>2 DEF Waiting
<1>19. ASSUME sc.window = 1
       PROVE  Single'
  <2>1. PICK m \in Nat : m = Len(acked)
    BY <1>1, Sizes
  <2>2. sq - m < 1
    BY <1>19, <2>1 DEF LocalRequest
  <2>3. PICK q \in Nat : q = Cardinality(Low(Flight, Stored)) /\ m + q <= Stored
    BY <1>1, <1>2, <2>1, Room
  <2>4. q = 0 /\ Stored = sq /\ x <= m + 1
    BY <1>3, <2>2, <2>3
  <2>5. Low(Flight, Stored) = Flight
    <3>1. \A k \in 1 .. sq : k <= Stored
      BY <1>3, <2>4
    <3> QED
      BY <1>15, <3>1 DEF Low
  <2>6. Flight = {}
    BY <1>15, <2>3, <2>4, <2>5, FS_EmptySet
  <2> QED
    BY <1>5, <1>12, <2>1, <2>4, <2>6 DEF Single
<1> QED
  BY <1>2, <1>5, <1>14, <1>16, <1>17, <1>18, <1>19 DEF Flow, Undropped


LEMMA RxAcceptFlow ==
  ASSUME Steady, RxAccept
  PROVE  Flow'
<1>1. Types /\ Types' /\ Flow
  BY ReceivePlain DEF Steady, Plain, Receive
<1> DEFINE p == rx[1].p
           k == Index(p.psn)
<1>2. UNCHANGED <<sc, sq, nextPsn, net, resp>> /\ rx # <<>> /\ rx' = <<>>
  BY DEF RxAccept
<1>3. Listed /\ Counted /\ Earned /\ (Undropped => Waiting) /\ (sc.window = 1 => Single)
  BY <1>1 DEF Flow
<1>4. rx \in Seq(Loaded) /\ Len(rx) = 1 /\ rx[1] \in Loaded
  <2>1. rx \in Seq(Loaded) /\ Len(rx) <= 1
    BY <1>1 DEF Types
  <2>2. Len(rx) \in Nat \ {0} /\ Head(rx) \in Loaded /\ Head(rx) = rx[1]
    BY <1>2, <2>1, HeadAndTail
  <2> QED
    BY <2>1, <2>2
<1>5. p \in Answer /\ p.op = "ACK" /\ p.psn \in Psns /\ ~p.nak
  <2>1. p \in Answer
    BY <1>4 DEF Loaded
  <2>2. ~p.nak
    BY <1>3, <1>4 DEF Earned
  <2> QED
    BY <2>1, <2>2 DEF Answer
<1>6. /\ exh' = [exh EXCEPT !.fifo = Append(@, p)]
      /\ rt' = [rt EXCEPT !.upd = Append(@, "ACK")] /\ acked' = Append(acked, p.psn)
  BY <1>5 DEF RxAccept, KeepsEntry
<1>7. Checked = {k} /\ Checked' = {}
  <2>1. Checked = {k}
    BY <1>4 DEF Checked
  <2>2. Checked' = {}
    BY <1>2 DEF Checked
  <2> QED
    BY <2>1, <2>2
<1> HIDE DEF p, k
<1>8. /\ rt'.upd = Append(rt.upd, "ACK") /\ rt'.list = rt.list /\ rt'.insert = rt.insert
      /\ rt'.events = rt.events /\ rt'.nak = rt.nak /\ rt'.timeout = rt.timeout
      /\ exh'.fifo = Append(exh.fifo, p)
      /\ rt.upd \in Seq({"ACK"}) /\ exh.fifo \in Seq(Answer) /\ acked \in Seq(Psns)
  BY <1>1, <1>6 DEF Types
<1>9. PICK m \in Nat : m = Len(acked)
  BY <1>8
<1>10. PICK u \in Nat : u = Len(rt.upd)
  BY <1>8
<1>11. Len(acked') = m + 1 /\ Len(rt'.upd) = u + 1 /\ Fine(exh'.fifo)
  <2>1. "ACK" \in {"ACK"}
    OBVIOUS
  <2>2. Len(acked') = m + 1
    BY <1>5, <1>6, <1>8, <1>9, Appended
  <2>3. Len(rt'.upd) = u + 1
    BY <1>8, <1>10, <2>1, Appended
  <2>4. Fine(exh'.fifo)
    BY <1>3, <1>5, <1>8, FineAppend DEF Earned
  <2> QED
    BY <2>2, <2>3, <2>4
<1>12. Released' = Released /\ Stored' = Stored /\ Released = m - u
  <2>1. Released' = (m + 1) - (u + 1) /\ Released = m - u
    BY <1>9, <1>10, <1>11 DEF Released
  <2> QED
    BY <1>2, <1>8, <2>1 DEF Stored
<1>13. Flight = Flight' \cup {k} /\ Answering = Answering' \cup {k}
  BY <1>2, <1>7, <1>8 DEF Flight, Answering
<1>14. PICK a, b, c, d, e, f, g \in Nat :
        /\ a = Len(rt.events) /\ b = Len(net.req) /\ c = Len(resp.fifo)
        /\ d = Len(resp.exhEvents) /\ e = Len(resp.ibhEvents)
        /\ f = Len(net.rsp) /\ g = Len(rx)
  BY <1>1, Parts
<1>15. Load' = Load - 1
  <2>1. Load = a + b + c + d + e + f + 1
    BY <1>4, <1>14 DEF Load
  <2>2. Load' = a + b + c + d + e + f + 0
    <3>1. Len(rx') = 0
      BY <1>2
    <3> QED
      BY <1>2, <1>8, <1>14, <3>1 DEF Load
  <2> QED
    BY <2>1, <2>2
<1>16. /\ k \in 1 .. sq /\ k \notin Flight' /\ Cardinality(Flight') = Load'
       /\ \A n \in Int : Cardinality(Low(Flight, n)) =
              Cardinality(Low(Flight', n)) + IF k <= n THEN 1 ELSE 0
  BY <1>1, <1>3, <1>13, <1>15, Leaves
<1>17. k \in 1 .. Stored /\ k \in 1 .. Done
  BY <1>3, <1>7 DEF Earned, Answering
<1>18. Stored \in Nat /\ Stored <= sq /\ sq \in Nat /\ Done \in Nat
  BY <1>1, <1>3, Sizes, Room, DoneNat DEF Steady
<1>19. PICK q \in Nat : q = Cardinality(Low(Flight', Stored))
                       /\ Cardinality(Low(Flight, Stored)) = q + 1
  <2>1. IsFiniteSet(Flight')
    <3>1. IsFiniteSet(Flight)
      BY <1>1, FlightBound
    <3>2. Flight' \in SUBSET Flight
      BY <1>13
    <3> QED
      BY <3>1, <3>2, FS_Subset
  <2>2. Cardinality(Low(Flight', Stored)) \in Nat
    BY <1>18, <2>1, LowIs
  <2>3. k <= Stored /\ Stored \in Int
    BY <1>17, <1>18
  <2>4. Cardinality(Low(Flight, Stored)) =
            Cardinality(Low(Flight', Stored)) + IF k <= Stored THEN 1 ELSE 0
    BY <1>16, <2>3, Zenon
  <2>5. Cardinality(Low(Flight, Stored)) = Cardinality(Low(Flight', Stored)) + 1
    BY <2>3, <2>4
  <2> QED
    BY <2>2, <2>5
<1>20. m + (q + 1) <= Stored /\ m <= Done /\ Done <= sq
  BY <1>1, <1>3, <1>9, <1>19, Room DEF Earned
<1>21. Listed'
  <2>1. \A j : Entry(j)' = Entry(j)
    BY <1>2, SameProgram
  <2> QED
    BY <1>3, <1>8, <1>12, <2>1 DEF Listed
<1>22. Counted'
  <2>1. Flight' \subseteq Flight
    BY <1>13
  <2>2. q + Len(rt'.upd) <= Len(rt.list)
    <3>1. PICK l \in Nat : l = Len(rt.list)
      BY <1>1, Sizes
    <3>2. (q + 1) + u <= l
      BY <1>3, <1>10, <1>19, <3>1 DEF Counted
    <3> QED
      BY <1>11, <3>1, <3>2
  <2>3. (rt.timeout = 1 => \A j \in Flight' : j > Stored) /\ Flight' \subseteq 1 .. sq
    BY <1>3, <2>1 DEF Counted
  <2> QED
    BY <1>2, <1>3, <1>8, <1>12, <1>16, <1>19, <2>2, <2>3 DEF Counted, Low
<1>23. Done' = Done
  BY <1>2 DEF Done
<1>24. m + 1 <= Done
  <2>1. CASE sc.window = 1
    <3>1. k = sq
      BY <1>3, <1>13, <2>1 DEF Single
    <3> QED
      BY <1>17, <1>18, <1>19, <1>20, <3>1
  <2>2. CASE Undropped
    <3>1. ASSUME Done < Stored
          PROVE  Stored - Done <= q
      <4>1. Done + 1 .. Stored \subseteq Low(Flight', Stored)
        <5>1. \A j \in Done + 1 .. Stored : j \in Done + 1 .. sq /\ j <= Stored /\ j # k
          BY <1>17, <1>18
        <5>2. Done + 1 .. sq \subseteq Flight
          BY <1>3, <2>2 DEF Waiting, Flight
        <5> QED
          BY <1>13, <5>1, <5>2 DEF Low
      <4>2. IsFiniteSet(Low(Flight', Stored))
        <5>1. Low(Flight', Stored) \in SUBSET Flight
          BY <1>13 DEF Low
        <5> QED
          BY <1>1, <5>1, FlightBound, FS_Subset
      <4>3. Cardinality(Done + 1 .. Stored) <= Cardinality(Low(Flight', Stored))
        BY <4>1, <4>2, FS_Subset
      <4>4. Cardinality(Done + 1 .. Stored) = Stored - Done
        <5>1. Done + 1 \in Int /\ Stored \in Int /\ ~(Done + 1 > Stored)
              /\ Stored - (Done + 1) + 1 = Stored - Done
          BY <1>18, <3>1
        <5>2. Cardinality(Done + 1 .. Stored) = Stored - (Done + 1) + 1
          BY <5>1, FS_Interval
        <5> QED
          BY <5>1, <5>2
      <4> QED
        BY <1>19, <4>3, <4>4
    <3> QED
      BY <1>18, <1>19, <1>20, <3>1
  <2> QED
    BY <2>1, <2>2 DEF Steady, Gapless, Undropped
<1>25. Earned'
  <2>1. Answering' \subseteq 1 .. Done /\ Checked' \subseteq 1 .. Stored
    BY <1>3, <1>7, <1>13 DEF Earned
  <2>2. \A i \in 1 .. Len(rx') : ~rx'[i].p.nak
    BY <1>2
  <2> QED
    BY <1>2, <1>3, <1>8, <1>11, <1>12, <1>23, <1>24, <2>1, <2>2 DEF Earned
<1>26. ASSUME Waiting
       PROVE  Waiting'
  BY <1>2, <1>8, <1>12, <1>23, <1>26 DEF Waiting
<1>27. ASSUME Single
       PROVE  Single'
  <2>1. sq <= (m + 1) + 1
    BY <1>9, <1>18, <1>27 DEF Single
  <2> QED
    BY <1>2, <1>11, <1>13, <1>27, <2>1 DEF Single
<1> QED
  BY <1>2, <1>3, <1>21, <1>22, <1>25, <1>26, <1>27 DEF Flow, Undropped


LEMMA RetransUpdateFlow ==
  ASSUME Steady, RetransUpdate
  PROVE  Flow'
<1>1. Types /\ Types' /\ Flow
  BY RetransmitterPlain DEF Steady, Plain, Retransmitter
<1>2. UNCHANGED <<sc, sq, nextPsn, acked, unack, timer, rx, exh, net, resp>> /\ rt.upd # <<>>
  BY DEF RetransUpdate, tx
<1>3. Listed /\ Counted /\ Earned /\ (Undropped => Waiting) /\ (sc.window = 1 => Single)
  BY <1>1 DEF Flow
<1>4. rt.upd \in Seq({"ACK"}) /\ rt.list \in Seq(Entries)
  BY <1>1 DEF Types
<1>5. PICK u \in Nat \ {0} : u = Len(rt.upd)
  BY <1>2, <1>4, HeadAndTail
<1>6. PICK l \in Nat : l = Len(rt.list)
  BY <1>4
<1>7. PICK m \in Nat : m = Len(acked)
  BY <1>1, Sizes
<1>8. PICK c \in Nat : c = Cardinality(Low(Flight, Stored)) /\ c + u <= l
  BY <1>1, <1>3, <1>5, <1>6, Room DEF Counted
<1>9. l # 0 /\ rt.list # <<>>
  <2>1. l # 0
    BY <1>8
  <2> QED
    BY <1>6, <2>1
<1>10. Head(rt.upd) = "ACK" /\ Len(Tail(rt.upd)) = u - 1
  BY <1>2, <1>4, <1>5, HeadAndTail
<1>11. Len(Tail(rt.list)) = l - 1 /\ \A j \in 1 .. l - 1 : Tail(rt.list)[j] = rt.list[j + 1]
  BY <1>4, <1>6, <1>9, HeadAndTail
<1>12. Answered(rt.list, "ACK") = Tail(rt.list)
  BY <1>9 DEF Answered, KeepsEntry
<1>13. rt' = [rt EXCEPT !.upd = Tail(rt.upd), !.list = Tail(rt.list), !.init = rt.init]
  BY <1>1, <1>10, <1>12 DEF RetransUpdate, ForwardsAddress, Types
<1>14. /\ rt'.upd = Tail(rt.upd) /\ rt'.list = Tail(rt.list) /\ rt'.insert = rt.insert
       /\ rt'.events = rt.events /\ rt'.nak = rt.nak /\ rt'.timeout = rt.timeout
  BY <1>1, <1>13 DEF Types
<1>15. /\ Released = m - u /\ Released' = Released + 1 /\ Stored' = Stored /\ Stored \in Nat
       /\ Released >= 0 /\ Released + l = Stored
  <2>1. Released = m - u
    BY <1>5, <1>7 DEF Released
  <2>2. Released' = m - (u - 1)
    BY <1>2, <1>7, <1>10, <1>14 DEF Released
  <2>3. Stored' = Stored
    BY <1>2, <1>14 DEF Stored
  <2>4. Released >= 0 /\ Released + l = Stored
    BY <1>3, <1>6 DEF Listed
  <2>5. Released' = Released + 1 /\ Stored \in Nat
    BY <2>1, <2>2, <2>4
  <2> QED
    BY <2>1, <2>3, <2>4, <2>5
<1>16. Flight' = Flight /\ Load' = Load /\ Answering' = Answering /\ Checked' = Checked
       /\ Done' = Done
  BY <1>2, <1>14 DEF Flight, Answering, Checked, Load, Done
<1>17. Listed'
  <2>1. ASSUME NEW j \in 1 .. l - 1
        PROVE  Tail(rt.list)[j] = Entry((Released + 1) + j)
    <3>1. j + 1 \in 1 .. l /\ Released + (j + 1) = (Released + 1) + j
      BY <1>15
    <3>2. rt.list[j + 1] = Entry(Released + (j + 1))
      BY <1>3, <1>6, <3>1 DEF Listed
    <3> QED
      BY <1>11, <3>1, <3>2
  <2>2. \A j : Entry(j)' = Entry(j)
    BY <1>2, SameProgram
  <2>3. (Released + 1) + (l - 1) = Stored /\ Released + 1 >= 0
    BY <1>15
  <2> QED
    BY <1>3, <1>11, <1>14, <1>15, <2>1, <2>2, <2>3 DEF Listed
<1>18. Counted'
  <2>1. c + (u - 1) <= l - 1
    BY <1>8
  <2> QED
    BY <1>2, <1>3, <1>8, <1>10, <1>11, <1>14, <1>15, <1>16, <2>1 DEF Counted, Low
<1>19. Earned'
  BY <1>2, <1>3, <1>14, <1>15, <1>16 DEF Earned
<1>20. ASSUME Waiting
       PROVE  Waiting'
  BY <1>2, <1>14, <1>15, <1>16, <1>20 DEF Waiting
<1>21. ASSUME Single
       PROVE  Single'
  BY <1>2, <1>16, <1>21 DEF Single
<1> QED
  BY <1>2, <1>3, <1>17, <1>18, <1>19, <1>20, <1>21 DEF Flow, Undropped

LEMMA RetransInsertFlow ==
  ASSUME Steady, RetransInsert
  PROVE  Flow'
<1>1. Types /\ Types' /\ Flow
  BY RetransmitterPlain DEF Steady, Plain, Retransmitter
<1>2. UNCHANGED <<sc, sq, nextPsn, acked, unack, timer, rx, exh, net, resp>>
      /\ rt.insert # <<>> /\ rt.timeout = 0
      /\ rt' = [rt EXCEPT !.insert = Tail(@), !.list = Append(@, Head(rt.insert))]
  BY DEF RetransInsert, tx
<1>3. Listed /\ Counted /\ Earned /\ (Undropped => Waiting) /\ (sc.window = 1 => Single)
  BY <1>1 DEF Flow
<1>4. rt.insert \in Seq(Entries) /\ rt.list \in Seq(Entries)
  BY <1>1 DEF Types
<1>5. PICK n \in Nat \ {0} : n = Len(rt.insert)
  BY <1>2, <1>4, HeadAndTail
<1>6. PICK l \in Nat : l = Len(rt.list)
  BY <1>4
<1>7. PICK u \in Nat : u = Len(rt.upd)
  BY <1>1, Sizes
<1>8. PICK c \in Nat : c = Cardinality(Low(Flight, Stored)) /\ c + u <= l
  BY <1>1, <1>3, <1>6, <1>7, Room DEF Counted
<1> DEFINE e == Head(rt.insert)
<1>9. /\ e \in Entries /\ e = rt.insert[1] /\ Len(Tail(rt.insert)) = n - 1
      /\ \A j \in 1 .. n - 1 : Tail(rt.insert)[j] = rt.insert[j + 1]
  BY <1>2, <1>4, <1>5, HeadAndTail
<1> HIDE DEF e
<1>10. /\ Len(Append(rt.list, e)) = l + 1 /\ Append(rt.list, e)[l + 1] = e
       /\ \A j \in 1 .. l : Append(rt.list, e)[j] = rt.list[j]
  BY <1>4, <1>6, <1>9, Appended
<1>11. /\ rt'.upd = rt.upd /\ rt'.list = Append(rt.list, e) /\ rt'.insert = Tail(rt.insert)
       /\ rt'.events = rt.events /\ rt'.nak = rt.nak /\ rt'.timeout = 0
  BY <1>1, <1>2 DEF Types, e
<1>12. /\ Released' = Released /\ Stored' = Stored + 1 /\ Stored \in Nat
       /\ Released \in Int /\ Released + l = Stored
  <2>1. Stored = sq - n /\ Stored' = sq - (n - 1)
    BY <1>2, <1>5, <1>9, <1>11 DEF Stored
  <2>2. Released' = Released
    BY <1>2, <1>11 DEF Released
  <2>3. sq \in Nat /\ Stored \in Nat /\ Released \in Int
    BY <1>1, <1>3, Sizes, Room
  <2>4. Stored' = Stored + 1
    BY <2>1, <2>3
  <2>5. Released + l = Stored
    BY <1>3, <1>6 DEF Listed
  <2> QED
    BY <2>2, <2>3, <2>4, <2>5
<1>13. Flight' = Flight /\ Load' = Load /\ Answering' = Answering /\ Checked' = Checked
       /\ Done' = Done
  BY <1>2, <1>11 DEF Flight, Answering, Checked, Load, Done
<1>14. Listed'
  <2>1. ASSUME NEW j \in 1 .. l + 1
        PROVE  Append(rt.list, e)[j] = Entry(Released + j)
    <3>1. CASE j \in 1 .. l
      BY <1>3, <1>6, <1>10, <3>1 DEF Listed
    <3>2. CASE j = l + 1
      <4>1. Released + j = Stored + 1 /\ 1 \in 1 .. n
        BY <1>12, <3>2
      <4>2. rt.insert[1] = Entry(Stored + 1)
        BY <1>3, <1>5, <4>1 DEF Listed
      <4> QED
        BY <1>9, <1>10, <3>2, <4>1, <4>2
    <3>3. j \in 1 .. l \/ j = l + 1
      OBVIOUS
    <3> QED
      BY <3>1, <3>2, <3>3
  <2>2. ASSUME NEW j \in 1 .. n - 1
        PROVE  Tail(rt.insert)[j] = Entry((Stored + 1) + j)
    <3>1. j + 1 \in 1 .. n /\ Stored + (j + 1) = (Stored + 1) + j
      BY <1>12
    <3>2. rt.insert[j + 1] = Entry(Stored + (j + 1))
      BY <1>3, <1>5, <3>1 DEF Listed
    <3> QED
      BY <1>9, <3>1, <3>2
  <2>3. \A j : Entry(j)' = Entry(j)
    BY <1>2, SameProgram
  <2>4. Released + (l + 1) = Stored + 1
    BY <1>12
  <2> QED
    BY <1>3, <1>9, <1>10, <1>11, <1>12, <2>1, <2>2, <2>3, <2>4 DEF Listed
<1>15. PICK q \in Nat : q = Cardinality(Low(Flight, Stored + 1)) /\ q <= c + 1
  <2>1. IsFiniteSet(Flight) /\ Stored + 1 \in Int /\ Stored \in Int /\ Flight \subseteq 1 .. sq
    BY <1>1, <1>3, <1>12, FlightBound DEF Counted
  <2>2. IsFiniteSet(Low(Flight, Stored)) /\ Cardinality(Low(Flight, Stored + 1)) \in Nat
    BY <2>1, LowIs
  <2>3. IsFiniteSet(Low(Flight, Stored) \cup {Stored + 1})
        /\ Cardinality(Low(Flight, Stored) \cup {Stored + 1}) =
             IF Stored + 1 \in Low(Flight, Stored) THEN c ELSE c + 1
    BY <1>8, <2>2, FS_AddElement
  <2>4. Low(Flight, Stored + 1) \in SUBSET (Low(Flight, Stored) \cup {Stored + 1})
    <3>1. \A k \in 1 .. sq : k <= Stored + 1 => k <= Stored \/ k = Stored + 1
      BY <1>12
    <3> QED
      BY <2>1, <3>1 DEF Low
  <2>5. Cardinality(Low(Flight, Stored + 1))
          <= Cardinality(Low(Flight, Stored) \cup {Stored + 1})
    BY <2>3, <2>4, FS_Subset
  <2> QED
    BY <2>2, <2>3, <2>5
<1>16. Counted'
  <2>1. q + u <= l + 1
    BY <1>8, <1>15
  <2> QED
    BY SMTT(40), <1>2, <1>3, <1>7, <1>10, <1>11, <1>12, <1>13, <1>15, <2>1 DEF Counted, Low
<1>17. Earned'
  <2>1. Checked \subseteq 1 .. Stored + 1
    BY <1>3, <1>12 DEF Earned
  <2> QED
    BY <1>2, <1>3, <1>11, <1>12, <1>13, <2>1 DEF Earned
<1>18. ASSUME Waiting
       PROVE  Waiting'
  BY <1>2, <1>11, <1>13, <1>18 DEF Waiting
<1>19. ASSUME Single
       PROVE  Single'
  BY <1>2, <1>13, <1>19 DEF Single
<1> QED
  BY <1>2, <1>3, <1>14, <1>16, <1>17, <1>18, <1>19 DEF Flow, Undropped


LEMMA RetransTimeoutFlow ==
  ASSUME Steady, RetransTimeout
  PROVE  Flow'
<1>1. Types /\ Types' /\ Flow
  BY RetransmitterPlain DEF Steady, Plain, Retransmitter
<1>2. UNCHANGED <<sc, sq, nextPsn, acked, unack, timer, rx, exh, net, resp>>
      /\ rt.upd = <<>> /\ rt.timeout > 0
      /\ rt' = [rt EXCEPT !.timeout = @ - 1, !.events = @ \o rt.list]
  BY DEF RetransTimeout, tx
<1>3. Listed /\ Counted /\ Earned /\ (Undropped => Waiting) /\ (sc.window = 1 => Single)
  BY <1>1 DEF Flow
<1>4. rt.timeout = 1
  BY <1>2, <1>3 DEF Counted
<1>5. rt.events \in Seq(Entries) /\ rt.list \in Seq(Entries)
  BY <1>1 DEF Types
<1>6. PICK l \in Nat : l = Len(rt.list)
  BY <1>5
<1>7. PICK m \in Nat : m = Len(acked)
  BY <1>1, Sizes
<1>8. /\ rt'.upd = rt.upd /\ rt'.list = rt.list /\ rt'.insert = rt.insert
      /\ rt'.events = rt.events \o rt.list /\ rt'.nak = rt.nak /\ rt'.timeout = 0
  <2>1. rt.timeout - 1 = 0
    BY <1>4
  <2>2. rt' = [rt EXCEPT !.timeout = 0, !.events = rt.events \o rt.list]
    BY <1>1, <1>2, <2>1 DEF Types
  <2> QED
    BY <1>1, <2>2 DEF Types
<1>9. /\ Released' = Released /\ Stored' = Stored /\ Released = m /\ Released + l = Stored
      /\ Stored \in Nat /\ Stored <= sq /\ sq \in Nat /\ Count \in Nat /\ sq <= Count
      /\ Count < PsnMod /\ PsnMod \in Nat /\ Done \in Nat
  <2>1. Released' = Released /\ Stored' = Stored
    BY <1>2, <1>8 DEF Released, Stored
  <2>2. Released = m
    <3>1. Len(rt.upd) = 0
      BY <1>2
    <3> QED
      BY <1>7, <3>1 DEF Released
  <2>3. Released + l = Stored
    BY <1>3, <1>6 DEF Listed
  <2> QED
    BY <1>1, <1>3, <2>1, <2>2, <2>3, Sizes, Room, DoneNat DEF Steady
<1> DEFINE N == Released + 1 .. Stored
<1>10. At(rt.list) = N
  <2>1. ASSUME NEW j \in 1 .. l
        PROVE  Index(rt.list[j].psn) = Released + j
    <3>1. Released + j \in 1 .. Count /\ Released + j \in 1 .. PsnMod
      BY <1>9
    <3>2. rt.list[j] = Entry(Released + j)
      BY <1>3, <1>6 DEF Listed
    <3>3. rt.list[j].psn = Psn(Released + j)
      BY <1>1, <3>1, <3>2, EntryIs DEF Types
    <3> QED
      BY <3>1, <3>3, IndexIs
  <2>2. At(rt.list) = {Index(rt.list[j].psn) : j \in 1 .. l}
    BY <1>6 DEF At
  <2>3. \A j \in 1 .. l : Released + j \in N
    BY <1>9
  <2>4. \A k \in N : k - Released \in 1 .. l /\ Released + (k - Released) = k
    BY <1>9
  <2> HIDE DEF N
  <2>5. At(rt.list) \subseteq N
    BY <2>1, <2>2, <2>3
  <2>6. ASSUME NEW k \in N
        PROVE  k \in At(rt.list)
    <3>1. PICK j \in 1 .. l : Released + j = k
      BY <2>4
    <3> QED
      BY <2>1, <2>2, <3>1
  <2> QED
    BY <2>5, <2>6
<1>11. IsFiniteSet(N) /\ Cardinality(N) = l
  <2>1. Released + 1 \in Int /\ Stored \in Int
        /\ l = IF Released + 1 > Stored THEN 0 ELSE Stored - (Released + 1) + 1
    BY <1>9
  <2>2. IsFiniteSet(N)
        /\ Cardinality(N) = IF Released + 1 > Stored THEN 0 ELSE Stored - (Released + 1) + 1
    BY <2>1, FS_Interval
  <2> QED
    BY <2>1, <2>2
<1>12. At(rt'.events) = At(rt.events) \cup N
  <2>1. At(rt.events \o rt.list) = At(rt.events) \cup At(rt.list)
    BY <1>5, AtConcat
  <2> HIDE DEF N
  <2> QED
    BY <1>8, <1>10, <2>1
<1>13. \A k \in N : k \in 1 .. sq /\ k <= Stored
  BY <1>9
<1>14. Flight \subseteq 1 .. sq /\ (\A k \in Flight : k > Stored) /\ Cardinality(Flight) = Load
       /\ IsFiniteSet(Flight) /\ Load \in Nat
  BY <1>1, <1>3, <1>4, FlightBound DEF Counted
<1>15. Flight \cap N = {}
  <2>1. \A k \in 1 .. sq : ~(k > Stored /\ k <= Stored)
    BY <1>9
  <2> HIDE DEF N
  <2> QED
    BY <1>13, <1>14, <2>1
<1> HIDE DEF N
<1>16. Flight' = Flight \cup N /\ Answering' = Answering /\ Checked' = Checked /\ Done' = Done
  BY <1>2, <1>8, <1>12 DEF Flight, Answering, Checked, Done
<1>17. Load' = Load + l
  <2>1. PICK a, b, c, d, e, f, g \in Nat :
        /\ a = Len(rt.events) /\ b = Len(net.req) /\ c = Len(resp.fifo)
        /\ d = Len(resp.exhEvents) /\ e = Len(resp.ibhEvents)
        /\ f = Len(net.rsp) /\ g = Len(rx)
    BY <1>1, Parts
  <2>2. Len(rt'.events) = a + l
    BY <1>5, <1>6, <1>8, <2>1, Concatenated
  <2>3. Load = a + b + c + d + e + f + g
    BY <2>1 DEF Load
  <2>4. Load' = (a + l) + b + c + d + e + f + g
    BY <1>2, <2>1, <2>2 DEF Load
  <2> QED
    BY <2>3, <2>4
<1>18. Listed'
  <2>1. \A j : Entry(j)' = Entry(j)
    BY <1>2, SameProgram
  <2> QED
    BY <1>3, <1>8, <1>9, <2>1 DEF Listed
<1>19. Counted'
  <2>1. Cardinality(Flight') = Load'
    <3>1. Cardinality(Flight \cup N) = Cardinality(Flight) + Cardinality(N) - Cardinality(Flight \cap N)
      BY <1>11, <1>14, FS_Union
    <3>2. Cardinality(Flight \cap N) = 0
      BY <1>15, FS_EmptySet
    <3> QED
      BY <1>11, <1>14, <1>16, <1>17, <3>1, <3>2
  <2>2. Low(Flight', Stored) = N
    <3>1. \A k \in 1 .. sq : ~(k > Stored /\ k <= Stored)
      BY <1>9
    <3>2. \A k \in Flight : ~(k <= Stored)
      BY <1>14, <3>1
    <3> QED
      BY <1>13, <1>16, <3>2 DEF Low
  <2>3. Cardinality(Low(Flight', Stored)) + Len(rt.upd) <= Len(rt.list)
    <3>1. Len(rt.upd) = 0
      BY <1>2
    <3> QED
      BY <1>6, <1>11, <2>2, <3>1
  <2>4. Flight' \subseteq 1 .. sq
    BY <1>13, <1>14, <1>16
  <2> QED
    BY <1>2, <1>8, <1>9, <2>1, <2>3, <2>4 DEF Counted, Low
<1>20. Earned'
  BY <1>2, <1>3, <1>8, <1>9, <1>16 DEF Earned
<1>21. ASSUME Waiting
       PROVE  Waiting'
  <2>1. Stored <= Done /\ At(rt.events) \subseteq 1 .. Done
    BY <1>4, <1>21 DEF Waiting
  <2>2. N \subseteq 1 .. Done
    BY <1>9, <2>1 DEF N
  <2>3. At(rt'.events) \subseteq 1 .. Done
    BY <1>12, <2>1, <2>2
  <2> QED
    BY <1>2, <1>8, <1>16, <1>21, <2>3 DEF Waiting
<1>22. ASSUME Single
       PROVE  Single'
  <2>1. Flight \subseteq {sq} /\ sq <= m + 1
    BY <1>7, <1>22 DEF Single
  <2>2. N \subseteq {sq}
    BY <1>9, <2>1 DEF N
  <2> QED
    BY <1>2, <1>7, <1>16, <2>1, <2>2 DEF Single
<1> QED
  BY <1>2, <1>3, <1>18, <1>19, <1>20, <1>21, <1>22 DEF Flow, Undropped

(* Nothing was refused. *)
LEMMA NoNak ==
  ASSUME Flow
  PROVE  ~RetransNak
  BY DEF Flow, Earned, RetransNak


LEMMA InitFlow ==
  ASSUME Init, ReadFree, Gapless
  PROVE  Steady
<1>1. Plain
  BY InitPlain
<1>2. Types /\ Served
  BY <1>1 DEF Plain
<1>3. /\ sq = 0 /\ acked = <<>> /\ rx = <<>> /\ rt.list = <<>> /\ rt.insert = <<>> /\ rt.upd = <<>>
      /\ rt.nak = <<>> /\ rt.timeout = 0 /\ rt.events = <<>> /\ exh.fifo = <<>>
      /\ net.req = <<>> /\ net.rsp = <<>> /\ resp.fifo = <<>> /\ resp.mem = <<>>
      /\ resp.exhEvents = <<>> /\ resp.ibhEvents = <<>>
  BY DEF Init
<1>4. Len(<<>>) = 0
  OBVIOUS
<1>5. Done = 0
  BY <1>2, <1>3, <1>4 DEF Served
<1>6. Flight = {} /\ Answering = {} /\ Checked = {} /\ Load = 0
  <2>1. Checked = {}
    BY <1>3, CheckedIs
  <2>2. Flight = {} /\ Answering = {}
    BY <1>3, <2>1, AtEmpty DEF Flight, Answering
  <2>3. Load = 0
    BY <1>3, <1>4 DEF Load
  <2> QED
    BY <2>1, <2>2, <2>3
<1>7. Released = 0 /\ Stored = 0
  <2>1. Len(acked) = 0 /\ Len(rt.upd) = 0 /\ Len(rt.insert) = 0
    BY <1>3, <1>4
  <2>2. Released = 0 - 0 /\ Stored = 0 - 0
    BY <1>3, <2>1 DEF Released, Stored
  <2>3. 0 - 0 = 0
    OBVIOUS
  <2> QED
    BY <2>2, <2>3
<1>8. Listed
  <2>1. 0 >= 0 /\ 0 + 0 = 0 /\ 1 .. 0 = {}
    OBVIOUS
  <2> QED
    BY <1>3, <1>4, <1>7, <2>1 DEF Listed
<1>9. Counted
  <2>1. Low(Flight, Stored) = {}
    BY <1>6 DEF Low
  <2> QED
    BY <1>3, <1>4, <1>6, <2>1, FS_EmptySet DEF Counted
<1>10. Earned
  BY <1>3, <1>4, <1>5, <1>6 DEF Earned, Fine
<1>11. Waiting
  <2>1. Done + 1 .. sq = {}
    BY <1>3, <1>5
  <2> QED
    BY <1>3, <1>4, <2>1, AtEmpty DEF Waiting
<1>12. Single
  BY <1>3, <1>4, <1>6 DEF Single
<1> QED
  BY <1>1, <1>8, <1>9, <1>10, <1>11, <1>12 DEF Steady, Flow

LEMMA NextFlow ==
  ASSUME Steady, [Next]_vars
  PROVE  Steady'
<1>1. Plain /\ Types /\ Flow /\ Gapless
  BY DEF Steady, Plain
<1>2. Plain'
  BY <1>1, NextPlain
<1>3. Types' /\ Gapless'
  BY <1>1, <1>2, Fixed DEF Plain, Gapless
<1>4. Flow'
  <2>1. CASE Send
    BY <2>1, LocalRequestFlow, LocalRetransmitFlow DEF Send
  <2>2. CASE Timer
    BY <2>2, TimerFlow
  <2>3. CASE Retransmitter
    BY <1>1, <2>3, RetransUpdateFlow, RetransTimeoutFlow, RetransInsertFlow, NoNak
       DEF Retransmitter
  <2>4. CASE Receive
    BY <1>1, <2>4, RxLoadFlow, RxAcceptFlow, RxExhFlow, NoDrop DEF Receive
  <2>5. CASE Responder
    BY <1>1, <2>5, RespIbhFlow, RespExhFlow, SendAckFlow, NoReads DEF Responder
  <2>6. CASE Lose
    BY <2>6, LoseFlow
  <2>7. CASE UNCHANGED vars
    BY <1>1, <1>3, <2>7, SameFlow DEF vars
  <2> QED
    BY <2>1, <2>2, <2>3, <2>4, <2>5, <2>6, <2>7 DEF Next
<1> QED
  BY <1>2, <1>3, <1>4 DEF Steady

(* A request that was executed is one of the first Done. *)
LEMMA ExecutedIs ==
  ASSUME Steady, NEW i \in 1 .. sq
  PROVE  /\ Executed(i) <=> i <= Done
         /\ Inc(FirstPsn, Offset(i)) = Psn(i) /\ i \in 1 .. Count
<1>1. sq \in Nat /\ Count \in Nat /\ sq <= Count /\ Done \in Nat /\ sc \in Scenarios /\ ReadFree
  BY Sizes, DoneNat DEF Steady, Plain, Types
<1>2. i \in 1 .. Count
  BY <1>1
<1>3. Offset(i) = i - 1
  BY <1>1, <1>2, Program
<1>4. Executed(i) <=> i - 1 < Done
  BY <1>3 DEF Executed, Done
<1>5. Inc(FirstPsn, Offset(i)) = Psn(i)
  BY <1>3 DEF Psn
<1> QED
  BY <1>1, <1>2, <1>4, <1>5

LEMMA FlowEarns ==
  ASSUME Steady
  PROVE  CompletionsEarned
<1>1. Types /\ Earned
  BY DEF Steady, Plain, Flow
<1>2. sq \in Nat /\ Done \in Nat /\ Done <= sq /\ Len(acked) <= Done
  BY <1>1, Sizes, DoneNat DEF Steady, Earned
<1>3. {i \in 1 .. sq : Executed(i)} = 1 .. Done
  <2>1. \A i \in 1 .. sq : Executed(i) <=> i <= Done
    BY ExecutedIs
  <2>2. \A i \in 1 .. Done : i \in 1 .. sq /\ i <= Done
    BY <1>2
  <2>3. \A i \in 1 .. sq : i <= Done => i \in 1 .. Done
    BY <1>2
  <2> QED
    BY <2>1, <2>2, <2>3
<1>4. Cardinality(1 .. Done) = Done
  <2>1. 1 \in Int /\ Done \in Int
    BY <1>2
  <2>2. Cardinality(1 .. Done) = IF 1 > Done THEN 0 ELSE Done - 1 + 1
    BY <2>1, FS_Interval
  <2> QED
    BY <1>2, <2>2
<1> QED
  BY <1>2, <1>3, <1>4 DEF CompletionsEarned

LEMMA FlowKeeps ==
  ASSUME Steady
  PROVE  NothingForgotten
<1>1. Types /\ Listed /\ Counted /\ Earned
  BY DEF Steady, Plain, Flow
<1> SUFFICES ASSUME NEW i \in 1 .. sq, ~Executed(i)
             PROVE  \E e \in ToSet(rt.list \o rt.insert) : e.psn = Inc(FirstPsn, Offset(i))
  BY DEF NothingForgotten
<1>2. ~(i <= Done) /\ Inc(FirstPsn, Offset(i)) = Psn(i) /\ i \in 1 .. Count
  BY ExecutedIs
<1>3. sq \in Nat /\ Done \in Nat /\ Stored \in Nat /\ Released \in Int
  BY <1>1, Sizes, DoneNat, Room DEF Steady
<1>4. PICK l \in Nat : l = Len(rt.list)
  BY <1>1, Sizes
<1>5. PICK n \in Nat : n = Len(rt.insert)
  BY <1>1, Sizes
<1>6. PICK m \in Nat : m = Len(acked)
  BY <1>1, Sizes
<1>7. PICK u \in Nat : u = Len(rt.upd)
  BY <1>1, Sizes
<1>8. Released = m - u /\ Released + l = Stored /\ Stored = sq - n /\ m <= Done
  BY <1>1, <1>4, <1>5, <1>6, <1>7 DEF Listed, Released, Stored, Earned
<1> DEFINE s == rt.list \o rt.insert
<1>9. rt.list \in Seq(Entries) /\ rt.insert \in Seq(Entries)
  BY <1>1 DEF Types
<1>10. /\ s \in Seq(Entries) /\ Len(s) = l + n
       /\ \A j \in 1 .. l : s[j] = rt.list[j]
       /\ \A j \in l + 1 .. l + n : s[j] = rt.insert[j - l]
  <2>1. PICK a \in Seq(Entries) : a = rt.list
    BY <1>9
  <2>2. PICK b \in Seq(Entries) : b = rt.insert
    BY <1>9
  <2>3. s = a \o b /\ l = Len(a) /\ n = Len(b)
    BY <1>4, <1>5, <2>1, <2>2
  <2>4. /\ a \o b \in Seq(Entries) /\ Len(a \o b) = Len(a) + Len(b)
        /\ \A j \in 1 .. Len(a) : (a \o b)[j] = a[j]
        /\ \A j \in Len(a) + 1 .. Len(a) + Len(b) : (a \o b)[j] = b[j - Len(a)]
    BY Concatenated
  <2> HIDE DEF s
  <2> QED
    BY <2>1, <2>2, <2>3, <2>4
<1> HIDE DEF s
<1> DEFINE j == i - Released
<1>11. j \in 1 .. l + n /\ Released + j = i
  BY <1>2, <1>3, <1>8
<1>12. s[j] = Entry(i)
  <2>1. CASE j \in 1 .. l
    <3> HIDE DEF j
    <3>1. rt.list[j] = Entry(Released + j)
      BY <1>1, <1>4, <2>1 DEF Listed
    <3> QED
      BY <1>10, <1>11, <2>1, <3>1
  <2>2. CASE j \in l + 1 .. l + n
    <3>1. j - l \in 1 .. n /\ Stored + (j - l) = i
      BY <1>3, <1>8, <2>2
    <3> HIDE DEF j
    <3>2. rt.insert[j - l] = Entry(Stored + (j - l))
      BY <1>1, <1>5, <3>1 DEF Listed
    <3> QED
      BY <1>10, <2>2, <3>1, <3>2
  <2> HIDE DEF j
  <2> QED
    BY <1>11, <2>1, <2>2
<1> HIDE DEF j
<1>13. s[j] \in ToSet(s)
  BY <1>10, <1>11 DEF ToSet
<1>14. s[j].psn = Psn(i)
  BY <1>1, <1>2, <1>12, EntryIs DEF Types
<1> QED
  BY <1>2, <1>13, <1>14 DEF s


-----------------------------------------------------------------------------
LEMMA SteadyHolds == Spec => [](ReadFree /\ Gapless => Steady)
<1>1. Init => (ReadFree /\ Gapless => Steady)
  BY InitFlow
<1>2. (ReadFree /\ Gapless => Steady) /\ [Next]_vars => (ReadFree /\ Gapless => Steady)'
  <2> SUFFICES ASSUME ReadFree /\ Gapless => Steady, [Next]_vars, ReadFree', Gapless'
               PROVE  Steady'
    OBVIOUS
  <2>1. ReadFree /\ Gapless
    BY Fixed DEF ReadFree, Gapless
  <2> QED
    BY <2>1, NextFlow
<1> QED
  BY <1>1, <1>2, PTL DEF Spec

(* For every such program, where requests reach the responder without gaps *)
(* (the user waits for each answer, or only answers are lost) and answers  *)
(* may be lost, repeated after a time-out or overtake each other: rx_ibh_fsm *)
(* of the requester reports no more completions than requests were         *)
(* executed, although it credits any ACK to the oldest request.            *)
THEOREM CompletionsCorrect == Spec => [](ReadFree => CompletionsEarned)
<1>1. (ReadFree /\ Gapless => Steady) => (ReadFree => CompletionsEarned)
  BY FlowEarns DEF CompletionsEarned
<1> QED
  BY <1>1, SteadyHolds, PTL

(* The same: a request that the responder has not taken is still in the    *)
(* list of the retransmitter, or on its way there, and can be sent again.  *)
THEOREM NothingLost == Spec => [](ReadFree => NothingForgotten)
<1>1. (ReadFree /\ Gapless => Steady) => (ReadFree => NothingForgotten)
  BY FlowKeeps DEF NothingForgotten
<1> QED
  BY <1>1, SteadyHolds, PTL

=============================================================================
