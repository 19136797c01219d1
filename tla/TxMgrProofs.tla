----------------------------- MODULE TxMgrProofs -----------------------------
(* Proofs about TxMgr for any set of writes, any depth of nesting and any     *)
(* number of savepoints and errors, with and without deadlines of nested      *)
(* calls.                                                                     *)
(*                                                                            *)
(* Savepoints outlive their calls: one stays behind when its call failed, or  *)
(* when its call's context ended before it was dealt with.  What the proof    *)
(* needs is that names are never used twice, so that the savepoint of an open *)
(* call is found whatever was left behind it, and that at this savepoint the  *)
(* log held exactly what the calls around it answer for.  The latter has to   *)
(* hold in an aborted transaction too, whose log is of no other use: the next *)
(* ROLLBACK TO makes it the log of an open one.                               *)
EXTENDS TxMgr, SequenceTheorems, TLAPS

Prefix(l, k) == {l[i] : i \in 1..k}
Below(d, n)  == UNION {d[m] : m \in 1..n}

Save  == [name : Nat, at : Nat]
Frame == [sp : Nat, expired : BOOLEAN]

TypeOK ==
    /\ tx \in {"none", "open", "aborted", "dead"}
    /\ log \in Seq(Writes)
    /\ saves \in Seq(Save)
    /\ globalSpID \in Nat
    /\ frames \in Seq(Frame)
    /\ committed \subseteq Writes /\ undone \subseteq Writes
    /\ due \in Seq(SUBSET Writes)

\* Calls are open only in a transaction.
Calls == Len(due) = Len(frames) /\ (tx = "none" => frames = <<>>)

\* Savepoints have names of their own and grow with the log.
Savepoints ==
    /\ \A p \in 1..Len(saves) : saves[p].name <= globalSpID /\ saves[p].at <= Len(log)
    /\ \A p, q \in 1..Len(saves) :
          p < q => saves[p].name < saves[q].name /\ saves[p].at <= saves[q].at

\* Every open nested call has its savepoint, in the order of the calls, and the
\* log up to it is what the calls around it answer for.
Nesting ==
    tx \in {"open", "aborted"} =>
        /\ \A n \in 2..Len(frames) : \E p \in 1..Len(saves) : saves[p].name = frames[n].sp
        /\ \A m, n \in 2..Len(frames) : m < n => frames[m].sp < frames[n].sp
        /\ \A n \in 2..Len(frames), p \in 1..Len(saves) :
              saves[p].name = frames[n].sp => Prefix(log, saves[p].at) = Below(due, n - 1)

Matches == tx = "open" /\ frames # <<>> => Prefix(log, Len(log)) = Below(due, Len(due))

IInv == TypeOK /\ Calls /\ Savepoints /\ Nesting /\ Matches
-----------------------------------------------------------------------------
(* Sequences *)

LEMMA PrefixSame ==
    ASSUME NEW k \in Nat, NEW l, NEW e, \A i \in 1..k : l[i] = e[i]
    PROVE  Prefix(l, k) = Prefix(e, k)
BY DEF Prefix

LEMMA BelowSame ==
    ASSUME NEW n \in Nat, NEW d, NEW e, \A m \in 1..n : d[m] = e[m]
    PROVE  Below(d, n) = Below(e, n)
<1>1. {d[m] : m \in 1..n} = {e[m] : m \in 1..n}
  OBVIOUS
<1> QED BY <1>1 DEF Below

LEMMA BelowNext ==
    ASSUME NEW n \in Nat, NEW d
    PROVE  Below(d, n + 1) = Below(d, n) \cup d[n + 1]
<1>1. \A m \in 1..n + 1 : m = n + 1 \/ m \in 1..n
  OBVIOUS
<1>2. n + 1 \in 1..n + 1 /\ \A m \in 1..n : m \in 1..n + 1
  OBVIOUS
<1>3. \A x : x \in Below(d, n + 1) <=> \E m \in 1..n + 1 : x \in d[m]
  BY DEF Below
<1>4. \A x : x \in Below(d, n) <=> \E m \in 1..n : x \in d[m]
  BY DEF Below
<1> QED BY <1>1, <1>2, <1>3, <1>4

LEMMA PrefixNext ==
    ASSUME NEW n \in Nat, NEW l
    PROVE  Prefix(l, n + 1) = Prefix(l, n) \cup {l[n + 1]}
<1>1. \A m \in 1..n + 1 : m = n + 1 \/ m \in 1..n
  OBVIOUS
<1>2. n + 1 \in 1..n + 1 /\ \A m \in 1..n : m \in 1..n + 1
  OBVIOUS
<1> QED BY <1>1, <1>2 DEF Prefix

LEMMA WholeSequences ==
    ASSUME TypeOK
    PROVE  ToSet(log) = Prefix(log, Len(log)) /\ UNION ToSet(due) = Below(due, Len(due))
<1>1. DOMAIN log = 1..Len(log) /\ DOMAIN due = 1..Len(due)
  BY DEF TypeOK
<1> QED BY <1>1 DEF ToSet, Prefix, Below

\* What the type says of lengths and of the parts of savepoints and frames.
LEMMA Lengths ==
    ASSUME TypeOK
    PROVE  /\ Len(log) \in Nat /\ Len(saves) \in Nat /\ Len(frames) \in Nat /\ Len(due) \in Nat
           /\ \A q \in 1..Len(saves) : saves[q].name \in Nat /\ saves[q].at \in Nat
           /\ \A n \in 1..Len(frames) : frames[n].sp \in Nat
           /\ \A n \in 1..Len(due) : due[n] \subseteq Writes
<1>1. /\ log \in Seq(Writes) /\ saves \in Seq(Save) /\ frames \in Seq(Frame)
      /\ due \in Seq(SUBSET Writes)
  BY DEF TypeOK
<1>2. /\ \A q \in 1..Len(saves) : saves[q] \in Save
      /\ \A n \in 1..Len(frames) : frames[n] \in Frame
      /\ \A n \in 1..Len(due) : due[n] \in SUBSET Writes
  BY <1>1
<1>3. \A n \in 1..Len(due) : due[n] \subseteq Writes
  BY <1>2
<1> QED BY <1>1, <1>2, <1>3 DEF Save, Frame

LEMMA SubSeqPrefix ==
    ASSUME NEW S, NEW s \in Seq(S), NEW n \in Nat, n <= Len(s)
    PROVE  /\ SubSeq(s, 1, n) \in Seq(S) /\ Len(SubSeq(s, 1, n)) = n
           /\ \A i \in 1..n : SubSeq(s, 1, n)[i] = s[i]
<1>1. Len(s) \in Nat /\ \A i \in 1..n : s[i] \in S
  OBVIOUS
<1> DEFINE t == SubSeq(s, 1, n)
<1>2. /\ t \in Seq(S) /\ Len(t) = IF 1 <= n THEN n - 1 + 1 ELSE 0
      /\ \A i \in 1..n - 1 + 1 : t[i] = s[1 + i - 1]
  BY <1>1, SubSeqProperties
<1> HIDE DEF t
<1>3. Len(t) = n /\ \A i \in 1..n : t[i] = s[i]
  BY <1>2
<1> QED BY <1>2, <1>3 DEF t

LEMMA FrontAndLast ==
    ASSUME NEW S, NEW s \in Seq(S), s # <<>>
    PROVE  /\ Front(s) \in Seq(S) /\ Len(Front(s)) = Len(s) - 1
           /\ \A i \in 1..Len(s) - 1 : Front(s)[i] = s[i]
           /\ Last(s) = s[Len(s)] /\ s[Len(s)] \in S /\ Len(s) >= 1
<1>1. Len(s) \in Nat /\ Len(s) >= 1 /\ s[Len(s)] \in S
  OBVIOUS
<1>2. Len(s) - 1 \in Nat /\ Len(s) - 1 <= Len(s)
  BY <1>1
<1>3. /\ SubSeq(s, 1, Len(s) - 1) \in Seq(S) /\ Len(SubSeq(s, 1, Len(s) - 1)) = Len(s) - 1
      /\ \A i \in 1..Len(s) - 1 : SubSeq(s, 1, Len(s) - 1)[i] = s[i]
  BY <1>2, SubSeqPrefix
<1> QED BY <1>1, <1>3 DEF Front, Last

\* The savepoint a name stands for is the only one of that name.
LEMMA PositionOfName ==
    ASSUME TypeOK, Savepoints, NEW p \in 1..Len(saves)
    PROVE  Position(saves[p].name) = p
<1>1. DOMAIN saves = 1..Len(saves) /\ Len(saves) \in Nat
      /\ \A q \in 1..Len(saves) : saves[q].name \in Nat
  BY Lengths DEF TypeOK
<1>2. \A q \in 1..Len(saves) : saves[q].name = saves[p].name => q = p
  BY <1>1 DEF Savepoints
<1>3. /\ p \in DOMAIN saves /\ saves[p].name = saves[p].name
      /\ \A m \in DOMAIN saves : saves[m].name = saves[p].name => m <= p
  BY <1>1, <1>2
<1> DEFINE P(n) == /\ saves[n].name = saves[p].name
                   /\ \A m \in DOMAIN saves : saves[m].name = saves[p].name => m <= n
<1>4. P(p) /\ \A n \in DOMAIN saves : P(n) => n = p
  BY <1>1, <1>2, <1>3
<1>5. Position(saves[p].name) = CHOOSE n \in DOMAIN saves : P(n)
  BY DEF Position
<1> HIDE DEF P
<1> QED BY <1>3, <1>4, <1>5

\* The savepoint of an open nested call, and where the call is among the others.
LEMMA SavepointOfCall ==
    ASSUME IInv, tx \in {"open", "aborted"}, NEW n \in 2..Len(frames)
    PROVE  \E p \in 1..Len(saves) :
              /\ saves[p].name = frames[n].sp /\ Position(frames[n].sp) = p
              /\ saves[p].at \in Nat /\ saves[p].at <= Len(log)
              /\ Prefix(log, saves[p].at) = Below(due, n - 1)
              /\ \A m \in 2..Len(frames), q \in 1..Len(saves) :
                    m < n /\ saves[q].name = frames[m].sp => q < p
<1>1. PICK p \in 1..Len(saves) : saves[p].name = frames[n].sp
  BY DEF IInv, Nesting
<1>2. Position(frames[n].sp) = p
  BY <1>1, PositionOfName DEF IInv
<1>3. saves[p].at \in Nat /\ saves[p].at <= Len(log) /\ Prefix(log, saves[p].at) = Below(due, n - 1)
  BY <1>1, Lengths DEF IInv, Savepoints, Nesting
<1>4. ASSUME NEW m \in 2..Len(frames), NEW q \in 1..Len(saves), m < n, saves[q].name = frames[m].sp
      PROVE  q < p
  <2>1. saves[q].name < saves[p].name
    BY <1>1, <1>4 DEF IInv, Nesting
  <2>2. p < q => saves[p].name < saves[q].name
    BY <1>1 DEF IInv, Savepoints
  <2>3. p \in Nat /\ q \in Nat /\ saves[p].name \in Nat /\ saves[q].name \in Nat
    BY <1>1, Lengths DEF IInv
  <2> QED BY <2>1, <2>2, <2>3
<1> QED BY <1>1, <1>2, <1>3, <1>4

\* A step after which fewer or the same calls are open, with their savepoints and
\* the log up to them.
LEMMA NestingKept ==
    ASSUME IInv, TypeOK', tx \in {"open", "aborted"},
           Len(frames') <= Len(frames),
           \A n \in 1..Len(frames') : frames'[n].sp = frames[n].sp,
           \A n \in 1..Len(frames') - 1 : due'[n] = due[n],
           Len(saves') <= Len(saves),
           \A p \in 1..Len(saves') : saves'[p] = saves[p],
           \A p \in 1..Len(saves), n \in 2..Len(frames') :
              saves[p].name = frames[n].sp => p <= Len(saves'),
           \A p \in 1..Len(saves'), i \in Nat : i >= 1 /\ i <= saves[p].at => log'[i] = log[i]
    PROVE  Nesting'
<1>1. /\ Len(saves) \in Nat /\ Len(frames) \in Nat /\ Len(saves') \in Nat /\ Len(frames') \in Nat
      /\ \A q \in 1..Len(saves) : saves[q].name \in Nat /\ saves[q].at \in Nat
  <2>1. saves' \in Seq(Save) /\ frames' \in Seq(Frame)
    BY DEF TypeOK
  <2>2. Len(saves') \in Nat /\ Len(frames') \in Nat
    BY <2>1, LenProperties
  <2>3. /\ Len(saves) \in Nat /\ Len(frames) \in Nat
        /\ \A q \in 1..Len(saves) : saves[q].name \in Nat /\ saves[q].at \in Nat
    BY Lengths DEF IInv
  <2> QED BY <2>2, <2>3
<1>2. \A n \in 2..Len(frames') : n \in 2..Len(frames) /\ frames'[n].sp = frames[n].sp
  BY <1>1
<1>3. \A p \in 1..Len(saves') : p \in 1..Len(saves) /\ saves'[p] = saves[p]
  BY <1>1
<1>4. ASSUME NEW n \in 2..Len(frames')
      PROVE  \E p \in 1..Len(saves') : saves'[p].name = frames'[n].sp
  <2>1. PICK p \in 1..Len(saves) : saves[p].name = frames[n].sp
    BY <1>2 DEF IInv, Nesting
  <2>2. p \in 1..Len(saves')
    BY <1>1, <2>1
  <2> QED BY <1>2, <1>3, <2>1, <2>2
<1>5. \A m, n \in 2..Len(frames') : m < n => frames'[m].sp < frames'[n].sp
  BY <1>2 DEF IInv, Nesting
<1>6. ASSUME NEW n \in 2..Len(frames'), NEW p \in 1..Len(saves'), saves'[p].name = frames'[n].sp
      PROVE  Prefix(log', saves'[p].at) = Below(due', n - 1)
  <2>1. saves[p].name = frames[n].sp /\ saves'[p].at = saves[p].at /\ saves[p].at \in Nat
    BY <1>1, <1>2, <1>3, <1>6
  <2>2. Prefix(log, saves[p].at) = Below(due, n - 1)
    BY <1>2, <1>3, <2>1 DEF IInv, Nesting
  <2>3. Prefix(log', saves[p].at) = Prefix(log, saves[p].at)
    <3>1. \A i \in 1..saves[p].at : log'[i] = log[i]
      BY <2>1
    <3> QED BY <2>1, <3>1, PrefixSame
  <2>4. Below(due', n - 1) = Below(due, n - 1)
    <3>1. n - 1 \in Nat /\ \A m \in 1..n - 1 : due'[m] = due[m]
      BY <1>1
    <3> QED BY <3>1, BelowSame
  <2> QED BY <2>1, <2>2, <2>3, <2>4
<1> QED BY <1>4, <1>5, <1>6 DEF Nesting

\* The innermost call and the calls around it.
LEMMA InnermostCall ==
    ASSUME IInv, frames # <<>>
    PROVE  /\ Len(due) = Len(frames) /\ Len(frames) \in Nat /\ Len(frames) >= 1
           /\ Front(frames) \in Seq(Frame) /\ Len(Front(frames)) = Len(frames) - 1
           /\ \A n \in 1..Len(frames) - 1 : Front(frames)[n] = frames[n]
           /\ Last(frames) = frames[Len(frames)]
           /\ Front(due) \in Seq(SUBSET Writes) /\ Len(Front(due)) = Len(frames) - 1
           /\ \A n \in 1..Len(frames) - 1 : Front(due)[n] = due[n]
           /\ Last(due) = due[Len(frames)] /\ Last(due) \subseteq Writes
<1>1. frames \in Seq(Frame) /\ due \in Seq(SUBSET Writes) /\ Len(due) = Len(frames)
  BY DEF IInv, TypeOK, Calls
<1>2. Len(frames) \in Nat /\ Len(frames) >= 1
  BY <1>1
<1>3. due # <<>>
  BY <1>1, <1>2
<1>4. /\ Front(frames) \in Seq(Frame) /\ Len(Front(frames)) = Len(frames) - 1
      /\ \A i \in 1..Len(frames) - 1 : Front(frames)[i] = frames[i]
      /\ Last(frames) = frames[Len(frames)]
  BY <1>1, FrontAndLast
<1>5. /\ Front(due) \in Seq(SUBSET Writes) /\ Len(Front(due)) = Len(due) - 1
      /\ \A i \in 1..Len(due) - 1 : Front(due)[i] = due[i]
      /\ Last(due) = due[Len(due)] /\ due[Len(due)] \in SUBSET Writes
  BY <1>1, <1>3, FrontAndLast
<1> QED BY <1>1, <1>2, <1>4, <1>5

\* The innermost call hands its writes to the call around it.
LEMMA MergedDue ==
    ASSUME IInv, Len(frames) > 1, NEW d,
           d = [Front(due) EXCEPT ![Len(frames) - 1] = @ \cup Last(due)]
    PROVE  /\ d \in Seq(SUBSET Writes) /\ Len(d) = Len(frames) - 1
           /\ \A n \in 1..Len(frames) - 2 : d[n] = due[n]
           /\ Below(d, Len(frames) - 1) = Below(due, Len(frames))
<1> DEFINE k == Len(frames) - 1
           f == Front(due)
<1>1. frames # <<>>
  BY DEF IInv, TypeOK
<1>2. k \in Nat /\ k >= 1 /\ k - 1 \in Nat /\ Len(frames) = k + 1
      /\ k \in 1..k /\ \A n \in 1..k - 1 : n \in 1..k /\ n # k
  BY <1>1, InnermostCall
<1>3. /\ f \in Seq(SUBSET Writes) /\ Len(f) = k /\ \A n \in 1..k : f[n] = due[n]
      /\ Last(due) = due[k + 1] /\ Last(due) \subseteq Writes
  BY <1>1, <1>2, InnermostCall
<1> HIDE DEF k, f
<1>4. f[k] \subseteq Writes /\ d = [f EXCEPT ![k] = f[k] \cup Last(due)]
  <2>1. f[k] \in SUBSET Writes
    BY <1>2, <1>3
  <2>2. d = [f EXCEPT ![k] = f[k] \cup Last(due)]
    BY DEF k, f
  <2> QED BY <2>1, <2>2
<1>5. d \in Seq(SUBSET Writes) /\ Len(d) = k
  <2>1. f[k] \cup Last(due) \in SUBSET Writes
    BY <1>3, <1>4
  <2>2. /\ [f EXCEPT ![k] = f[k] \cup Last(due)] \in Seq(SUBSET Writes)
        /\ Len([f EXCEPT ![k] = f[k] \cup Last(due)]) = Len(f)
    BY <1>2, <1>3, <2>1, ExceptSeq
  <2> QED BY <1>3, <1>4, <2>2
<1>6. (\A n \in 1..k - 1 : d[n] = due[n]) /\ d[k] = due[k] \cup due[k + 1]
  <2>1. DOMAIN f = 1..k
    BY <1>3
  <2> QED BY <1>2, <1>3, <1>4, <2>1
<1>7. Below(d, k) = Below(due, k + 1)
  <2>1. Below(d, k - 1) = Below(due, k - 1)
    BY <1>2, <1>6, BelowSame
  <2>2. /\ Below(d, (k - 1) + 1) = Below(d, k - 1) \cup d[(k - 1) + 1]
        /\ Below(due, (k - 1) + 1) = Below(due, k - 1) \cup due[(k - 1) + 1]
        /\ Below(due, k + 1) = Below(due, k) \cup due[k + 1]
    BY <1>2, BelowNext
  <2>3. (k - 1) + 1 = k
    BY <1>2
  <2> QED BY <1>6, <2>1, <2>2, <2>3
<1>8. k - 1 = Len(frames) - 2
  BY <1>2
<1> QED BY <1>2, <1>5, <1>6, <1>7, <1>8 DEF k
-----------------------------------------------------------------------------
(* Steps *)

LEMMA InitIInv == Init => IInv
BY DEF Init, IInv, TypeOK, Calls, Savepoints, Nesting, Matches

LEMMA RunNewTxStep ==
    ASSUME IInv, RunNewTx
    PROVE  IInv'
<1> DEFINE f == [sp |-> 0, expired |-> FALSE]
<1>1. f \in Frame
  BY DEF Frame
<1>2. frames' = <<f>> /\ due' = <<{}>> /\ log' = <<>> /\ saves' = <<>> /\ tx' = "open"
  BY DEF RunNewTx
<1> HIDE DEF f
<1>3. /\ Len(frames') = 1 /\ Len(due') = 1 /\ Len(log') = 0 /\ Len(saves') = 0
      /\ frames' \in Seq(Frame) /\ due' \in Seq(SUBSET Writes) /\ due'[1] = {}
      /\ log' \in Seq(Writes) /\ saves' \in Seq(Save)
  BY <1>1, <1>2
<1>4. TypeOK'
  BY <1>2, <1>3 DEF IInv, TypeOK, RunNewTx
<1>5. Prefix(log', 0) = {} /\ Below(due', 1) = {}
  BY <1>3 DEF Prefix, Below
<1>6. Calls' /\ Matches'
  BY <1>2, <1>3, <1>5 DEF Calls, Matches
<1>7. Savepoints' /\ Nesting'
  BY <1>3 DEF Savepoints, Nesting
<1> QED BY <1>4, <1>6, <1>7 DEF IInv

\* SAVEPOINT under a new name, or an error that the caller may ignore.
LEMMA RunSavepointStep ==
    ASSUME IInv, RunSavepoint
    PROVE  IInv'
<1>1. globalSpID \in Nat /\ globalSpID' = globalSpID + 1
  BY DEF RunSavepoint, IInv, TypeOK
<1>2. CASE UNCHANGED <<saves, frames, due>>
  <2>1. UNCHANGED <<tx, log, committed, undone>>
    BY DEF RunSavepoint
  <2>2. TypeOK'
    BY <1>1, <1>2, <2>1 DEF IInv, TypeOK
  <2>3. Savepoints'
    BY <1>1, <1>2, <2>1, Lengths DEF IInv, Savepoints
  <2> QED BY <1>2, <2>1, <2>2, <2>3 DEF IInv, Calls, Nesting, Matches
<1>3. CASE /\ tx = "open"
           /\ saves' = Append(saves, [name |-> globalSpID', at |-> Len(log)])
           /\ frames' = Append(frames, [sp |-> globalSpID', expired |-> FALSE])
           /\ due' = Append(due, {})
  <2> DEFINE sv == [name |-> globalSpID', at |-> Len(log)]
             fr == [sp |-> globalSpID', expired |-> FALSE]
             S == Len(saves)
             D == Len(frames)
  <2>1. UNCHANGED <<tx, log, committed, undone>> /\ frames # <<>>
    BY DEF RunSavepoint
  <2>2. /\ Len(log) \in Nat /\ S \in Nat /\ D \in Nat /\ Len(due) = D /\ D >= 1
        /\ \A q \in 1..S : saves[q].name \in Nat /\ saves[q].at \in Nat
        /\ \A n \in 1..D : frames[n].sp \in Nat
    BY <2>1, Lengths, InnermostCall DEF IInv
  <2>3. /\ sv \in Save /\ fr \in Frame /\ sv.name = globalSpID + 1 /\ sv.at = Len(log)
        /\ fr.sp = globalSpID + 1
    BY <1>1, <2>2 DEF Save, Frame
  <2>4. saves' = Append(saves, sv) /\ frames' = Append(frames, fr) /\ due' = Append(due, {})
        /\ saves \in Seq(Save) /\ frames \in Seq(Frame) /\ due \in Seq(SUBSET Writes)
    BY <1>3 DEF IInv, TypeOK
  <2> HIDE DEF sv, fr
  <2>5. /\ Len(saves') = S + 1 /\ saves'[S + 1] = sv /\ \A q \in 1..S : saves'[q] = saves[q]
        /\ saves' \in Seq(Save)
    BY <2>3, <2>4
  <2>6. /\ Len(frames') = D + 1 /\ frames'[D + 1] = fr /\ \A n \in 1..D : frames'[n] = frames[n]
        /\ frames' \in Seq(Frame)
    BY <2>3, <2>4
  <2>7. /\ Len(due') = D + 1 /\ due'[D + 1] = {} /\ \A n \in 1..D : due'[n] = due[n]
        /\ due' \in Seq(SUBSET Writes)
    BY <2>2, <2>4
  <2> HIDE DEF S, D
  <2>8. TypeOK'
    BY <1>1, <2>1, <2>5, <2>6, <2>7 DEF IInv, TypeOK
  <2>9. \A q \in 1..S : saves[q].name <= globalSpID /\ saves[q].at <= Len(log)
    BY DEF IInv, Savepoints, S
  <2>10. \A q \in 1..S + 1 : q \in 1..S \/ q = S + 1
    BY <2>2
  <2>11. Savepoints'
    <3>1. \A q \in 1..S + 1 : saves'[q].name <= globalSpID' /\ saves'[q].at <= Len(log')
      <4>1. \A q \in 1..S : saves[q].name <= globalSpID + 1
        BY <1>1, <2>2, <2>9
      <4>2. sv.name <= globalSpID + 1 /\ sv.at <= Len(log)
        BY <1>1, <2>2, <2>3
      <4> QED BY <1>1, <2>1, <2>5, <2>9, <2>10, <4>1, <4>2
    <3>2. ASSUME NEW p \in 1..S + 1, NEW q \in 1..S + 1, p < q
          PROVE  saves'[p].name < saves'[q].name /\ saves'[p].at <= saves'[q].at
      <4>1. p \in 1..S
        BY <2>2, <3>2
      <4>2. CASE q \in 1..S
        BY <2>5, <3>2, <4>1, <4>2 DEF IInv, Savepoints, S
      <4>3. CASE q = S + 1
        <5>1. saves[p].name < globalSpID + 1 /\ saves[p].at <= Len(log)
          BY <1>1, <2>2, <2>9, <4>1
        <5> QED BY <2>3, <2>5, <4>1, <4>3, <5>1
      <4> QED BY <2>10, <4>2, <4>3
    <3> QED BY <2>5, <3>1, <3>2 DEF Savepoints
  <2>12. Prefix(log, Len(log)) = Below(due, D)
    BY <1>3, <2>1, <2>2 DEF IInv, Matches
  <2>13. Below(due', D) = Below(due, D)
    BY <2>2, <2>7, BelowSame
  <2>14. Nesting'
    <3>1. \A n \in 2..D + 1 : n \in 2..D \/ n = D + 1
      BY <2>2
    <3>2. \A n \in 2..D : n \in 1..D /\ \E p \in 1..S : saves[p].name = frames[n].sp
      BY <1>3, <2>2 DEF IInv, Nesting, S, D
    <3>3. \A n \in 2..D : frames[n].sp <= globalSpID /\ frames[n].sp \in Nat
      BY <2>2, <2>9, <3>2
    <3>4. \A n \in 2..D + 1 : \E p \in 1..S + 1 : saves'[p].name = frames'[n].sp
      <4>1. \A p \in 1..S : p \in 1..S + 1
        BY <2>2
      <4>2. S + 1 \in 1..S + 1
        BY <2>2
      <4> QED BY <2>3, <2>5, <2>6, <3>1, <3>2, <4>1, <4>2
    <3>5. ASSUME NEW m \in 2..D + 1, NEW n \in 2..D + 1, m < n
          PROVE  frames'[m].sp < frames'[n].sp
      <4>1. m \in 2..D /\ m \in 1..D
        BY <2>2, <3>5
      <4>2. CASE n \in 2..D
        BY <1>3, <2>6, <3>2, <3>5, <4>1, <4>2 DEF IInv, Nesting, D
      <4>3. CASE n = D + 1
        BY <1>1, <2>3, <2>6, <3>3, <4>1, <4>3
      <4> QED BY <3>1, <4>2, <4>3
    <3>6. ASSUME NEW n \in 2..D + 1, NEW p \in 1..S + 1, saves'[p].name = frames'[n].sp
          PROVE  Prefix(log', saves'[p].at) = Below(due', n - 1)
      <4>1. CASE n = D + 1
        <5>1. p = S + 1
          BY <1>1, <2>2, <2>3, <2>5, <2>6, <2>9, <2>10, <3>6, <4>1
        <5>2. n - 1 = D
          BY <2>2, <4>1
        <5> QED BY <2>1, <2>3, <2>5, <2>12, <2>13, <5>1, <5>2
      <4>2. CASE n \in 2..D
        <5>1. n \in 1..D /\ n - 1 \in Nat /\ \A m \in 1..n - 1 : m \in 1..D
          BY <2>2, <4>2
        <5>2. p \in 1..S
          BY <1>1, <2>3, <2>5, <2>6, <2>10, <3>3, <3>6, <4>2, <5>1
        <5>3. Prefix(log, saves[p].at) = Below(due, n - 1)
          BY <1>3, <2>5, <2>6, <3>6, <4>2, <5>1, <5>2 DEF IInv, Nesting, S, D
        <5>4. Below(due', n - 1) = Below(due, n - 1)
          BY <2>7, <5>1, BelowSame
        <5> QED BY <2>1, <2>5, <5>2, <5>3, <5>4
      <4> QED BY <3>1, <4>1, <4>2
    <3> QED BY <2>5, <2>6, <3>4, <3>5, <3>6 DEF Nesting
  <2>15. Matches'
    <3>1. Below(due', D + 1) = Below(due', D) \cup due'[D + 1]
      BY <2>2, BelowNext
    <3> QED BY <2>1, <2>7, <2>12, <2>13, <3>1 DEF Matches
  <2>16. Calls'
    BY <1>3, <2>1, <2>6, <2>7 DEF Calls
  <2> QED BY <2>8, <2>11, <2>14, <2>15, <2>16 DEF IInv
<1> QED BY <1>2, <1>3 DEF RunSavepoint

LEMMA WriteStep ==
    ASSUME IInv, NEW w \in Writes, Write(w)
    PROVE  IInv'
<1> DEFINE D == Len(frames)
           K == Len(log)
<1>1. /\ D \in Nat /\ D >= 1 /\ Len(due) = D /\ K \in Nat /\ tx = "open" /\ D - 1 \in Nat
      /\ log' = Append(log, w) /\ due' = [due EXCEPT ![D] = due[D] \cup {w}]
      /\ UNCHANGED <<tx, saves, globalSpID, frames, committed, undone>>
      /\ log \in Seq(Writes) /\ due \in Seq(SUBSET Writes)
  BY InnermostCall, Lengths DEF Write, Depth, IInv, TypeOK
<1> HIDE DEF D, K
<1>2. /\ log' \in Seq(Writes) /\ Len(log') = K + 1 /\ log'[K + 1] = w
      /\ \A i \in 1..K : log'[i] = log[i]
  BY <1>1 DEF K
<1>3. due[D] \cup {w} \in SUBSET Writes /\ D \in 1..Len(due)
  BY <1>1
<1>4. /\ due' \in Seq(SUBSET Writes) /\ Len(due') = D
      /\ \A n \in 1..D : due'[n] = IF n = D THEN due[D] \cup {w} ELSE due[n]
  <2> DEFINE e == [due EXCEPT ![D] = due[D] \cup {w}]
  <2>1. /\ e \in Seq(SUBSET Writes) /\ Len(e) = Len(due)
        /\ \A n \in 1..Len(due) : e[n] = IF n = D THEN due[D] \cup {w} ELSE due[n]
    BY <1>1, <1>3, ExceptSeq
  <2>2. due' = e
    BY <1>1
  <2> HIDE DEF e
  <2> QED BY <1>1, <2>1, <2>2
<1>5. TypeOK'
  BY <1>1, <1>2, <1>4 DEF IInv, TypeOK
<1>6. \A p \in 1..Len(saves) : saves[p].at <= K /\ saves[p].at \in Nat
  BY Lengths DEF IInv, Savepoints, K
<1>7. Savepoints'
  <2>1. \A p \in 1..Len(saves) : saves[p].at <= K + 1
    BY <1>1, <1>6
  <2> QED BY <1>1, <1>2, <2>1 DEF IInv, Savepoints
<1>8. Nesting'
  <2>1. \A n \in 1..D - 1 : due'[n] = due[n]
    BY <1>1, <1>4
  <2>2. \A p \in 1..Len(saves), n \in 2..D : p <= Len(saves)
    BY Lengths DEF IInv
  <2>3. Nesting
    BY DEF IInv
  <2>4. \A n \in 2..D, p \in 1..Len(saves) : saves[p].name = frames[n].sp =>
           Prefix(log', saves[p].at) = Prefix(log, saves[p].at) /\ Below(due', n - 1) = Below(due, n - 1)
    <3> SUFFICES ASSUME NEW n \in 2..D, NEW p \in 1..Len(saves)
                 PROVE  /\ Prefix(log', saves[p].at) = Prefix(log, saves[p].at)
                        /\ Below(due', n - 1) = Below(due, n - 1)
      OBVIOUS
    <3>1. saves[p].at \in Nat /\ \A i \in 1..saves[p].at : log'[i] = log[i]
      BY <1>1, <1>2, <1>6
    <3>2. n - 1 \in Nat /\ \A m \in 1..n - 1 : due'[m] = due[m]
      BY <1>1, <2>1
    <3> QED BY <3>1, <3>2, PrefixSame, BelowSame
  <2> QED BY <1>1, <2>3, <2>4 DEF Nesting, D
<1>9. Matches'
  <2>1. Prefix(log, K) = Below(due, D)
    BY <1>1 DEF IInv, Matches, Write, K
  <2>2. /\ Prefix(log', K + 1) = Prefix(log', K) \cup {w}
        /\ Prefix(log', K) = Prefix(log, K)
    BY <1>1, <1>2, PrefixNext, PrefixSame
  <2>3. /\ Below(due', (D - 1) + 1) = Below(due', D - 1) \cup due'[(D - 1) + 1]
        /\ Below(due, (D - 1) + 1) = Below(due, D - 1) \cup due[(D - 1) + 1]
        /\ (D - 1) + 1 = D
    <3>1. D - 1 \in Nat /\ (D - 1) + 1 = D
      BY <1>1
    <3> QED BY <3>1, BelowNext
  <2>4. Below(due', D - 1) = Below(due, D - 1)
    <3>1. \A m \in 1..D - 1 : due'[m] = due[m]
      BY <1>1, <1>4
    <3> QED BY <1>1, <3>1, BelowSame
  <2>5. due'[D] = due[D] \cup {w}
    BY <1>1, <1>4
  <2>6. Prefix(log', K + 1) = Below(due', D)
    BY <2>1, <2>2, <2>3, <2>4, <2>5
  <2> QED BY <1>2, <1>4, <2>6 DEF Matches
<1>10. Calls'
  BY <1>1, <1>4 DEF IInv, Calls, D
<1> QED BY <1>5, <1>7, <1>8, <1>9, <1>10 DEF IInv

LEMMA WriteFailsStep ==
    ASSUME IInv, WriteFails
    PROVE  IInv'
<1>1. TypeOK'
  BY DEF WriteFails, IInv, TypeOK
<1> QED BY <1>1 DEF WriteFails, IInv, Calls, Savepoints, Nesting, Matches

\* The innermost call returns and the transaction is left as it is.
LEMMA ReturnUnchanged ==
    ASSUME IInv, frames # <<>>, UNCHANGED txVars, UNCHANGED <<globalSpID, committed>>,
           \/ ReturnError /\ tx # "open"
           \/ ReturnErrorKept /\ Depth > 1
    PROVE  IInv'
<1> DEFINE D == Len(frames)
<1>1. /\ Len(due) = D /\ D \in Nat /\ D >= 1 /\ tx' = tx /\ log' = log /\ saves' = saves
      /\ globalSpID' = globalSpID /\ committed' = committed
  BY InnermostCall DEF txVars
<1>2. /\ frames' \in Seq(Frame) /\ Len(frames') = D - 1
      /\ \A n \in 1..D - 1 : frames'[n] = frames[n]
  BY InnermostCall DEF ReturnError, ReturnErrorKept
<1>3. /\ due' \in Seq(SUBSET Writes) /\ Len(due') = D - 1
      /\ \A n \in 1..D - 2 : due'[n] = due[n]
      /\ tx = "open" => Below(due', D - 1) = Below(due, D)
      /\ undone' \subseteq Writes
  <2>1. CASE ReturnError /\ tx # "open"
    <3>1. due' = Front(due) /\ undone' = undone \cup Last(due)
      BY <2>1 DEF ReturnError
    <3>2. \A n \in 1..D - 2 : n \in 1..D - 1
      BY <1>1
    <3>3. undone \subseteq Writes
      BY DEF IInv, TypeOK
    <3>4. /\ Front(due) \in Seq(SUBSET Writes) /\ Len(Front(due)) = D - 1
          /\ \A n \in 1..D - 1 : Front(due)[n] = due[n]
          /\ Last(due) \subseteq Writes
      BY InnermostCall
    <3> QED BY <2>1, <3>1, <3>2, <3>3, <3>4
  <2>2. CASE ReturnErrorKept /\ Depth > 1
    <3>1. due' = [Front(due) EXCEPT ![D - 1] = @ \cup Last(due)] /\ D > 1
      BY <2>2 DEF ReturnErrorKept, Depth
    <3>2. undone' \subseteq Writes
      BY <2>2, InnermostCall DEF IInv, TypeOK, ReturnErrorKept
    <3> QED BY <3>1, <3>2, MergedDue
  <2> QED BY <2>1, <2>2
<1> HIDE DEF D
<1>4. TypeOK'
  BY <1>1, <1>2, <1>3 DEF IInv, TypeOK
<1>5. Savepoints'
  BY <1>1 DEF IInv, Savepoints
<1>6. Calls'
  BY <1>1, <1>2, <1>3 DEF IInv, Calls
<1>7. Nesting'
  <2>1. CASE tx \in {"open", "aborted"}
    <3>1. Len(saves) \in Nat /\ Len(frames') <= Len(frames) /\ Len(saves') <= Len(saves)
      BY <1>1, <1>2, Lengths DEF IInv, D
    <3>2. \A n \in 1..Len(frames') - 1 : due'[n] = due[n]
      <4>1. (D - 1) - 1 = D - 2
        BY <1>1
      <4> QED BY <1>2, <1>3, <4>1
    <3>3. \A n \in 1..Len(frames') : frames'[n].sp = frames[n].sp
      BY <1>2
    <3>4. \A p \in 1..Len(saves) : p <= Len(saves')
      BY <1>1, <3>1
    <3> QED BY <1>1, <1>4, <2>1, <3>1, <3>2, <3>3, <3>4, NestingKept
  <2>2. CASE tx \notin {"open", "aborted"}
    BY <1>1, <2>2 DEF Nesting
  <2> QED BY <2>1, <2>2
<1>8. Matches'
  <2>1. tx = "open" => Prefix(log, Len(log)) = Below(due, D)
    BY <1>1 DEF IInv, Matches
  <2> QED BY <1>1, <1>3, <2>1 DEF Matches
<1> QED BY <1>4, <1>5, <1>6, <1>7, <1>8 DEF IInv

\* ROLLBACK TO the savepoint of the innermost call.
LEMMA RollbackStep ==
    ASSUME IInv, Depth > 1, tx # "dead", RollbackTo(Last(frames).sp), ReturnError,
           UNCHANGED <<globalSpID, committed>>
    PROVE  IInv'
<1> DEFINE D == Len(frames)
<1>1. frames # <<>> /\ D > 1
  BY DEF IInv, TypeOK, Depth
<1>2. /\ Len(due) = D /\ D \in Nat /\ D \in 2..D /\ Last(frames) = frames[D]
      /\ tx \in {"open", "aborted"}
  BY <1>1, InnermostCall DEF IInv, TypeOK, Calls
<1>3. PICK p \in 1..Len(saves) :
              /\ saves[p].name = frames[D].sp /\ Position(frames[D].sp) = p
              /\ saves[p].at \in Nat /\ saves[p].at <= Len(log)
              /\ Prefix(log, saves[p].at) = Below(due, D - 1)
              /\ \A m \in 2..D, q \in 1..Len(saves) :
                    m < D /\ saves[q].name = frames[m].sp => q < p
  BY <1>2, SavepointOfCall
<1>4. /\ frames' \in Seq(Frame) /\ Len(frames') = D - 1
      /\ \A n \in 1..D - 1 : frames'[n] = frames[n]
      /\ due' \in Seq(SUBSET Writes) /\ Len(due') = D - 1
      /\ \A n \in 1..D - 1 : due'[n] = due[n]
      /\ undone' \subseteq Writes
  <2>1. undone' \subseteq Writes
    BY <1>1, InnermostCall DEF ReturnError, IInv, TypeOK
  <2> QED BY <1>1, <2>1, InnermostCall DEF ReturnError
<1> DEFINE a == saves[p].at
<1>5. /\ tx' = "open" /\ log' = SubSeq(log, 1, a) /\ saves' = SubSeq(saves, 1, p)
      /\ globalSpID' = globalSpID /\ committed' = committed
  BY <1>2, <1>3 DEF RollbackTo
<1>6. Len(saves) \in Nat /\ p \in Nat /\ p <= Len(saves) /\ Len(log) \in Nat /\ a \in Nat
  BY <1>3, Lengths DEF IInv
<1>7. /\ log' \in Seq(Writes) /\ Len(log') = a /\ \A i \in 1..a : log'[i] = log[i]
      /\ saves' \in Seq(Save) /\ Len(saves') = p /\ \A q \in 1..p : saves'[q] = saves[q]
  <2>1. log \in Seq(Writes) /\ saves \in Seq(Save) /\ a <= Len(log)
    BY <1>3 DEF IInv, TypeOK
  <2>2. /\ SubSeq(log, 1, a) \in Seq(Writes) /\ Len(SubSeq(log, 1, a)) = a
        /\ \A i \in 1..a : SubSeq(log, 1, a)[i] = log[i]
    BY <1>6, <2>1, SubSeqPrefix
  <2>3. /\ SubSeq(saves, 1, p) \in Seq(Save) /\ Len(SubSeq(saves, 1, p)) = p
        /\ \A q \in 1..p : SubSeq(saves, 1, p)[q] = saves[q]
    BY <1>6, <2>1, SubSeqPrefix
  <2> QED BY <1>5, <2>2, <2>3
<1>8. TypeOK'
  BY <1>4, <1>5, <1>7 DEF IInv, TypeOK
<1>9. \A q \in 1..p : q \in 1..Len(saves) /\ saves[q].at \in Nat /\ saves[q].at <= a
  <2>1. \A q \in 1..p : q \in 1..Len(saves) /\ (q = p \/ q < p)
    BY <1>6
  <2> QED BY <1>3, <1>6, <2>1, Lengths DEF IInv, Savepoints
<1>10. Savepoints'
  BY <1>5, <1>7, <1>9 DEF IInv, Savepoints
<1>11. Nesting'
  <2>1. \A n \in 1..Len(frames') - 1 : due'[n] = due[n]
    BY <1>2, <1>4
  <2>2. \A q \in 1..Len(saves), n \in 2..Len(frames') :
            saves[q].name = frames[n].sp => q <= Len(saves')
    <3>1. \A n \in 2..Len(frames') : n \in 2..D /\ n < D
      BY <1>2, <1>4
    <3>2. \A q \in 1..Len(saves) : q < p => q <= p
      BY <1>6
    <3> QED BY <1>3, <1>7, <3>1, <3>2
  <2>3. \A q \in 1..Len(saves'), i \in Nat : i >= 1 /\ i <= saves[q].at => log'[i] = log[i]
    BY <1>6, <1>7, <1>9
  <2>4. Len(frames') <= Len(frames) /\ Len(saves') <= Len(saves)
    BY <1>2, <1>4, <1>6, <1>7
  <2>5. \A n \in 1..Len(frames') : frames'[n].sp = frames[n].sp
    BY <1>4
  <2>6. \A q \in 1..Len(saves') : saves'[q] = saves[q]
    BY <1>7
  <2> QED BY <1>2, <1>8, <2>1, <2>2, <2>3, <2>4, <2>5, <2>6, NestingKept
<1>12. Matches'
  <2>1. Prefix(log', a) = Prefix(log, a)
    BY <1>6, <1>7, PrefixSame
  <2>2. Below(due', D - 1) = Below(due, D - 1)
    <3>1. D - 1 \in Nat
      BY <1>2
    <3> QED BY <1>4, <3>1, BelowSame
  <2> QED BY <1>3, <1>4, <1>7, <2>1, <2>2 DEF Matches
<1>13. Calls'
  BY <1>4, <1>5 DEF Calls
<1> QED BY <1>8, <1>10, <1>11, <1>12, <1>13 DEF IInv

\* RELEASE of the savepoint of the innermost call.
LEMMA ReleaseStep ==
    ASSUME IInv, Depth > 1, tx = "open", ReleaseSavepoint(Last(frames).sp), ReturnNil,
           UNCHANGED <<globalSpID, committed>>
    PROVE  IInv'
<1> DEFINE D == Len(frames)
<1>1. frames # <<>> /\ D > 1
  BY DEF IInv, TypeOK, Depth
<1>2. Len(due) = D /\ D \in Nat /\ D \in 2..D /\ Last(frames) = frames[D]
  BY <1>1, InnermostCall
<1>3. PICK p \in 1..Len(saves) :
              /\ saves[p].name = frames[D].sp /\ Position(frames[D].sp) = p
              /\ \A m \in 2..D, q \in 1..Len(saves) :
                    m < D /\ saves[q].name = frames[m].sp => q < p
  BY <1>2, SavepointOfCall
<1>4. /\ frames' \in Seq(Frame) /\ Len(frames') = D - 1
      /\ \A n \in 1..D - 1 : frames'[n] = frames[n]
  BY <1>1, InnermostCall DEF ReturnNil
<1>5. /\ due' \in Seq(SUBSET Writes) /\ Len(due') = D - 1
      /\ \A n \in 1..D - 2 : due'[n] = due[n]
      /\ Below(due', D - 1) = Below(due, D)
  <2>1. due' = [Front(due) EXCEPT ![D - 1] = @ \cup Last(due)]
    BY DEF ReturnNil, Depth
  <2> QED BY <1>1, <2>1, MergedDue
<1>6. /\ saves' = SubSeq(saves, 1, p - 1) /\ tx' = tx /\ log' = log
      /\ globalSpID' = globalSpID /\ committed' = committed /\ undone' = undone
  BY <1>2, <1>3 DEF ReleaseSavepoint, ReturnNil
<1>7. Len(saves) \in Nat /\ p \in Nat /\ p - 1 \in Nat /\ p - 1 <= Len(saves)
  BY <1>3, Lengths DEF IInv
<1>8. /\ saves' \in Seq(Save) /\ Len(saves') = p - 1
      /\ \A q \in 1..p - 1 : saves'[q] = saves[q]
  <2>1. saves \in Seq(Save)
    BY DEF IInv, TypeOK
  <2>2. /\ SubSeq(saves, 1, p - 1) \in Seq(Save) /\ Len(SubSeq(saves, 1, p - 1)) = p - 1
        /\ \A q \in 1..p - 1 : SubSeq(saves, 1, p - 1)[q] = saves[q]
    BY <1>7, <2>1, SubSeqPrefix
  <2> QED BY <1>6, <2>2
<1>9. TypeOK'
  BY <1>4, <1>5, <1>6, <1>8 DEF IInv, TypeOK
<1>10. Savepoints'
  <2>1. \A q \in 1..p - 1 : q \in 1..Len(saves)
    BY <1>7
  <2> QED BY <1>6, <1>8, <2>1 DEF IInv, Savepoints
<1>11. Nesting'
  <2>1. \A n \in 1..Len(frames') - 1 : due'[n] = due[n]
    <3>1. (D - 1) - 1 = D - 2
      BY <1>2
    <3> QED BY <1>4, <1>5, <3>1
  <2>2. \A q \in 1..Len(saves), n \in 2..Len(frames') :
            saves[q].name = frames[n].sp => q <= Len(saves')
    <3>1. \A n \in 2..Len(frames') : n \in 2..D /\ n < D
      BY <1>2, <1>4
    <3>2. \A q \in 1..Len(saves) : q < p => q <= p - 1
      BY <1>7
    <3> QED BY <1>3, <1>8, <3>1, <3>2
  <2>3. Len(frames') <= Len(frames) /\ Len(saves') <= Len(saves)
    BY <1>2, <1>4, <1>7, <1>8
  <2>4. \A n \in 1..Len(frames') : frames'[n].sp = frames[n].sp
    BY <1>4
  <2>5. \A q \in 1..Len(saves') : saves'[q] = saves[q]
    BY <1>8
  <2> QED BY <1>6, <1>9, <2>1, <2>2, <2>3, <2>4, <2>5, NestingKept
<1>12. Matches'
  <2>1. Prefix(log, Len(log)) = Below(due, D)
    BY <1>1, <1>2 DEF IInv, Matches
  <2> QED BY <1>5, <1>6, <2>1 DEF Matches
<1>13. Calls'
  BY <1>4, <1>5, <1>6 DEF Calls
<1> QED BY <1>9, <1>10, <1>11, <1>12, <1>13 DEF IInv

LEMMA NestedFnFailsStep ==
    ASSUME IInv, NestedFnFails
    PROVE  IInv'
<1>1. frames # <<>>
  BY DEF IInv, TypeOK, NestedFnFails, Depth
<1> QED BY <1>1, RollbackStep, ReturnUnchanged DEF NestedFnFails

LEMMA NestedFnSucceedsStep ==
    ASSUME IInv, NestedFnSucceeds
    PROVE  IInv'
<1>1. frames # <<>>
  BY DEF IInv, TypeOK, NestedFnSucceeds, Depth
<1> QED BY <1>1, ReleaseStep, ReturnUnchanged DEF NestedFnSucceeds

\* The outermost call returns.
LEMMA OutermostStep ==
    ASSUME IInv, FnFails \/ FnSucceeds
    PROVE  IInv'
<1>1. frames # <<>> /\ Len(frames) = 1
  BY DEF IInv, TypeOK, FnFails, FnSucceeds, Depth
<1>2. /\ tx' = "none" /\ log' = <<>> /\ saves' = <<>> /\ globalSpID' = globalSpID
      /\ committed' = committed \/ committed' = committed \cup ToSet(log)
      /\ \/ ReturnError
         \/ frames' = <<>> /\ due' = <<>> /\ undone' = undone
  BY DEF FnFails, FnSucceeds
<1>3. committed' \subseteq Writes
  <2>1. ToSet(log) \subseteq Writes
    BY DEF IInv, TypeOK, ToSet
  <2> QED BY <1>2, <2>1 DEF IInv, TypeOK
<1>4. /\ frames' \in Seq(Frame) /\ Len(frames') = 0 /\ due' \in Seq(SUBSET Writes)
      /\ Len(due') = 0 /\ undone' \subseteq Writes
  <2>1. CASE ReturnError
    <3>1. undone' \subseteq Writes
      BY <1>1, <2>1, InnermostCall DEF ReturnError, IInv, TypeOK
    <3> QED BY <1>1, <2>1, <3>1, InnermostCall DEF ReturnError
  <2>2. CASE frames' = <<>> /\ due' = <<>> /\ undone' = undone
    BY <2>2 DEF IInv, TypeOK
  <2> QED BY <1>2, <2>1, <2>2
<1>5. /\ log' \in Seq(Writes) /\ saves' \in Seq(Save) /\ Len(saves') = 0
  BY <1>2
<1>6. TypeOK'
  BY <1>2, <1>3, <1>4, <1>5 DEF IInv, TypeOK
<1>7. frames' = <<>>
  BY <1>4
<1> QED BY <1>2, <1>4, <1>5, <1>6, <1>7 DEF IInv, Calls, Savepoints, Nesting, Matches

\* A panic leaves the transaction and its savepoints behind, and no calls.
LEMMA FnPanicsStep ==
    ASSUME IInv, FnPanics
    PROVE  IInv'
<1>1. /\ frames' = <<>> /\ due' = <<>> /\ undone' = undone \cup UNION ToSet(due)
      /\ UNCHANGED <<tx, log, saves, globalSpID, committed>>
  BY DEF FnPanics, txVars
<1>2. undone' \subseteq Writes
  <2>1. due \in Seq(SUBSET Writes) /\ undone \subseteq Writes
    BY DEF IInv, TypeOK
  <2>2. ToSet(due) \subseteq SUBSET Writes
    BY <2>1 DEF ToSet
  <2> QED BY <1>1, <2>1, <2>2
<1>3. /\ frames' \in Seq(Frame) /\ due' \in Seq(SUBSET Writes)
      /\ Len(frames') = 0 /\ Len(due') = 0
  BY <1>1
<1>4. TypeOK'
  BY <1>1, <1>2, <1>3 DEF IInv, TypeOK
<1>5. Savepoints'
  BY <1>1 DEF IInv, Savepoints
<1>6. Nesting' /\ Matches' /\ Calls'
  BY <1>1, <1>3 DEF Nesting, Matches, Calls
<1> QED BY <1>4, <1>5, <1>6 DEF IInv

\* Contexts end: the frames keep their savepoints.
LEMMA ExpiredFrames ==
    ASSUME IInv,
           frames' = [m \in DOMAIN frames |-> frames'[m]],
           \A m \in DOMAIN frames : \/ frames'[m] = frames[m]
                                    \/ frames'[m] = [frames[m] EXCEPT !.expired = TRUE]
    PROVE  /\ frames' \in Seq(Frame) /\ Len(frames') = Len(frames)
           /\ \A n \in 1..Len(frames) : frames'[n].sp = frames[n].sp
<1>1. /\ frames \in Seq(Frame) /\ DOMAIN frames = 1..Len(frames) /\ Len(frames) \in Nat
      /\ \A n \in 1..Len(frames) : frames[n] \in Frame
  BY DEF IInv, TypeOK
<1>2. \A f \in Frame : [f EXCEPT !.expired = TRUE] \in Frame
                       /\ [f EXCEPT !.expired = TRUE].sp = f.sp
  BY DEF Frame
<1>3. \A n \in 1..Len(frames) : frames'[n] \in Frame /\ frames'[n].sp = frames[n].sp
  BY <1>1, <1>2
<1>4. frames' = [n \in 1..Len(frames) |-> frames'[n]]
  BY <1>1
<1> QED BY <1>1, <1>3, <1>4

LEMMA CtxDoneStep ==
    ASSUME IInv, CtxDone
    PROVE  IInv'
<1>1. /\ tx' = (IF frames = <<>> THEN "none" ELSE "dead") /\ log' = <<>> /\ saves' = <<>>
      /\ UNCHANGED <<globalSpID, committed, due, undone>>
  BY DEF CtxDone
<1>2. frames' \in Seq(Frame) /\ Len(frames') = Len(frames)
  <2>1. /\ frames' = [m \in DOMAIN frames |-> frames'[m]]
        /\ \A m \in DOMAIN frames : frames'[m] = [frames[m] EXCEPT !.expired = TRUE]
    BY Zenon DEF CtxDone
  <2> QED BY <2>1, ExpiredFrames
<1>3. log' \in Seq(Writes) /\ saves' \in Seq(Save) /\ Len(saves') = 0
  BY <1>1
<1>4. TypeOK'
  BY <1>1, <1>2, <1>3 DEF IInv, TypeOK
<1>5. Calls'
  <2>1. frames = <<>> => frames' = <<>>
    BY <1>2 DEF IInv, TypeOK
  <2> QED BY <1>1, <1>2, <2>1 DEF IInv, Calls
<1>6. Savepoints' /\ Nesting' /\ Matches'
  BY <1>1, <1>3 DEF Savepoints, Nesting, Matches
<1> QED BY <1>4, <1>5, <1>6 DEF IInv

LEMMA NestedCtxDoneStep ==
    ASSUME IInv, NEW n \in DOMAIN frames, NestedCtxDone(n)
    PROVE  IInv'
<1>1. UNCHANGED <<tx, log, saves, globalSpID, committed, due, undone>>
  BY DEF NestedCtxDone, txVars
<1>2. /\ frames' \in Seq(Frame) /\ Len(frames') = Len(frames)
      /\ \A m \in 1..Len(frames) : frames'[m].sp = frames[m].sp
  <2>1. /\ frames' = [m \in DOMAIN frames |-> frames'[m]]
        /\ \A m \in DOMAIN frames : \/ frames'[m] = frames[m]
                                    \/ frames'[m] = [frames[m] EXCEPT !.expired = TRUE]
    BY Zenon DEF NestedCtxDone
  <2> QED BY <2>1, ExpiredFrames
<1>3. TypeOK'
  BY <1>1, <1>2 DEF IInv, TypeOK
<1>4. frames' = <<>> <=> frames = <<>>
  BY <1>2 DEF IInv, TypeOK
<1>5. Calls' /\ Savepoints' /\ Matches'
  BY <1>1, <1>2, <1>4 DEF IInv, Calls, Savepoints, Matches
<1>6. Nesting'
  <2>1. \A m \in 2..Len(frames) : frames'[m].sp = frames[m].sp
    BY <1>2, Lengths DEF IInv
  <2> QED BY <1>1, <1>2, <2>1 DEF IInv, Nesting
<1> QED BY <1>3, <1>5, <1>6 DEF IInv

LEMMA StutterStep ==
    ASSUME IInv, UNCHANGED vars
    PROVE  IInv'
BY DEF vars, txVars, IInv, TypeOK, Calls, Savepoints, Nesting, Matches

\* The inductive invariant holds whatever fails, panics or times out.
THEOREM Invariance == Spec => []IInv
<1>1. IInv /\ [Next]_vars => IInv'
  BY RunNewTxStep, RunSavepointStep, WriteStep, WriteFailsStep, NestedFnFailsStep,
     NestedFnSucceedsStep, OutermostStep, FnPanicsStep, CtxDoneStep, NestedCtxDoneStep,
     StutterStep DEF Next
<1> QED BY <1>1, InitIInv, PTL DEF Spec

\* A transaction of RunInTx (db/tx.go) that can be committed holds exactly the
\* writes of the calls that succeeded or are still open.
THEOREM TxMgrLogMatchesCalls == Spec => []LogMatchesCalls
<1>1. IInv => LogMatchesCalls
  BY WholeSequences DEF IInv, Matches, LogMatchesCalls
<1> QED BY <1>1, Invariance, PTL
-----------------------------------------------------------------------------
(* Refinement *)

\* Commit publishes what the outermost call answers for.
LEMMA CommitRefines ==
    ASSUME IInv, Len(frames) = 1, tx = "open"
    PROVE  ToSet(log) = due[1] /\ Len(due) = 1
<1>1. Len(due) = 1 /\ frames # <<>>
  <2>1. frames # <<>>
    OBVIOUS
  <2> QED BY <2>1 DEF IInv, Calls
<1>2. ToSet(log) = Below(due, 1)
  BY <1>1, WholeSequences DEF IInv, Matches
<1>3. Below(due, 1) = due[1]
  <2>1. {due[m] : m \in 1..1} = {due[1]}
    OBVIOUS
  <2> QED BY <2>1 DEF Below
<1> QED BY <1>1, <1>2, <1>3

LEMMA ReturnRefines ==
    ASSUME IInv, frames # <<>>, committed' = committed
    PROVE  /\ ReturnError => Nested!Fail
           /\ Depth > 1 /\ (ReturnNil \/ ReturnErrorKept) => Nested!Succeed
<1>1. Len(due) = Len(frames) /\ due # <<>>
  <2>1. Len(due) = Len(frames) /\ Len(frames) >= 1
    BY InnermostCall
  <2> QED BY <2>1
<1>2. Nested!Front(due) = Front(due) /\ Nested!Last(due) = Last(due)
  BY DEF Front, Last, Nested!Front, Nested!Last
<1> QED BY <1>1, <1>2
    DEF ReturnError, ReturnNil, ReturnErrorKept, Depth, Nested!Fail, Nested!Succeed

LEMMA StepRefines ==
    ASSUME IInv, Next
    PROVE  Nested!Next \/ UNCHANGED Nested!vars
<1> USE DEF Nested!vars
<1>1. CASE RunNewTx
  <2>1. due = <<>>
    BY <1>1 DEF RunNewTx, IInv, Calls, TypeOK
  <2>2. due' = Append(due, {})
    BY <1>1, <2>1 DEF RunNewTx
  <2> QED BY <1>1, <2>2 DEF RunNewTx, Nested!Next, Nested!Begin
<1>2. CASE RunSavepoint
  BY <1>2 DEF RunSavepoint, Nested!Next, Nested!Begin
<1>3. ASSUME NEW w \in Writes, Write(w)
      PROVE  Nested!Next
  <2>1. Len(due) = Len(frames) /\ due # <<>>
    BY <1>3, InnermostCall DEF Write, IInv, TypeOK
  <2> QED BY <1>3, <2>1 DEF Write, Depth, Nested!Next, Nested!Write
<1>4. CASE NestedFnFails \/ NestedFnSucceeds
  <2>1. frames # <<>> /\ committed' = committed /\ Depth > 1
    BY <1>4 DEF NestedFnFails, NestedFnSucceeds, Depth, IInv, TypeOK
  <2>2. ReturnError \/ ReturnNil \/ ReturnErrorKept
    BY <1>4 DEF NestedFnFails, NestedFnSucceeds
  <2> QED BY <2>1, <2>2, ReturnRefines DEF Nested!Next
<1>5. CASE FnFails
  <2>1. frames # <<>>
    <3>1. Len(frames) = 1
      BY <1>5 DEF FnFails, Depth
    <3> QED BY <3>1
  <2> QED BY <1>5, <2>1, ReturnRefines DEF FnFails, Nested!Next
<1>6. CASE FnSucceeds
  <2>1. frames # <<>> /\ Len(frames) = 1
    <3>1. Len(frames) = 1
      BY <1>6 DEF FnSucceeds, Depth
    <3> QED BY <3>1
  <2>2. CASE tx = "open" /\ committed' = committed \cup ToSet(log) /\ due' = <<>>
    BY <2>1, <2>2, CommitRefines DEF Nested!Next, Nested!Succeed
  <2>3. CASE ReturnError /\ committed' = committed
    BY <2>1, <2>3, ReturnRefines DEF Nested!Next
  <2> QED BY <1>6, <2>2, <2>3 DEF FnSucceeds
<1>7. CASE FnPanics
  <2>1. due # <<>>
    BY <1>7, InnermostCall DEF FnPanics, IInv, TypeOK
  <2> QED BY <1>7, <2>1 DEF FnPanics, Nested!Next, Nested!Abandon
<1>8. CASE WriteFails \/ CtxDone \/ \E n \in DOMAIN frames : NestedCtxDone(n)
  BY <1>8 DEF WriteFails, CtxDone, NestedCtxDone
<1> QED BY <1>1, <1>2, <1>3, <1>4, <1>5, <1>6, <1>7, <1>8 DEF Next

\* RunInTx over one connection, one log and savepoints (db/tx.go) implements
\* nested transactions, each with writes of its own.
THEOREM TxMgrImplementsNestedTx == Spec => ImplementsNestedTx
<1>1. Init => Nested!Init
  BY DEF Init, Nested!Init
<1>2. IInv /\ [Next]_vars => [Nested!Next]_Nested!vars
  BY StepRefines DEF vars, txVars, Nested!vars
<1> QED BY <1>1, <1>2, Invariance, PTL DEF Spec, ImplementsNestedTx, Nested!Spec
=============================================================================
