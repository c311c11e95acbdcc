---------------------------- MODULE OutputProofs ----------------------------
(***************************************************************************)
(* Proofs about output buffering (Output), for any number of levels and of *)
(* bytes, any chunk sizes and flags, and the three kinds of error handler. *)
(*                                                                         *)
(* Three invariants, in the order in which they are proved:                *)
(*   FlagsInv   which callbacks run, and on which level                    *)
(*   OrderInv   the bytes of every level, and of an operation that waits   *)
(*              for the error handler, in the order they were echoed       *)
(*   AloneInv   without an error handler that uses output buffering: where *)
(*              every byte is, and which levels were told they are over    *)
(***************************************************************************)
EXTENDS Output, FiniteSetTheorems, TLAPS

(***************************************************************************)
(* Sequences.                                                              *)
(***************************************************************************)

(* What Front and Last of a sequence that is not empty are. *)
LEMMA FrontIs ==
    ASSUME NEW S, NEW s \in Seq(S), s # <<>>
    PROVE  /\ Len(s) \in Nat \ {0}
           /\ Front(s) \in Seq(S)
           /\ Len(Front(s)) = Len(s) - 1
           /\ \A i \in 1 .. Len(s) - 1 : Front(s)[i] = s[i]
           /\ Last(s) = s[Len(s)] /\ Last(s) \in S
<1>1. Len(s) \in Nat \ {0}
  OBVIOUS
<1>2. Last(s) = s[Len(s)] /\ Last(s) \in S
  BY <1>1 DEF Last
<1> DEFINE m == Len(s) - 1
           f == SubSeq(s, 1, m)
<1>3. m \in Nat /\ m <= Len(s)
  BY <1>1
<1>4. f \in Seq(S) /\ Len(f) = m /\ \A i \in 1 .. m : f[i] = s[i]
  <2> HIDE DEF m
  <2> QED
    BY <1>3
<1>5. Front(s) = f
  BY DEF Front
<1> QED
  BY <1>1, <1>2, <1>4, <1>5

(* What Append gives. *)
LEMMA AppendIs ==
    ASSUME NEW S, NEW s \in Seq(S), NEW x \in S
    PROVE  /\ Append(s, x) \in Seq(S)
           /\ Len(Append(s, x)) = Len(s) + 1
           /\ DOMAIN Append(s, x) = 1 .. Len(s) + 1
           /\ \A i \in 1 .. Len(s) : Append(s, x)[i] = s[i]
           /\ Append(s, x)[Len(s) + 1] = x
           /\ Append(s, x) # <<>>
  OBVIOUS

(* WithTop replaces the last element. *)
LEMMA WithTopIs ==
    ASSUME NEW S, NEW s \in Seq(S), s # <<>>, NEW x \in S
    PROVE  /\ WithTop(s, x) \in Seq(S)
           /\ Len(WithTop(s, x)) = Len(s)
           /\ WithTop(s, x) # <<>>
           /\ \A i \in 1 .. Len(s) - 1 : WithTop(s, x)[i] = s[i]
           /\ WithTop(s, x)[Len(s)] = x
<1>1. /\ Len(s) \in Nat \ {0} /\ Front(s) \in Seq(S) /\ Len(Front(s)) = Len(s) - 1
      /\ \A i \in 1 .. Len(s) - 1 : Front(s)[i] = s[i]
  BY FrontIs
<1>2. /\ WithTop(s, x) \in Seq(S) /\ Len(WithTop(s, x)) = Len(Front(s)) + 1
      /\ \A i \in 1 .. Len(Front(s)) : WithTop(s, x)[i] = Front(s)[i]
      /\ WithTop(s, x)[Len(Front(s)) + 1] = x /\ WithTop(s, x) # <<>>
  BY <1>1, AppendIs DEF WithTop
<1> QED
  BY <1>1, <1>2

(* What the concatenation of two sequences is. *)
LEMMA ConcatIs ==
    ASSUME NEW S, NEW s \in Seq(S), NEW t \in Seq(S)
    PROVE  /\ s \o t \in Seq(S)
           /\ Len(s \o t) = Len(s) + Len(t)
           /\ \A i \in 1 .. Len(s) : (s \o t)[i] = s[i]
           /\ \A i \in 1 .. Len(t) : (s \o t)[Len(s) + i] = t[i]
  OBVIOUS

(* One element replaced. *)
LEMMA ExceptIs ==
    ASSUME NEW S, NEW s \in Seq(S), NEW x \in S, NEW n \in DOMAIN s
    PROVE  /\ [s EXCEPT ![n] = x] \in Seq(S)
           /\ Len([s EXCEPT ![n] = x]) = Len(s)
           /\ \A i \in 1 .. Len(s) : [s EXCEPT ![n] = x][i] = IF i = n THEN x ELSE s[i]
  OBVIOUS

(* An index of a concatenation is one of its first part or of its second. *)
LEMMA ConcatAt ==
    ASSUME NEW S, NEW s \in Seq(S), NEW t \in Seq(S), NEW i \in DOMAIN (s \o t)
    PROVE  \/ i \in DOMAIN s /\ (s \o t)[i] = s[i]
           \/ i - Len(s) \in DOMAIN t /\ (s \o t)[i] = t[i - Len(s)]
  OBVIOUS

(* The bytes of a concatenation. *)
LEMMA ConcatSet ==
    ASSUME NEW S, NEW s \in Seq(S), NEW t \in Seq(S)
    PROVE  ToSet(s \o t) = ToSet(s) \cup ToSet(t)
<1>1. ASSUME NEW x \in ToSet(s \o t) PROVE x \in ToSet(s) \cup ToSet(t)
  <2>1. PICK i \in DOMAIN (s \o t) : (s \o t)[i] = x
    BY <1>1 DEF ToSet
  <2> QED
    BY <2>1, ConcatAt DEF ToSet
<1>2. ASSUME NEW x \in ToSet(s) PROVE x \in ToSet(s \o t)
  <2>1. PICK i \in DOMAIN s : s[i] = x
    BY <1>2 DEF ToSet
  <2>2. i \in DOMAIN (s \o t) /\ (s \o t)[i] = x
    BY <2>1
  <2> QED
    BY <2>2 DEF ToSet
<1>3. ASSUME NEW x \in ToSet(t) PROVE x \in ToSet(s \o t)
  <2>1. PICK i \in DOMAIN t : t[i] = x
    BY <1>3 DEF ToSet
  <2>2. Len(s) + i \in DOMAIN (s \o t) /\ (s \o t)[Len(s) + i] = x
    BY <2>1
  <2> QED
    BY <2>2 DEF ToSet
<1> QED
  BY <1>1, <1>2, <1>3

(***************************************************************************)
(* The end of an operation.                                                *)
(***************************************************************************)

(* A level with other contents. *)
Data(b, d) == [b EXCEPT !.data = d]

LEMMA DataIs ==
    ASSUME NEW b \in BufferType, NEW d \in Seq(Byte)
    PROVE  /\ Data(b, d) \in BufferType
           /\ Data(b, d).data = d
           /\ Data(b, d).in_handler <=> b.in_handler
           /\ Data(b, d).finished <=> b.finished
  BY DEF Data, BufferType

LEMMA DataType == ASSUME NEW b \in BufferType PROVE b.data \in Seq(Byte)
  BY DEF BufferType

LEMMA NoData == <<>> \in Seq(Byte)
  OBVIOUS

(* t is in no handler, and was not told that it is over unless u was. *)
Idle(t, u) == ~t.in_handler /\ (t.finished => u.finished)

(* bs are the levels o, bs with the top one as a callback left it. *)
Under(bs0, bs) ==
    /\ bs0 # <<>> /\ Len(bs) = Len(bs0)
    /\ \A i \in 1 .. Len(bs0) - 1 : bs[i] = bs0[i]
    /\ Idle(bs[Len(bs)], bs0[Len(bs)])

(* op is done with the top level of bs: the levels below are as they were,
   apart from the next one, or stdout, which received out. *)
Settles(op, out, o, bs, o1, bs1) ==
    /\ bs # <<>>
    /\ Len(bs1) = (IF op \in Ends THEN Len(bs) - 1 ELSE Len(bs))
    /\ o1 = (IF op \notin Cleaning /\ Len(bs) = 1 THEN o \o out ELSE o)
    /\ \A i \in 1 .. Len(bs1) :
          IF i = Len(bs) THEN bs1[i].data = <<>> /\ Idle(bs1[i], bs[i])
          ELSE bs1[i] = IF op \notin Cleaning /\ i = Len(bs) - 1
                        THEN Data(bs[i], bs[i].data \o out) ELSE bs[i]

(* The levels of o, bs, some of them emptied. *)
Thinned(o, bs, o1, bs1) ==
    /\ o1 = o /\ Len(bs1) = Len(bs)
    /\ \A i \in 1 .. Len(bs) : bs1[i] = bs[i] \/ bs1[i] = Data(bs[i], <<>>)

LEMMA RemainingIs ==
    ASSUME NEW S, NEW bs \in Seq(S), bs # <<>>, NEW op
    PROVE  /\ Remaining(op, bs) \in Seq(S)
           /\ Len(Remaining(op, bs)) = (IF op \in Ends THEN Len(bs) - 1 ELSE Len(bs))
           /\ \A i \in 1 .. Len(Remaining(op, bs)) : Remaining(op, bs)[i] = bs[i]
<1>1. CASE op \in Ends
  BY <1>1, FrontIs DEF Remaining
<1>2. CASE op \notin Ends
  BY <1>2 DEF Remaining
<1> QED
  BY <1>1, <1>2

(* write_level appends to one level and changes nothing else. *)
LEMMA WriteLevelIs ==
    ASSUME NEW bs \in Seq(BufferType), NEW n \in 0 .. Len(bs), NEW out \in Seq(Byte),
           stdout \in Seq(Byte), WriteLevel(bs, n, out)
    PROVE  /\ stdout' = (IF n = 0 THEN stdout \o out ELSE stdout)
           /\ stdout' \in Seq(Byte)
           /\ buffers' \in Seq(BufferType) /\ Len(buffers') = Len(bs)
           /\ \A i \in 1 .. Len(bs) :
                 buffers'[i] = IF i = n THEN Data(bs[i], bs[i].data \o out) ELSE bs[i]
<1>1. stdout' = (IF n = 0 THEN stdout \o out ELSE stdout) /\ stdout' \in Seq(Byte)
  BY ConcatIs DEF WriteLevel
<1>2. CASE n = 0
  BY <1>1, <1>2 DEF WriteLevel
<1>3. CASE n # 0
  <2>1. /\ buffers' = [bs EXCEPT ![n].data = @ \o out]
        /\ n \in DOMAIN bs /\ bs[n] \in BufferType
    BY <1>3 DEF WriteLevel
  <2>2. bs[n].data \o out \in Seq(Byte)
    BY <2>1, ConcatIs, DataType
  <2> DEFINE b == Data(bs[n], bs[n].data \o out)
  <2>3. b \in BufferType
    BY <2>1, <2>2, DataIs
  <2>4. buffers' = [bs EXCEPT ![n] = b]
    BY <2>1 DEF Data
  <2>5. /\ buffers' \in Seq(BufferType) /\ Len(buffers') = Len(bs)
        /\ \A i \in 1 .. Len(bs) : buffers'[i] = IF i = n THEN b ELSE bs[i]
    <3>1. n \in DOMAIN bs
      BY <2>1
    <3> HIDE DEF b
    <3> QED
      BY <3>1, <2>3, <2>4, ExceptIs
  <2> QED
    BY <1>1, <1>3, <2>5
<1> QED
  BY <1>2, <1>3

(* ob_clean_top on the level it was called for: that level is emptied, or
   goes. *)
LEMMA CleanIs ==
    ASSUME NEW bs \in Seq(BufferType), bs # <<>>, NEW op, NEW n, Clean(op, n, bs)
    PROVE  /\ stdout' = stdout
           /\ buffers' \in Seq(BufferType)
           /\ Len(buffers') = (IF n = Len(bs) /\ op \in Ends THEN Len(bs) - 1 ELSE Len(bs))
           /\ \A i \in 1 .. Len(buffers') :
                 buffers'[i] = IF i = Len(bs) THEN Data(bs[i], <<>>) ELSE bs[i]
<1> DEFINE top == Data(Last(bs), <<>>)
           empty == WithTop(bs, top)
<1>1. Len(bs) \in Nat \ {0} /\ Last(bs) = bs[Len(bs)] /\ Last(bs) \in BufferType
  BY FrontIs
<1>2. top \in BufferType
  BY <1>1, NoData, DataIs
<1>3. /\ empty \in Seq(BufferType) /\ Len(empty) = Len(bs) /\ empty # <<>>
      /\ \A i \in 1 .. Len(bs) - 1 : empty[i] = bs[i]
      /\ empty[Len(bs)] = top
  <2> HIDE DEF top
  <2> QED
    BY <1>2, WithTopIs
<1>4. /\ Remaining(op, empty) \in Seq(BufferType)
      /\ Len(Remaining(op, empty)) = (IF op \in Ends THEN Len(bs) - 1 ELSE Len(bs))
      /\ \A i \in 1 .. Len(Remaining(op, empty)) : Remaining(op, empty)[i] = empty[i]
  <2> HIDE DEF empty
  <2> QED
    BY <1>3, RemainingIs
<1>5. stdout' = stdout /\ buffers' = (IF Len(bs) = n THEN Remaining(op, empty) ELSE empty)
  BY DEF Clean, Data
<1> HIDE DEF empty
<1>6. \A i \in 1 .. Len(bs) :
         empty[i] = IF i = Len(bs) THEN Data(bs[i], <<>>) ELSE bs[i]
  BY <1>1, <1>3
<1> HIDE DEF top
<1> QED
  BY <1>1, <1>3, <1>4, <1>5, <1>6

(* An operation whose level is still there settles it. *)
LEMMA FinishSettles ==
    ASSUME NEW bs0 \in Seq(BufferType), NEW bs \in Seq(BufferType), Under(bs0, bs),
           NEW op \in Op, NEW out \in Seq(Byte), stdout \in Seq(Byte),
           op \notin Ends \cup Cleaning => bs[Len(bs)].data = <<>>,
           Finish(op, Len(bs0), out, bs)
    PROVE  /\ Settles(op, out, stdout, bs0, stdout', buffers')
           /\ stdout' \in Seq(Byte) /\ buffers' \in Seq(BufferType)
<1> DEFINE n == Len(bs)
           left == Remaining(op, bs)
<1>1. bs # <<>> /\ n \in Nat \ {0} /\ Len(bs0) = n /\ bs0 # <<>> /\ n \in DOMAIN bs
  BY DEF Under
<1>2. \A i \in 1 .. n - 1 : bs[i] = bs0[i]
  BY <1>1 DEF Under
<1>3. Idle(bs[n], bs0[n]) /\ bs[n] \in BufferType
  BY <1>1 DEF Under
<1>4. CASE op \in Cleaning
  <2>1. Clean(op, n, bs)
    BY <1>1, <1>4 DEF Finish
  <2>2. /\ stdout' = stdout /\ buffers' \in Seq(BufferType)
        /\ Len(buffers') = (IF op \in Ends THEN n - 1 ELSE n)
        /\ \A i \in 1 .. Len(buffers') :
              buffers'[i] = IF i = n THEN Data(bs[i], <<>>) ELSE bs[i]
    BY <2>1, <1>1, CleanIs
  <2>3. Data(bs[n], <<>>).data = <<>> /\ Idle(Data(bs[n], <<>>), bs0[n])
    BY <1>3, NoData, DataIs DEF Idle
  <2>4. \A i \in 1 .. Len(buffers') : i # n => i \in 1 .. n - 1
    BY <1>1, <2>2 DEF n
  <2>5. \A i \in 1 .. Len(buffers') :
          IF i = n THEN buffers'[i].data = <<>> /\ Idle(buffers'[i], bs0[i])
          ELSE buffers'[i] = bs0[i]
    BY <1>2, <2>2, <2>3, <2>4
  <2> HIDE DEF n
  <2> QED
    BY <1>1, <1>4, <2>2, <2>5 DEF Settles
<1>5. CASE op \notin Cleaning
  <2>1. WriteLevel(left, n - 1, out)
    BY <1>1, <1>5 DEF Finish
  <2>2. /\ left \in Seq(BufferType)
        /\ Len(left) = (IF op \in Ends THEN n - 1 ELSE n)
        /\ \A i \in 1 .. Len(left) : left[i] = bs[i]
    BY <1>1, RemainingIs
  <2> HIDE DEF left
  <2>3. n - 1 \in 0 .. Len(left)
    BY <1>1, <2>2
  <2> HIDE DEF n
  <2>4. /\ stdout' = (IF n - 1 = 0 THEN stdout \o out ELSE stdout)
        /\ stdout' \in Seq(Byte)
        /\ buffers' \in Seq(BufferType) /\ Len(buffers') = Len(left)
        /\ \A i \in 1 .. Len(left) :
              buffers'[i] = IF i = n - 1 THEN Data(left[i], left[i].data \o out) ELSE left[i]
    <3> DEFINE m == n - 1
    <3>1. m \in 0 .. Len(left) /\ WriteLevel(left, m, out)
      BY <2>1, <2>3
    <3> HIDE DEF m
    <3>2. /\ stdout' = (IF m = 0 THEN stdout \o out ELSE stdout)
          /\ stdout' \in Seq(Byte)
          /\ buffers' \in Seq(BufferType) /\ Len(buffers') = Len(left)
          /\ \A i \in 1 .. Len(left) :
                buffers'[i] = IF i = m THEN Data(left[i], left[i].data \o out) ELSE left[i]
      BY <2>2, <3>1, WriteLevelIs
    <3> QED
      BY <3>2 DEF m
  <2>5. \A i \in 1 .. Len(buffers') :
           buffers'[i] = IF i = n - 1 THEN Data(bs[i], bs[i].data \o out) ELSE bs[i]
    BY <2>2, <2>4
  <2>6. Len(buffers') = (IF op \in Ends THEN n - 1 ELSE n)
    BY <2>2, <2>4
  <2>7. stdout' = IF n = 1 THEN stdout \o out ELSE stdout
    BY <1>1, <2>4
  <2>8. \A i \in 1 .. Len(buffers') : i = n => bs[n].data = <<>>
    BY <1>1, <1>5, <2>6 DEF n
  <2>9. \A i \in 1 .. Len(buffers') :
          IF i = n THEN buffers'[i].data = <<>> /\ Idle(buffers'[i], bs0[i])
          ELSE buffers'[i] = IF i = n - 1
                             THEN Data(bs0[i], bs0[i].data \o out) ELSE bs0[i]
    <3>1. \A i \in 1 .. Len(buffers') : i # n => i \in 1 .. n - 1
      BY <1>1, <2>6 DEF n
    <3>2. \A i \in 1 .. Len(buffers') : i = n => buffers'[i] = bs[n]
      BY <1>1, <2>5
    <3> QED
      BY <1>2, <1>3, <2>5, <2>8, <3>1, <3>2
  <2> QED
    BY <1>1, <1>5, <2>4, <2>6, <2>7, <2>9 DEF Settles
<1> QED
  BY <1>4, <1>5

(* An operation whose level is not there any more empties a level, or does
   nothing. *)
LEMMA FinishThins ==
    ASSUME NEW bs \in Seq(BufferType), NEW op \in Op, NEW n \in Nat, n # Len(bs), NEW out,
           stdout \in Seq(Byte), Finish(op, n, out, bs)
    PROVE  /\ Thinned(stdout, bs, stdout', buffers')
           /\ stdout' \in Seq(Byte) /\ buffers' \in Seq(BufferType)
<1>1. CASE op \in Cleaning /\ bs # <<>>
  <2>1. Clean(op, n, bs)
    BY <1>1 DEF Finish
  <2>2. /\ stdout' = stdout /\ buffers' \in Seq(BufferType) /\ Len(buffers') = Len(bs)
        /\ \A i \in 1 .. Len(buffers') :
              buffers'[i] = IF i = Len(bs) THEN Data(bs[i], <<>>) ELSE bs[i]
    BY <2>1, <1>1, CleanIs
  <2> QED
    BY <2>2 DEF Thinned
<1>2. CASE op \in Cleaning /\ bs = <<>>
  <2>1. stdout' = stdout /\ buffers' = bs
    BY <1>2 DEF Finish, Clean
  <2> QED
    BY <2>1 DEF Thinned
<1>3. CASE op \notin Cleaning
  <2>1. stdout' = stdout /\ buffers' = bs
    BY <1>3 DEF Finish
  <2> QED
    BY <2>1 DEF Thinned
<1> QED
  BY <1>1, <1>2, <1>3

(***************************************************************************)
(* What the operations do to the record of a level.                        *)
(***************************************************************************)
LEMMA BufferIs ==
    ASSUME NEW b \in BufferType
    PROVE  /\ b.data \in Seq(Byte)
           /\ b.in_handler \in BOOLEAN /\ b.finished \in BOOLEAN /\ b.disabled \in BOOLEAN
  BY DEF BufferType

(* ob_process calls its handler. *)
Entered(b, op) == [b EXCEPT !.in_handler = TRUE, !.produced = FALSE,
                            !.finished = @ \/ op \in Ends]

LEMMA EnteredIs ==
    ASSUME NEW b \in BufferType, NEW op
    PROVE  /\ Entered(b, op) \in BufferType
           /\ Entered(b, op).data = b.data /\ Entered(b, op).in_handler
           /\ Entered(b, op).finished <=> (b.finished \/ op \in Ends)
  BY DEF BufferType, Entered

(* Its handler prints. *)
Produced(b) == [b EXCEPT !.produced = TRUE]

LEMMA ProducedIs ==
    ASSUME NEW b \in BufferType
    PROVE  /\ Produced(b) \in BufferType /\ Produced(b).data = b.data
           /\ Produced(b).in_handler <=> b.in_handler
           /\ Produced(b).finished <=> b.finished
  BY DEF BufferType, Produced

(* Its handler returns. *)
Returned(b, value) ==
    [b EXCEPT !.in_handler = FALSE, !.produced = FALSE, !.data = <<>>,
              !.disabled = @ \/ value = "false"]

LEMMA ReturnedIs ==
    ASSUME NEW b \in BufferType, NEW value
    PROVE  /\ Returned(b, value) \in BufferType
           /\ Returned(b, value).data = <<>> /\ ~Returned(b, value).in_handler
           /\ Returned(b, value).finished <=> b.finished
<1>1. (b.disabled \/ value = "false") \in BOOLEAN
  OBVIOUS
<1> QED
  BY <1>1, NoData DEF BufferType, Returned

(* Its handler throws. *)
Thrown(b) == [b EXCEPT !.in_handler = FALSE, !.disabled = TRUE]

LEMMA ThrownIs ==
    ASSUME NEW b \in BufferType
    PROVE  /\ Thrown(b) \in BufferType
           /\ Thrown(b).data = b.data /\ ~Thrown(b).in_handler
           /\ Thrown(b).finished <=> b.finished
  BY DEF BufferType, Thrown

(* Its handler exits. *)
Exited(b) == [b EXCEPT !.in_handler = FALSE, !.disabled = TRUE, !.data = <<>>]

LEMMA ExitedIs ==
    ASSUME NEW b \in BufferType
    PROVE  /\ Exited(b) \in BufferType
           /\ Exited(b).data = <<>> /\ ~Exited(b).in_handler
           /\ Exited(b).finished <=> b.finished
  BY NoData DEF BufferType, Exited

(* ob_start makes it. *)
LEMMA FreshIs ==
    ASSUME NEW callback \in BOOLEAN, NEW chunk \in Chunk, NEW flags \in Flags
    PROVE  LET t == ObBuffer(callback, chunk, flags)
           IN  t \in BufferType /\ t.data = <<>> /\ ~t.in_handler /\ ~t.finished
  BY NoData DEF BufferType, ObBuffer

LEMMA CallIs ==
    ASSUME NEW c \in CallType
    PROVE  /\ c.call \in {"handler", "error"} /\ c.op \in Op
           /\ c.n \in 1 .. MaxLevel /\ c.n \in Nat /\ c.out \in Seq(Byte)
  BY DEF CallType, BoundAssumption

(***************************************************************************)
(* The invariants.                                                         *)
(***************************************************************************)

(* A handler runs in the top level, on what that level held when it was
   called, and no other level is in a handler; a handler called by another
   callback was called by the error handler; shutting down leaves no level. *)
FlagsInv ==
    /\ Len(calls) = 2 => calls[1].call = "error" /\ calls[2].call = "handler"
    /\ \A i \in 1 .. Len(buffers) :
          buffers[i].in_handler <=> HandlerRuns /\ i = Len(buffers)
    /\ HandlerRuns => Len(buffers) = Call.n /\ Call.out = Top.data
    /\ deactivated => buffers = <<>>

UpTo(s, m) == \A i \in DOMAIN s : s[i] <= m

(* c is an operation that waits for the error handler: what it passes on was
   echoed after what is below its level, and there is nothing above. *)
Held(out, bs, c) ==
    /\ Increasing(c.out)
    /\ \A i \in 0 .. Len(bs) :
          IF i < c.n THEN Before(At(out, bs, i), c.out) ELSE At(out, bs, i) = <<>>

(* No byte has a number that was not given, nor is out of place. *)
OrderInv ==
    /\ InLine(stdout, buffers)
    /\ \A i \in 0 .. Len(buffers) : UpTo(At(stdout, buffers, i), printed)
    /\ \A i \in 1 .. Len(calls) : calls[i].call = "error" =>
          Held(stdout, buffers, calls[i]) /\ UpTo(calls[i].out, printed)

Inv == TypeOK /\ FlagsInv /\ OrderInv

LEMMA LevelIs ==
    ASSUME TypeOK, buffers # <<>>
    PROVE  /\ Len(buffers) \in 1 .. MaxLevel /\ Len(buffers) \in Nat
           /\ Top = buffers[Len(buffers)] /\ Top \in BufferType /\ Top.data \in Seq(Byte)
<1>1. buffers \in Seq(BufferType) /\ Len(buffers) <= MaxLevel
  BY DEF TypeOK
<1>2. Len(buffers) \in Nat \ {0} /\ Top = buffers[Len(buffers)] /\ Top \in BufferType
  <2> HIDE DEF BufferType
  <2> QED
    BY <1>1, FrontIs DEF Top
<1> QED
  BY <1>1, <1>2, BufferIs, BoundAssumption

LEMMA InnermostIs ==
    ASSUME TypeOK, calls # <<>>
    PROVE  /\ Len(calls) \in {1, 2} /\ Call = calls[Len(calls)] /\ Call \in CallType
           /\ Front(calls) \in Seq(CallType) /\ Len(Front(calls)) = Len(calls) - 1
           /\ \A i \in 1 .. Len(Front(calls)) : Front(calls)[i] = calls[i]
<1>1. calls \in Seq(CallType) /\ Len(calls) <= 2
  BY DEF TypeOK
<1>2. /\ Len(calls) \in Nat \ {0} /\ Front(calls) \in Seq(CallType)
      /\ Len(Front(calls)) = Len(calls) - 1
      /\ \A i \in 1 .. Len(calls) - 1 : Front(calls)[i] = calls[i]
      /\ Last(calls) = calls[Len(calls)] /\ Last(calls) \in CallType
  BY <1>1, FrontIs
<1>3. Len(calls) \in {1, 2}
  BY <1>1, <1>2
<1> QED
  BY <1>2, <1>3 DEF Call

(* While a handler runs, the level it runs in is the top one. *)
LEMMA RunsInTop ==
    ASSUME TypeOK, FlagsInv, HandlerRuns
    PROVE  /\ calls # <<>> /\ buffers # <<>> /\ Call.n = Len(buffers) /\ Call.out = Top.data
           /\ Call \in CallType /\ Call.op \in Op
<1>1. calls # <<>>
  BY DEF HandlerRuns
<1>2. Call \in CallType
  BY <1>1, InnermostIs
<1>3. Call.n \in Nat \ {0} /\ Call.op \in Op
  <2> HIDE DEF CallType
  <2>1. Call.n \in 1 .. MaxLevel /\ Call.op \in Op /\ Call.n \in Nat
    BY <1>2, CallIs
  <2> QED
    BY <2>1
<1>4. Call.n = Len(buffers) /\ Call.out = Top.data
  BY DEF FlagsInv
<1>5. buffers # <<>>
  BY <1>3, <1>4
<1> QED
  BY <1>1, <1>2, <1>3, <1>4, <1>5

(* A handler that an error handler called is not Redirected alone. *)
LEMMA RedirectedIs ==
    ASSUME TypeOK, FlagsInv, HandlerRuns
    PROVE  ~Redirected <=> Len(calls) = 1
<1>1. Len(calls) \in {1, 2} /\ Call = calls[Len(calls)] /\ calls \in Seq(CallType)
  BY InnermostIs DEF HandlerRuns, TypeOK
<1>2. CASE Len(calls) = 1
  <2>1. \A i \in DOMAIN calls : calls[i].call = "handler"
    BY <1>1, <1>2 DEF HandlerRuns
  <2> QED
    BY <1>2, <2>1 DEF Redirected
<1>3. CASE Len(calls) = 2
  <2>1. 1 \in DOMAIN calls /\ calls[1].call = "error"
    BY <1>1, <1>3 DEF FlagsInv
  <2> QED
    BY <1>3, <2>1 DEF Redirected
<1> QED
  BY <1>1, <1>2, <1>3

(***************************************************************************)
(* What the steps are, once the conversions of the model are unfolded.     *)
(***************************************************************************)

(* Nothing but flags and phases. *)
Quiet == UNCHANGED <<stdout, buffers, calls, printed, gone, deactivated, onError>>

Rest == UNCHANGED <<printed, deactivated, onError>>

(* The levels below the top are as they were, and the top one is t. *)
TopBecomes(t) ==
    /\ buffers # <<>> /\ Len(buffers') = Len(buffers)
    /\ \A i \in 1 .. Len(buffers) - 1 : buffers'[i] = buffers[i]
    /\ buffers'[Len(buffers)] = t

(* The top level once a byte more is echoed. *)
Echoed == Data(Top, Append(Top.data, printed + 1))

EchoForm ==
    /\ calls = <<>> /\ calls' = <<>>
    /\ printed' = printed + 1 /\ UNCHANGED <<gone, deactivated, onError>>
    /\ \/ buffers = <<>> /\ buffers' = <<>> /\ stdout' = Append(stdout, printed + 1)
       \/ TopBecomes(Echoed) /\ UNCHANGED stdout

StartForm ==
    /\ ~HandlerRuns /\ ~deactivated /\ (calls # <<>> => onError = "buffers")
    /\ Len(buffers') = Len(buffers) + 1
    /\ \A i \in 1 .. Len(buffers) : buffers'[i] = buffers[i]
    /\ LET t == buffers'[Len(buffers) + 1]
       IN  t.data = <<>> /\ ~t.in_handler /\ ~t.finished
    /\ UNCHANGED <<stdout, calls, gone>> /\ Rest

(* An operation starts on the top level, b. *)
Ready(b) ==
    /\ ~HandlerRuns /\ (calls # <<>> => onError = "buffers")
    /\ buffers # <<>> /\ b \in BufferType
    /\ UNCHANGED <<deactivated, onError>>
    /\ \/ b = Top /\ printed' = printed
       \/ b = Echoed /\ printed' = printed + 1 /\ calls = <<>>

Enters(op, b) ==
    /\ calls' = Append(calls, [call |-> "handler", op |-> op, n |-> Len(buffers), out |-> b.data])
    /\ \E t \in BufferType :
          /\ TopBecomes(t)
          /\ t.data = b.data /\ t.in_handler /\ (t.finished <=> (b.finished \/ op \in Ends))
    /\ UNCHANGED <<stdout, gone>>

(* op is over and passes on what its level held, d, or nothing. *)
SettledBy(op, d) ==
    \/ op \notin Cleaning /\ gone' = gone /\ Settles(op, d, stdout, buffers, stdout', buffers')
    \/ gone' = gone \cup ToSet(d) /\ Settles(op, <<>>, stdout, buffers, stdout', buffers')

BeginForm ==
    \E op \in Op, b \in BufferType :
        /\ Ready(b)
        /\ \/ Enters(op, b)
           \/ calls' = calls /\ SettledBy(op, b.data)

PrintForm ==
    /\ HandlerRuns
    /\ \E t \in BufferType :
          /\ TopBecomes(t)
          /\ t.data = Top.data /\ t.in_handler /\ (t.finished <=> Top.finished)
    /\ UNCHANGED <<stdout, calls, gone>> /\ Rest

(* The handler has returned c.out, and the error handler is called. *)
ComplainForm ==
    /\ HandlerRuns /\ Len(calls) = 1
    /\ \E c \in CallType :
          /\ calls' = <<c>> /\ c.call = "error" /\ c.op = Call.op /\ c.n = Call.n
          /\ c.out \in {Top.data, <<>>}
          /\ \/ gone' = gone /\ Call.op \notin Cleaning /\ c.out = Top.data
             \/ gone' = gone \cup ToSet(Top.data) /\ (Call.op \in Cleaning \/ c.out = <<>>)
    /\ \E t \in BufferType :
          TopBecomes(t) /\ t.data = <<>> /\ ~t.in_handler /\ (t.finished <=> Top.finished)
    /\ UNCHANGED stdout /\ Rest

HandlerSettles ==
    HandlerRuns /\ calls' = Front(calls) /\ SettledBy(Call.op, Top.data) /\ Rest

StayForm ==
    /\ HandlerRuns /\ calls' = Front(calls) /\ Call.op \notin Ends
    /\ \E t \in BufferType :
          TopBecomes(t) /\ t.data = Top.data /\ ~t.in_handler /\ (t.finished <=> Top.finished)
    /\ UNCHANGED <<stdout, gone>> /\ Rest

DropForm ==
    /\ HandlerRuns /\ calls' = Front(calls)
    /\ buffers' = <<>> /\ gone' = gone \cup Holding(buffers)
    /\ UNCHANGED <<stdout, printed, onError>>

ErrorRuns == calls # <<>> /\ Call.call = "error"

ErrorSettles ==
    /\ ErrorRuns /\ Len(buffers) = Call.n /\ calls' = Front(calls)
    /\ Settles(Call.op, Call.out, stdout, buffers, stdout', buffers')
    /\ UNCHANGED gone /\ Rest

ErrorThins ==
    /\ ErrorRuns /\ Len(buffers) # Call.n /\ calls' = Front(calls)
    /\ Thinned(stdout, buffers, stdout', buffers')
    /\ UNCHANGED gone /\ Rest

ErrorStops ==
    /\ ErrorRuns /\ Len(buffers) = Call.n /\ calls' = Front(calls) /\ Call.op \notin Cleaning
    /\ buffers' = <<>>
    /\ stdout' = (IF Len(buffers) = 1 THEN stdout \o Call.out ELSE stdout)
    /\ gone' = gone \cup Holding(buffers)
                 \cup (IF Len(buffers) = 1 THEN {} ELSE ToSet(Call.out))
    /\ Rest

Forms ==
    \/ Quiet \/ EchoForm \/ StartForm \/ BeginForm
    \/ PrintForm \/ ComplainForm \/ HandlerSettles \/ StayForm \/ DropForm
    \/ ErrorSettles \/ ErrorThins \/ ErrorStops

LEMMA TopReplaced ==
    ASSUME TypeOK, buffers # <<>>, NEW t \in BufferType
    PROVE  /\ WithTop(buffers, t) \in Seq(BufferType)
           /\ Len(WithTop(buffers, t)) = Len(buffers)
           /\ \A i \in 1 .. Len(buffers) - 1 : WithTop(buffers, t)[i] = buffers[i]
           /\ WithTop(buffers, t)[Len(buffers)] = t
<1>1. buffers \in Seq(BufferType)
  BY DEF TypeOK
<1> QED
  BY <1>1, WithTopIs

(* WithTop, in these terms. *)
LEMMA WithTopBecomes ==
    ASSUME TypeOK, buffers # <<>>, NEW t \in BufferType, buffers' = WithTop(buffers, t)
    PROVE  TopBecomes(t) /\ buffers' \in Seq(BufferType) /\ Len(buffers') <= MaxLevel
<1>1. Len(buffers) <= MaxLevel
  BY DEF TypeOK
<1>2. /\ WithTop(buffers, t) \in Seq(BufferType)
      /\ Len(WithTop(buffers, t)) = Len(buffers)
      /\ \A i \in 1 .. Len(buffers) - 1 : WithTop(buffers, t)[i] = buffers[i]
      /\ WithTop(buffers, t)[Len(buffers)] = t
  BY TopReplaced
<1> QED
  BY <1>1, <1>2 DEF TopBecomes

(* A level that is not in a handler over the levels below the top one. *)
LEMMA WithTopUnder ==
    ASSUME TypeOK, buffers # <<>>, NEW t \in BufferType, Idle(t, Top)
    PROVE  /\ WithTop(buffers, t) \in Seq(BufferType)
           /\ Under(buffers, WithTop(buffers, t))
           /\ Len(WithTop(buffers, t)) = Len(buffers)
           /\ WithTop(buffers, t)[Len(buffers)] = t
<1>1. buffers \in Seq(BufferType)
  BY DEF TypeOK
<1>2. /\ WithTop(buffers, t) \in Seq(BufferType)
      /\ Len(WithTop(buffers, t)) = Len(buffers)
      /\ \A i \in 1 .. Len(buffers) - 1 : WithTop(buffers, t)[i] = buffers[i]
      /\ WithTop(buffers, t)[Len(buffers)] = t
  BY <1>1, WithTopIs
<1>3. Top = buffers[Len(buffers)]
  BY LevelIs
<1> QED
  BY <1>2, <1>3 DEF Under

(* Settling takes levels away, or leaves as many. *)
LEMMA SettlesBounds ==
    ASSUME TypeOK, NEW op, NEW out, Settles(op, out, stdout, buffers, stdout', buffers'),
           buffers' \in Seq(BufferType)
    PROVE  Len(buffers') <= MaxLevel
<1>1. buffers # <<>> /\ Len(buffers') = (IF op \in Ends THEN Len(buffers) - 1 ELSE Len(buffers))
  BY DEF Settles
<1>2. Len(buffers) \in 1 .. MaxLevel /\ MaxLevel \in Nat
  BY <1>1, LevelIs, BoundAssumption
<1> QED
  BY <1>1, <1>2

(* bs are the levels, with b for the top one. *)
Topped(bs, b) ==
    /\ Len(bs) = Len(buffers) /\ bs[Len(bs)] = b
    /\ \A i \in 1 .. Len(bs) - 1 : bs[i] = buffers[i]

(* ob_process, at the start of an operation on the top level b of bs. *)
LEMMA BeginIs ==
    ASSUME TypeOK, buffers # <<>>, NEW b \in BufferType, NEW bs \in Seq(BufferType),
           Topped(bs, b), Idle(b, Top), NEW op \in Op, Begin(op, bs)
    PROVE  /\ stdout' \in Seq(Byte) /\ buffers' \in Seq(BufferType)
           /\ Len(buffers') <= MaxLevel
           /\ Enters(op, b) \/ (calls' = calls /\ SettledBy(op, b.data))
<1>1. /\ buffers \in Seq(BufferType) /\ stdout \in Seq(Byte)
      /\ Len(buffers) \in 1 .. MaxLevel /\ MaxLevel \in Nat
  BY LevelIs, BoundAssumption DEF TypeOK
<1>2. bs # <<>> /\ Last(bs) = b /\ Len(bs) \in Nat \ {0}
  BY <1>1, FrontIs DEF Topped
<1>3. CASE Handled(b)
  <2> DEFINE t == Entered(b, op)
  <2>1. /\ t \in BufferType /\ t.data = b.data /\ t.in_handler
        /\ t.finished <=> (b.finished \/ op \in Ends)
    BY EnteredIs
  <2>2. /\ calls' = Append(calls, [call |-> "handler", op |-> op, n |-> Len(bs), out |-> b.data])
        /\ buffers' = WithTop(bs, t) /\ UNCHANGED <<stdout, gone>>
    BY <1>2, <1>3 DEF Begin, Entered
  <2> HIDE DEF t
  <2>3. /\ WithTop(bs, t) \in Seq(BufferType) /\ Len(WithTop(bs, t)) = Len(bs)
        /\ \A i \in 1 .. Len(bs) - 1 : WithTop(bs, t)[i] = bs[i]
        /\ WithTop(bs, t)[Len(bs)] = t
    <3>1. t \in BufferType /\ bs # <<>>
      BY <1>2, <2>1
    <3> QED
      BY <3>1, WithTopIs
  <2>4. TopBecomes(t)
    BY <2>2, <2>3 DEF TopBecomes, Topped
  <2>5. Enters(op, b)
    BY <2>1, <2>2, <2>4 DEF Enters, Topped
  <2> QED
    BY <1>1, <2>2, <2>3, <2>5 DEF Topped
<1>4. CASE ~Handled(b)
  <2> DEFINE t == Data(b, <<>>)
             out == IF op \in Cleaning THEN <<>> ELSE b.data
  <2>1. t \in BufferType /\ t.data = <<>> /\ Idle(t, Top)
    BY NoData, DataIs DEF Idle
  <2>2. /\ Finish(op, Len(bs), b.data, WithTop(bs, t))
        /\ gone' = gone \cup Discarded(op, "same", b.data) /\ calls' = calls
    BY <1>2, <1>4 DEF Begin, Data
  <2> HIDE DEF t
  <2>3. /\ WithTop(bs, t) \in Seq(BufferType) /\ Len(WithTop(bs, t)) = Len(bs)
        /\ \A i \in 1 .. Len(bs) - 1 : WithTop(bs, t)[i] = bs[i]
        /\ WithTop(bs, t)[Len(bs)] = t
    <3>1. t \in BufferType /\ bs # <<>>
      BY <1>2, <2>1
    <3> QED
      BY <3>1, WithTopIs
  <2>4. Under(buffers, WithTop(bs, t))
    BY <2>1, <2>3, LevelIs DEF Under, Topped
  <2>5. out \in Seq(Byte) /\ b.data \in Seq(Byte)
    BY NoData, DataType
  <2>6. Finish(op, Len(buffers), out, WithTop(bs, t))
    BY <2>2 DEF Finish, Topped
  <2> HIDE DEF out
  <2>7. /\ Settles(op, out, stdout, buffers, stdout', buffers')
        /\ stdout' \in Seq(Byte) /\ buffers' \in Seq(BufferType)
    BY <1>1, <2>1, <2>3, <2>4, <2>5, <2>6, FinishSettles DEF Topped
  <2>8. SettledBy(op, b.data)
    BY <2>2, <2>7 DEF SettledBy, Discarded, out
  <2> QED
    BY <2>2, <2>7, <2>8, SettlesBounds
<1> QED
  BY <1>3, <1>4

(***************************************************************************)
(* The types, and the form of every step.                                  *)
(***************************************************************************)
LEMMA BytesOf == ASSUME NEW d \in Seq(Byte) PROVE ToSet(d) \subseteq Byte
  BY DEF ToSet

LEMMA HoldingType == ASSUME NEW bs \in Seq(BufferType) PROVE Holding(bs) \subseteq Byte
<1> SUFFICES ASSUME NEW i \in DOMAIN bs PROVE ToSet(bs[i].data) \subseteq Byte
  BY DEF Holding
<1>1. bs[i] \in BufferType
  OBVIOUS
<1> QED
  BY <1>1, DataType, BytesOf

(* The levels and what is around them have their types. *)
LevelsTyped ==
    /\ stdout' \in Seq(Byte) /\ buffers' \in Seq(BufferType) /\ Len(buffers') <= MaxLevel

CallsTyped == calls' \in Seq(CallType) /\ Len(calls') <= 2

RestTyped ==
    /\ ending' \in BOOLEAN /\ deactivated' \in BOOLEAN
    /\ phase' \in {"script", "final", "done"}
    /\ printed' \in 0 .. MaxBytes /\ gone' \subseteq Byte
    /\ onError' = onError

LEMMA TypeKept == ASSUME TypeOK, LevelsTyped, CallsTyped, RestTyped PROVE TypeOK'
<1>1. onError' \in ErrorHandlers
  BY DEF TypeOK, RestTyped
<1> QED
  BY <1>1 DEF TypeOK, LevelsTyped, CallsTyped, RestTyped

LEMMA SettledGone ==
    ASSUME NEW op, NEW d \in Seq(Byte), gone \subseteq Byte, SettledBy(op, d)
    PROVE  gone' \subseteq Byte
  BY BytesOf DEF SettledBy

(* A callback less. *)
LEMMA OneCallLess == ASSUME TypeOK, calls # <<>>, calls' = Front(calls) PROVE CallsTyped
<1>1. /\ Len(calls) \in {1, 2} /\ Front(calls) \in Seq(CallType)
      /\ Len(Front(calls)) = Len(calls) - 1
  BY InnermostIs
<1> QED
  BY <1>1 DEF CallsTyped

(* Where no handler runs there is at most the error handler. *)
LEMMA AtMostOne ==
    ASSUME TypeOK, FlagsInv, ~HandlerRuns
    PROVE  /\ calls \in Seq(CallType) /\ Len(calls) \in {0, 1}
           /\ buffers # <<>> => ~Top.in_handler
<1>1. calls \in Seq(CallType) /\ Len(calls) <= 2 /\ Len(calls) \in Nat
  BY DEF TypeOK
<1>2. Len(calls) # 2
  <2> SUFFICES ASSUME Len(calls) = 2 PROVE FALSE
    OBVIOUS
  <2>1. calls[2].call = "handler" /\ calls # <<>>
    BY <1>1 DEF FlagsInv
  <2>2. Call = calls[2]
    BY <2>1, InnermostIs
  <2> QED
    BY <2>1, <2>2 DEF HandlerRuns
<1>3. ASSUME buffers # <<>> PROVE ~Top.in_handler
  <2>1. Len(buffers) \in 1 .. Len(buffers) /\ Top = buffers[Len(buffers)]
    BY <1>3, LevelIs
  <2> QED
    BY <2>1 DEF FlagsInv
<1>4. Len(calls) \in {0, 1}
  <2> DEFINE k == Len(calls)
  <2>1. k <= 2 /\ k \in Nat /\ k # 2
    BY <1>1, <1>2
  <2> HIDE DEF k
  <2>2. k \in {0, 1}
    BY <2>1
  <2> QED
    BY <2>2 DEF k
<1> QED
  BY <1>1, <1>3, <1>4

LEMMA NewCall ==
    ASSUME NEW call \in {"handler", "error"}, NEW op \in Op, NEW n \in 1 .. MaxLevel,
           NEW out \in Seq(Byte)
    PROVE  [call |-> call, op |-> op, n |-> n, out |-> out] \in CallType
  BY DEF CallType

(* An operation starts on b, which is the top level of bs. *)
LEMMA BeginSteps ==
    ASSUME Inv, NEW b \in BufferType, Ready(b), NEW bs \in Seq(BufferType), Topped(bs, b),
           NEW op \in Op, Begin(op, bs), Idle(b, Top),
           UNCHANGED <<ending, phase>>, printed' \in 0 .. MaxBytes
    PROVE  TypeOK' /\ BeginForm
<1>1. TypeOK /\ FlagsInv /\ buffers # <<>> /\ ~HandlerRuns
  BY DEF Inv, Ready
<1>2. LevelsTyped /\ (Enters(op, b) \/ (calls' = calls /\ SettledBy(op, b.data)))
  BY <1>1, BeginIs DEF LevelsTyped
<1>3. BeginForm
  BY <1>2 DEF BeginForm
<1>4. calls \in Seq(CallType) /\ Len(calls) \in {0, 1}
  BY <1>1, AtMostOne
<1>5. b.data \in Seq(Byte) /\ gone \subseteq Byte /\ Len(buffers) \in 1 .. MaxLevel
  BY <1>1, DataType, LevelIs DEF TypeOK
<1>6. CallsTyped /\ gone' \subseteq Byte
  <2>1. CASE Enters(op, b)
    <3> DEFINE c == [call |-> "handler", op |-> op, n |-> Len(buffers), out |-> b.data]
    <3>1. c \in CallType
      BY <1>5, NewCall
    <3>2. calls' = Append(calls, c) /\ gone' = gone
      BY <2>1 DEF Enters
    <3> HIDE DEF c
    <3>3. calls' \in Seq(CallType) /\ Len(calls') = Len(calls) + 1
      BY <1>4, <3>1, <3>2, AppendIs
    <3> QED
      BY <1>4, <1>5, <3>2, <3>3 DEF CallsTyped
  <2>2. CASE calls' = calls /\ SettledBy(op, b.data)
    <3>1. gone' \subseteq Byte
      BY <2>2, <1>5, SettledGone
    <3>2. CallsTyped
      BY <1>1, <2>2 DEF CallsTyped, TypeOK
    <3> QED
      BY <3>1, <3>2
  <2> QED
    BY <1>2, <2>1, <2>2
<1>7. RestTyped
  <2>1. UNCHANGED <<deactivated, onError>>
    BY DEF Ready
  <2>2. ending \in BOOLEAN /\ deactivated \in BOOLEAN /\ phase \in {"script", "final", "done"}
    BY <1>1 DEF TypeOK
  <2> QED
    BY <1>6, <2>1, <2>2 DEF RestTyped
<1> QED
  BY <1>1, <1>2, <1>3, <1>6, <1>7, TypeKept

(* An operation starts on the top level as it is. *)
LEMMA OperationSteps ==
    ASSUME Inv, ~HandlerRuns, calls # <<>> => onError = "buffers", buffers # <<>>,
           NEW op \in Op, Begin(op, buffers),
           UNCHANGED <<ending, deactivated, phase, printed, onError>>
    PROVE  TypeOK' /\ BeginForm
<1>1. TypeOK /\ FlagsInv
  BY DEF Inv
<1>2. Top \in BufferType /\ Top = buffers[Len(buffers)] /\ buffers \in Seq(BufferType)
  BY <1>1, LevelIs DEF TypeOK
<1>3. Idle(Top, Top)
  BY <1>1, AtMostOne DEF Idle
<1>4. Topped(buffers, Top)
  BY <1>2 DEF Topped
<1>5. Ready(Top)
  BY <1>2 DEF Ready
<1>6. printed' \in 0 .. MaxBytes
  BY <1>1 DEF TypeOK
<1> QED
  BY <1>2, <1>3, <1>4, <1>5, <1>6, BeginSteps

LEMMA RunsIs == Runs => ~HandlerRuns /\ (calls # <<>> => onError = "buffers")
  BY DEF Runs, HandlerRuns

LEMMA OperateSteps ==
    ASSUME Inv, NEW op \in Op, NEW permission, Operate(op, permission)
    PROVE  TypeOK' /\ BeginForm
  BY RunsIs, OperationSteps DEF Operate

LEMMA EndTopSteps == ASSUME Inv, EndTop PROVE TypeOK' /\ BeginForm
  BY OperationSteps DEF EndTop, HandlerRuns, Op

(* echo. *)
LEMMA EchoSteps == ASSUME Inv, Echo PROVE TypeOK' /\ (EchoForm \/ BeginForm)
<1>1. TypeOK /\ FlagsInv /\ calls = <<>> /\ ~HandlerRuns
  BY DEF Inv, Echo, HandlerRuns
<1>2. /\ printed' = printed + 1 /\ printed < MaxBytes
      /\ UNCHANGED <<ending, deactivated, phase, onError>>
  BY DEF Echo
<1>3. /\ stdout \in Seq(Byte) /\ printed \in 0 .. MaxBytes /\ gone \subseteq Byte
      /\ buffers \in Seq(BufferType) /\ Len(buffers) <= MaxLevel
      /\ MaxBytes \in Nat
  BY <1>1, BoundAssumption DEF TypeOK
<1>4. printed + 1 \in Byte /\ printed' \in 0 .. MaxBytes /\ printed' = printed + 1
  BY <1>2, <1>3 DEF Byte
<1>5. CASE buffers = <<>>
  <2>1. stdout' = Append(stdout, printed + 1) /\ UNCHANGED <<buffers, calls, gone>>
    BY <1>4, <1>5 DEF Echo
  <2>2. EchoForm
    BY <1>1, <1>2, <1>5, <2>1 DEF EchoForm
  <2>3. LevelsTyped
    BY <1>3, <1>4, <2>1, AppendIs DEF LevelsTyped
  <2>4. CallsTyped /\ RestTyped
    BY <1>1, <1>2, <1>4, <2>1 DEF CallsTyped, RestTyped, TypeOK
  <2> QED
    BY <1>1, <2>2, <2>3, <2>4, TypeKept
<1>6. CASE buffers # <<>>
  <2>1. Top \in BufferType /\ Top.data \in Seq(Byte) /\ ~Top.in_handler
    BY <1>1, <1>6, LevelIs, AtMostOne
  <2>2. Append(Top.data, printed + 1) \in Seq(Byte)
    BY <2>1, <1>4, AppendIs
  <2>3. Echoed \in BufferType /\ Idle(Echoed, Top)
    BY <2>1, <2>2, DataIs DEF Echoed, Idle
  <2>4. [Top EXCEPT !.data = Append(@, printed')] = Echoed
    BY <1>4 DEF Echoed, Data
  <2>5. \/ Begin("write", WithTop(buffers, Echoed))
        \/ buffers' = WithTop(buffers, Echoed) /\ UNCHANGED <<stdout, calls, gone>>
    BY <1>6, <2>4 DEF Echo
  <2>6. CASE Begin("write", WithTop(buffers, Echoed))
    <3>1. /\ WithTop(buffers, Echoed) \in Seq(BufferType)
          /\ Under(buffers, WithTop(buffers, Echoed))
          /\ Len(WithTop(buffers, Echoed)) = Len(buffers)
          /\ WithTop(buffers, Echoed)[Len(buffers)] = Echoed
      BY <1>1, <1>6, <2>3, WithTopUnder
    <3>2. Topped(WithTop(buffers, Echoed), Echoed)
      BY <3>1 DEF Topped, Under
    <3>3. Ready(Echoed)
      BY <1>1, <1>2, <1>6, <2>3 DEF Ready
    <3>4. "write" \in Op /\ UNCHANGED <<ending, phase>>
      BY <1>2 DEF Op
    <3> QED
      BY <1>4, <2>3, <2>6, <3>1, <3>2, <3>3, <3>4, BeginSteps
  <2>7. CASE buffers' = WithTop(buffers, Echoed) /\ UNCHANGED <<stdout, calls, gone>>
    <3>1. TopBecomes(Echoed) /\ buffers' \in Seq(BufferType) /\ Len(buffers') <= MaxLevel
      BY <1>1, <1>6, <2>3, <2>7, WithTopBecomes
    <3>2. EchoForm
      BY <1>1, <1>2, <2>7, <3>1 DEF EchoForm
    <3>3. LevelsTyped /\ CallsTyped /\ RestTyped
      BY <1>1, <1>2, <1>3, <1>4, <2>7, <3>1 DEF LevelsTyped, CallsTyped, RestTyped, TypeOK
    <3> QED
      BY <1>1, <3>2, <3>3, TypeKept
  <2> QED
    BY <2>5, <2>6, <2>7
<1> QED
  BY <1>5, <1>6

(* ob_start. *)
LEMMA ObStartSteps == ASSUME Inv, ObStart PROVE TypeOK' /\ StartForm
<1>1. TypeOK /\ buffers \in Seq(BufferType) /\ Len(buffers) < MaxLevel /\ MaxLevel \in Nat
  BY BoundAssumption DEF Inv, TypeOK, ObStart
<1>2. PICK callback \in BOOLEAN, chunk \in Chunk, flags \in Flags :
         buffers' = Append(buffers, ObBuffer(callback, chunk, flags))
  BY DEF ObStart
<1> DEFINE t == ObBuffer(callback, chunk, flags)
<1>3. t \in BufferType /\ t.data = <<>> /\ ~t.in_handler /\ ~t.finished
  BY FreshIs
<1> HIDE DEF t
<1>4. /\ buffers' \in Seq(BufferType) /\ Len(buffers') = Len(buffers) + 1
      /\ \A i \in 1 .. Len(buffers) : buffers'[i] = buffers[i]
      /\ buffers'[Len(buffers) + 1] = t
  BY <1>1, <1>2, <1>3, AppendIs DEF t
<1>5. /\ ~HandlerRuns /\ (calls # <<>> => onError = "buffers") /\ ~deactivated
      /\ UNCHANGED <<stdout, calls, ending, deactivated, phase, printed, gone, onError>>
  BY RunsIs DEF ObStart
<1>6. StartForm
  BY <1>3, <1>4, <1>5 DEF StartForm, Rest
<1>7. LevelsTyped /\ CallsTyped /\ RestTyped
  BY <1>1, <1>4, <1>5 DEF LevelsTyped, CallsTyped, RestTyped, TypeOK
<1> QED
  BY <1>1, <1>6, <1>7, TypeKept

(* A handler ends with the end of its operation. *)
LEMMA HandlerFinishes ==
    ASSUME Inv, HandlerRuns, NEW t \in BufferType, Idle(t, Top), NEW out \in Seq(Byte),
           t.data = <<>> \/ Call.op \in Ends \cup Cleaning,
           Finish(Call.op, Call.n, out, WithTop(buffers, t))
    PROVE  LevelsTyped /\ Settles(Call.op, out, stdout, buffers, stdout', buffers')
<1>1. TypeOK /\ FlagsInv
  BY DEF Inv
<1>2. buffers # <<>> /\ Call.n = Len(buffers) /\ Call.op \in Op
  BY <1>1, RunsInTop
<1>3. stdout \in Seq(Byte) /\ buffers \in Seq(BufferType)
  BY <1>1 DEF TypeOK
<1> DEFINE bs == WithTop(buffers, t)
<1>4. bs \in Seq(BufferType) /\ Under(buffers, bs) /\ Len(bs) = Len(buffers)
      /\ bs[Len(bs)] = t
  BY <1>1, <1>2, WithTopUnder
<1>5. Finish(Call.op, Len(buffers), out, bs)
  BY <1>2
<1> HIDE DEF bs
<1>6. Call.op \notin Ends \cup Cleaning => bs[Len(bs)].data = <<>>
  BY <1>4
<1>7. /\ Settles(Call.op, out, stdout, buffers, stdout', buffers')
      /\ stdout' \in Seq(Byte) /\ buffers' \in Seq(BufferType)
  BY <1>2, <1>3, <1>4, <1>5, <1>6, FinishSettles
<1>8. Len(buffers') <= MaxLevel
  BY <1>1, <1>7, SettlesBounds
<1> QED
  BY <1>7, <1>8 DEF LevelsTyped

LEMMA HandlerPrintsSteps == ASSUME Inv, HandlerPrints PROVE TypeOK' /\ PrintForm
<1>1. TypeOK /\ FlagsInv /\ HandlerRuns
  BY DEF Inv, HandlerPrints
<1>2. buffers # <<>> /\ Top \in BufferType /\ Top = buffers[Len(buffers)]
      /\ Len(buffers) \in 1 .. Len(buffers)
  BY <1>1, RunsInTop, LevelIs
<1>3. Top.in_handler
  BY <1>1, <1>2 DEF FlagsInv
<1> DEFINE t == Produced(Top)
<1>4. /\ t \in BufferType /\ t.data = Top.data /\ t.in_handler
      /\ (t.finished <=> Top.finished)
  BY <1>2, <1>3, ProducedIs
<1>5. /\ buffers' = WithTop(buffers, t)
      /\ UNCHANGED <<stdout, calls, ending, deactivated, phase, printed, gone, onError>>
  BY DEF HandlerPrints, Produced
<1> HIDE DEF t
<1>6. TopBecomes(t) /\ buffers' \in Seq(BufferType) /\ Len(buffers') <= MaxLevel
  BY <1>1, <1>2, <1>4, <1>5, WithTopBecomes
<1>7. PrintForm
  BY <1>1, <1>4, <1>5, <1>6 DEF PrintForm, Rest
<1>8. LevelsTyped /\ CallsTyped /\ RestTyped
  BY <1>1, <1>5, <1>6 DEF LevelsTyped, CallsTyped, RestTyped, TypeOK
<1> QED
  BY <1>1, <1>7, <1>8, TypeKept

LEMMA HandlerBuffersSteps == ASSUME Inv, HandlerBuffers PROVE TypeOK' /\ DropForm
<1>1. TypeOK /\ FlagsInv /\ HandlerRuns /\ calls # <<>>
  BY DEF Inv, HandlerBuffers, HandlerRuns
<1>2. /\ buffers' = <<>> /\ gone' = gone \cup Holding(buffers) /\ calls' = Front(calls)
      /\ deactivated' = TRUE /\ ending' \in BOOLEAN
      /\ UNCHANGED <<stdout, phase, printed, onError>>
  BY DEF HandlerBuffers, ShutDown
<1>3. DropForm
  BY <1>1, <1>2 DEF DropForm
<1>4. Holding(buffers) \subseteq Byte
  BY <1>1, HoldingType DEF TypeOK
<1>5. CallsTyped
  BY <1>1, <1>2, OneCallLess
<1>6. LevelsTyped
  <2>1. stdout' \in Seq(Byte) /\ MaxLevel \in Nat
    BY <1>1, <1>2, BoundAssumption DEF TypeOK
  <2>2. buffers' \in Seq(BufferType) /\ Len(buffers') = 0
    BY <1>2
  <2> QED
    BY <2>1, <2>2 DEF LevelsTyped
<1>7. RestTyped
  BY <1>1, <1>2, <1>4 DEF RestTyped, TypeOK
<1> QED
  BY <1>1, <1>3, <1>5, <1>6, <1>7, TypeKept

(* The call of a handler becomes the call of the error handler. *)
LEMMA ErrorCallIs ==
    ASSUME NEW c \in CallType, NEW out \in Seq(Byte)
    PROVE  LET e == [c EXCEPT !.call = "error", !.out = out]
           IN  /\ e \in CallType /\ e.call = "error" /\ e.op = c.op /\ e.n = c.n
               /\ e.out = out
  BY DEF CallType

LEMMA HandlerReturnsSteps ==
    ASSUME Inv, NEW value \in {"same", "false", "other"}, HandlerReturns(value)
    PROVE  TypeOK' /\ (ComplainForm \/ HandlerSettles)
<1> DEFINE n == Len(buffers)
           d == Top.data
           op == Call.op
           out == Processed(value, d)
           t == Returned(Top, value)
<1>1. TypeOK /\ FlagsInv /\ HandlerRuns /\ calls # <<>>
  BY DEF Inv, HandlerReturns, HandlerRuns
<1>2. /\ buffers # <<>> /\ Call.n = n /\ Call.out = d /\ op \in Op /\ Call \in CallType
      /\ n \in 1 .. MaxLevel /\ Top \in BufferType /\ d \in Seq(Byte)
  BY <1>1, RunsInTop, LevelIs
<1>3. t \in BufferType /\ t.data = <<>> /\ ~t.in_handler /\ (t.finished <=> Top.finished)
  BY <1>2, ReturnedIs
<1>4. out \in {d, <<>>} /\ out \in Seq(Byte) /\ (value = "other" => out = <<>>)
      /\ (value # "other" => out = d)
  BY <1>2, NoData DEF Processed
<1>5. /\ gone' = gone \cup Discarded(op, value, d)
      /\ UNCHANGED <<ending, deactivated, phase, printed, onError>>
  BY <1>2 DEF HandlerReturns
<1>6. \/ /\ Complains
         /\ calls' = WithTop(calls, [Call EXCEPT !.call = "error", !.out = out])
         /\ buffers' = WithTop(buffers, t) /\ UNCHANGED stdout
      \/ /\ calls' = Front(calls)
         /\ Finish(op, Call.n, out, WithTop(buffers, t))
  BY <1>2 DEF HandlerReturns, Returned
<1>7. gone' \subseteq Byte /\ RestTyped
  <2>1. ToSet(d) \subseteq Byte /\ gone \subseteq Byte
    BY <1>1, <1>2, BytesOf DEF TypeOK
  <2>2. gone' \subseteq Byte
    BY <2>1, <1>5 DEF Discarded
  <2> QED
    BY <2>2, <1>1, <1>5 DEF RestTyped, TypeOK
<1> HIDE DEF out, t, d
<1>8. CASE /\ Complains
           /\ calls' = WithTop(calls, [Call EXCEPT !.call = "error", !.out = out])
           /\ buffers' = WithTop(buffers, t) /\ UNCHANGED stdout
  <2> DEFINE c == [Call EXCEPT !.call = "error", !.out = out]
  <2>1. Len(calls) = 1
    BY <1>1, <1>8, RedirectedIs DEF Complains
  <2>2. c \in CallType /\ c.call = "error" /\ c.op = op /\ c.n = Call.n /\ c.out = out
    BY <1>2, <1>4, ErrorCallIs
  <2>3. calls' = WithTop(calls, c)
    BY <1>8
  <2> HIDE DEF c
  <2>4. calls' = <<c>> /\ CallsTyped
    <3>1. Front(calls) \in Seq(CallType) /\ Len(Front(calls)) = 0
      BY <1>1, <2>1, InnermostIs
    <3>2. Front(calls) = <<>>
      BY <3>1
    <3>3. calls' = Append(<<>>, c)
      BY <2>3, <3>2 DEF WithTop
    <3> QED
      BY <2>2, <3>3 DEF CallsTyped
  <2>5. TopBecomes(t) /\ buffers' \in Seq(BufferType) /\ Len(buffers') <= MaxLevel
    BY <1>1, <1>2, <1>3, <1>8, WithTopBecomes
  <2>6. \/ gone' = gone /\ op \notin Cleaning /\ out = d
        \/ gone' = gone \cup ToSet(d) /\ (op \in Cleaning \/ out = <<>>)
    BY <1>4, <1>5 DEF Discarded
  <2>7. ComplainForm
    <3>1. UNCHANGED stdout /\ Rest
      BY <1>5, <1>8 DEF Rest
    <3>2. out \in {Top.data, <<>>}
      BY <1>4 DEF d
    <3>3. \/ gone' = gone /\ Call.op \notin Cleaning /\ out = Top.data
          \/ gone' = gone \cup ToSet(Top.data) /\ (Call.op \in Cleaning \/ out = <<>>)
      BY <2>6 DEF d
    <3>4. calls' = <<c>> /\ c \in CallType /\ c.call = "error" /\ c.op = Call.op
          /\ c.n = Call.n /\ c.out = out
      BY <2>2, <2>4
    <3>5. \E u \in BufferType :
             TopBecomes(u) /\ u.data = <<>> /\ ~u.in_handler /\ (u.finished <=> Top.finished)
      BY <1>3, <2>5
    <3> QED
      BY <1>1, <2>1, <3>1, <3>2, <3>3, <3>4, <3>5 DEF ComplainForm
  <2>8. LevelsTyped
    BY <1>1, <1>8, <2>5 DEF LevelsTyped, TypeOK
  <2> QED
    BY <1>1, <1>7, <2>4, <2>7, <2>8, TypeKept
<1>9. CASE calls' = Front(calls) /\ Finish(op, Call.n, out, WithTop(buffers, t))
  <2> DEFINE out1 == IF op \in Cleaning THEN <<>> ELSE out
  <2>1. out1 \in Seq(Byte) /\ Finish(Call.op, Call.n, out1, WithTop(buffers, t))
    BY <1>4, <1>9, NoData DEF Finish
  <2> HIDE DEF out1
  <2>2. LevelsTyped /\ Settles(Call.op, out1, stdout, buffers, stdout', buffers')
    BY <1>1, <1>3, <2>1, HandlerFinishes DEF Idle
  <2>3. SettledBy(Call.op, Top.data)
    BY <1>4, <1>5, <2>2 DEF SettledBy, Discarded, out1, d
  <2>4. HandlerSettles
    BY <1>1, <1>5, <1>9, <2>3 DEF HandlerSettles, Rest
  <2>5. CallsTyped
    BY <1>1, <1>9, OneCallLess
  <2> QED
    BY <1>1, <1>7, <2>2, <2>4, <2>5, TypeKept
<1> QED
  BY <1>6, <1>8, <1>9

LEMMA HandlerExitsSteps == ASSUME Inv, HandlerExits PROVE TypeOK' /\ HandlerSettles
<1> DEFINE t == Exited(Top)
           d == Top.data
<1>1. TypeOK /\ FlagsInv /\ HandlerRuns /\ calls # <<>>
  BY DEF Inv, HandlerExits, HandlerRuns
<1>2. buffers # <<>> /\ Top \in BufferType /\ d \in Seq(Byte)
  BY <1>1, RunsInTop, LevelIs
<1>3. t \in BufferType /\ t.data = <<>> /\ Idle(t, Top)
  BY <1>2, ExitedIs DEF Idle
<1>4. /\ calls' = Front(calls)
      /\ Finish(Call.op, Call.n, <<>>, WithTop(buffers, t))
      /\ gone' = gone \cup ToSet(d) /\ ending' \in BOOLEAN
      /\ UNCHANGED <<deactivated, phase, printed, onError>>
  BY DEF HandlerExits, Exited
<1> HIDE DEF t
<1>5. LevelsTyped /\ Settles(Call.op, <<>>, stdout, buffers, stdout', buffers')
  BY <1>1, <1>3, <1>4, NoData, HandlerFinishes
<1>6. HandlerSettles
  BY <1>1, <1>4, <1>5 DEF HandlerSettles, SettledBy, Rest
<1>7. ToSet(d) \subseteq Byte /\ gone \subseteq Byte
  BY <1>1, <1>2, BytesOf DEF TypeOK
<1>8. CallsTyped /\ RestTyped
  BY <1>1, <1>4, <1>7, OneCallLess DEF RestTyped, TypeOK
<1> QED
  BY <1>1, <1>5, <1>6, <1>8, TypeKept

(* Concatenation with nothing. *)
LEMMA ConcatNothing == ASSUME NEW S, NEW s \in Seq(S) PROVE s \o <<>> = s
  OBVIOUS

LEMMA SameData == ASSUME NEW b \in BufferType PROVE Data(b, b.data \o <<>>) = b
<1>1. b.data \in Seq(Byte)
  BY DataType
<1>2. b.data \o <<>> = b.data
  BY <1>1, ConcatNothing
<1>3. [b EXCEPT !.data = b.data] = b
  BY DEF BufferType
<1> QED
  BY <1>2, <1>3 DEF Data

(* A level that goes with nothing passed on. *)
LEMMA RemovedSettles ==
    ASSUME TypeOK, buffers # <<>>, NEW bs \in Seq(BufferType), Under(buffers, bs),
           buffers' = Front(bs), UNCHANGED stdout, NEW op \in Ends
    PROVE  Settles(op, <<>>, stdout, buffers, stdout', buffers') /\ LevelsTyped
<1>1. /\ stdout \in Seq(Byte) /\ buffers \in Seq(BufferType)
      /\ Len(buffers) \in 1 .. MaxLevel /\ MaxLevel \in Nat
  BY LevelIs, BoundAssumption DEF TypeOK
<1>2. bs # <<>> /\ Len(bs) = Len(buffers) /\ \A i \in 1 .. Len(buffers) - 1 : bs[i] = buffers[i]
  BY <1>1 DEF Under
<1>3. /\ buffers' \in Seq(BufferType) /\ Len(buffers') = Len(buffers) - 1
      /\ \A i \in 1 .. Len(buffers) - 1 : buffers'[i] = buffers[i]
  <2>1. /\ Front(bs) \in Seq(BufferType) /\ Len(Front(bs)) = Len(bs) - 1
        /\ \A i \in 1 .. Len(bs) - 1 : Front(bs)[i] = bs[i]
    BY <1>2, FrontIs
  <2> QED
    BY <1>2, <2>1
<1>4. stdout \o <<>> = stdout
  BY <1>1, ConcatNothing
<1>5. \A i \in 1 .. Len(buffers) - 1 : Data(buffers[i], buffers[i].data \o <<>>) = buffers[i]
  <2> TAKE i \in 1 .. Len(buffers) - 1
  <2>1. buffers[i] \in BufferType
    BY <1>1
  <2> QED
    BY <2>1, SameData
<1>6. \A i \in 1 .. Len(buffers) - 1 : i # Len(buffers)
  BY <1>1
<1> QED
  BY <1>1, <1>3, <1>4, <1>5, <1>6 DEF Settles, LevelsTyped

LEMMA HandlerThrowsSteps ==
    ASSUME Inv, HandlerThrows PROVE TypeOK' /\ (StayForm \/ HandlerSettles \/ DropForm)
<1> DEFINE t == Thrown(Top)
           d == Top.data
           op == Call.op
           bs == WithTop(buffers, t)
<1>1. TypeOK /\ FlagsInv /\ HandlerRuns /\ calls # <<>>
  BY DEF Inv, HandlerThrows, HandlerRuns
<1>2. /\ buffers # <<>> /\ Top \in BufferType /\ d \in Seq(Byte)
      /\ op \in Op /\ Call.n = Len(buffers) /\ Len(buffers) \in Nat \ {0}
  BY <1>1, RunsInTop, LevelIs
<1>3. t \in BufferType /\ t.data = d /\ ~t.in_handler /\ (t.finished <=> Top.finished)
  BY <1>2, ThrownIs
<1>4. calls' = Front(calls) /\ UNCHANGED <<ending, deactivated, printed, onError>>
  BY DEF HandlerThrows
<1>5. /\ op \in {"write", "flush"} =>
            buffers' = bs /\ UNCHANGED <<stdout, gone, phase>>
      /\ op \in Cleaning =>
            Clean(op, Call.n, bs) /\ gone' = gone \cup ToSet(d) /\ UNCHANGED phase
      /\ op = "end" =>
            /\ IF DropsHeld THEN buffers' = Remaining("end", bs) /\ UNCHANGED stdout
               ELSE WriteLevel(Remaining("end", bs), Call.n - 1, d)
            /\ gone' = gone \cup (IF phase = "final" THEN ToSet(d) ELSE {})
            /\ UNCHANGED phase
      /\ op = "final" =>
            /\ buffers' = <<>> /\ phase' = "done"
            /\ gone' = gone \cup Holding(buffers) /\ UNCHANGED stdout
  BY <1>2 DEF HandlerThrows, Thrown, Op, Cleaning
<1>6. CallsTyped /\ (gone' \subseteq Byte /\ phase' \in {"script", "final", "done"} => RestTyped)
  BY <1>1, <1>4, OneCallLess DEF RestTyped, TypeOK
<1>7. ToSet(d) \subseteq Byte /\ gone \subseteq Byte /\ Holding(buffers) \subseteq Byte
      /\ phase \in {"script", "final", "done"}
  BY <1>1, <1>2, BytesOf, HoldingType DEF TypeOK
<1>8. stdout \in Seq(Byte) /\ buffers \in Seq(BufferType) /\ MaxLevel \in Nat
  BY <1>1, BoundAssumption DEF TypeOK
<1> HIDE DEF t
<1>9. /\ bs \in Seq(BufferType) /\ Under(buffers, bs) /\ Len(bs) = Len(buffers)
      /\ bs[Len(buffers)] = t
  BY <1>1, <1>2, <1>3, WithTopUnder DEF Idle
<1>10. CASE op \in {"write", "flush"}
  <2>1. buffers' = bs /\ UNCHANGED <<stdout, gone, phase>>
    BY <1>5, <1>10
  <2>2. TopBecomes(t) /\ buffers' \in Seq(BufferType) /\ Len(buffers') <= MaxLevel
    BY <1>1, <1>2, <1>3, <2>1, WithTopBecomes
  <2>3. StayForm
    BY <1>1, <1>3, <1>4, <1>10, <2>1, <2>2 DEF StayForm, Rest, Ends
  <2>4. LevelsTyped /\ gone' \subseteq Byte /\ phase' \in {"script", "final", "done"}
    BY <1>7, <1>8, <2>1, <2>2 DEF LevelsTyped
  <2> QED
    BY <1>1, <1>6, <2>3, <2>4, TypeKept
<1>11. CASE op \in Cleaning
  <2>1. Clean(op, Call.n, bs) /\ gone' = gone \cup ToSet(d) /\ UNCHANGED phase
    BY <1>5, <1>11
  <2>2. Finish(Call.op, Call.n, <<>>, WithTop(buffers, t))
    BY <1>11, <2>1 DEF Finish
  <2>3. LevelsTyped /\ Settles(op, <<>>, stdout, buffers, stdout', buffers')
    BY <1>1, <1>3, <1>11, <2>2, NoData, HandlerFinishes DEF Idle
  <2>4. HandlerSettles
    BY <1>1, <1>4, <2>1, <2>3 DEF HandlerSettles, SettledBy, Rest
  <2>5. gone' \subseteq Byte /\ phase' \in {"script", "final", "done"}
    BY <1>7, <2>1
  <2> QED
    BY <1>1, <1>6, <2>3, <2>4, <2>5, TypeKept
<1>12. CASE op = "end"
  <2>1. gone' = gone \cup (IF phase = "final" THEN ToSet(d) ELSE {}) /\ UNCHANGED phase
    BY <1>5, <1>12
  <2>2. gone' \subseteq Byte /\ phase' \in {"script", "final", "done"}
    BY <1>7, <2>1
  <2>3. op \in Ends /\ op \notin Cleaning
    BY <1>12 DEF Ends, Cleaning
  <2>4. CASE phase = "final"
    <3>1. buffers' = Front(bs) /\ UNCHANGED stdout
      BY <1>5, <1>12, <2>4, <2>3 DEF DropsHeld, Remaining
    <3>2. Settles(op, <<>>, stdout, buffers, stdout', buffers') /\ LevelsTyped
      BY <1>1, <1>2, <1>9, <2>3, <3>1, RemovedSettles
    <3>3. HandlerSettles
      BY <1>1, <1>4, <2>1, <2>4, <3>2 DEF HandlerSettles, SettledBy, Rest
    <3> QED
      BY <1>1, <1>6, <2>2, <3>2, <3>3, TypeKept
  <2>5. CASE phase # "final"
    <3>1. WriteLevel(Remaining("end", bs), Call.n - 1, d)
      BY <1>5, <1>12, <2>5 DEF DropsHeld
    <3>2. Finish(Call.op, Call.n, d, WithTop(buffers, t))
      BY <1>2, <1>9, <1>12, <2>3, <3>1 DEF Finish
    <3>3. LevelsTyped /\ Settles(op, d, stdout, buffers, stdout', buffers')
      BY <1>1, <1>2, <1>3, <2>3, <3>2, HandlerFinishes DEF Idle
    <3>4. HandlerSettles
      BY <1>1, <1>4, <2>1, <2>3, <2>5, <3>3 DEF HandlerSettles, SettledBy, Rest
    <3> QED
      BY <1>1, <1>6, <2>2, <3>3, <3>4, TypeKept
  <2> QED
    BY <2>4, <2>5
<1>13. CASE op = "final"
  <2>1. /\ buffers' = <<>> /\ phase' = "done"
        /\ gone' = gone \cup Holding(buffers) /\ UNCHANGED stdout
    BY <1>5, <1>13
  <2>2. DropForm
    BY <1>1, <1>4, <2>1 DEF DropForm
  <2>3. buffers' \in Seq(BufferType) /\ Len(buffers') = 0
    BY <2>1
  <2>4. LevelsTyped /\ gone' \subseteq Byte /\ phase' \in {"script", "final", "done"}
    BY <1>7, <1>8, <2>1, <2>3 DEF LevelsTyped
  <2> QED
    BY <1>1, <1>6, <2>2, <2>4, TypeKept
<1> QED
  BY <1>2, <1>10, <1>11, <1>12, <1>13 DEF Op, Cleaning

(* What the error handler interrupts is on a level that holds nothing. *)
LEMMA ErrorCallHolds ==
    ASSUME Inv, calls # <<>>, Call.call = "error"
    PROVE  /\ Held(stdout, buffers, Call) /\ UpTo(Call.out, printed)
           /\ Len(buffers) = Call.n => buffers # <<>> /\ Top.data = <<>> /\ ~Top.in_handler
<1>1. TypeOK /\ FlagsInv /\ OrderInv /\ ~HandlerRuns
  BY DEF Inv, HandlerRuns
<1>2. Call = calls[Len(calls)] /\ Len(calls) \in 1 .. Len(calls) /\ Call \in CallType
  BY <1>1, InnermostIs
<1>3. Held(stdout, buffers, Call) /\ UpTo(Call.out, printed)
  BY <1>1, <1>2 DEF OrderInv
<1>4. ASSUME Len(buffers) = Call.n
      PROVE  buffers # <<>> /\ Top.data = <<>> /\ ~Top.in_handler
  <2>1. Len(buffers) \in 1 .. MaxLevel /\ Len(buffers) \in Nat
    BY <1>2, <1>4, CallIs
  <2>2. buffers # <<>>
    BY <2>1
  <2>3. Top = buffers[Len(buffers)] /\ ~Top.in_handler
    BY <1>1, <2>2, LevelIs, AtMostOne
  <2>4. At(stdout, buffers, Len(buffers)) = <<>>
    BY <1>3, <1>4, <2>1 DEF Held
  <2> QED
    BY <2>1, <2>2, <2>3, <2>4 DEF At
<1> QED
  BY <1>3, <1>4

LEMMA ErrorHandlerEndsSteps ==
    ASSUME Inv, ErrorHandlerEnds PROVE TypeOK' /\ (ErrorSettles \/ ErrorThins)
<1>1. TypeOK /\ calls # <<>> /\ Call.call = "error" /\ ErrorRuns
  BY DEF Inv, ErrorHandlerEnds, ErrorRuns
<1>2. /\ calls' = Front(calls) /\ ending' = FALSE
      /\ Finish(Call.op, Call.n, Call.out, buffers)
      /\ UNCHANGED <<deactivated, phase, printed, gone, onError>>
  BY DEF ErrorHandlerEnds
<1>3. Call.op \in Op /\ Call.n \in Nat /\ Call.out \in Seq(Byte)
  BY <1>1, InnermostIs, CallIs
<1>4. stdout \in Seq(Byte) /\ buffers \in Seq(BufferType) /\ Len(buffers) <= MaxLevel
  BY <1>1 DEF TypeOK
<1>5. CallsTyped /\ RestTyped /\ Rest
  BY <1>1, <1>2, OneCallLess DEF RestTyped, TypeOK, Rest
<1>6. CASE Len(buffers) = Call.n
  <2>1. buffers # <<>> /\ Top.data = <<>> /\ ~Top.in_handler /\ Top = buffers[Len(buffers)]
    BY <1>1, <1>6, ErrorCallHolds, LevelIs
  <2>2. Under(buffers, buffers) /\ Finish(Call.op, Len(buffers), Call.out, buffers)
    BY <1>2, <1>6, <2>1 DEF Under, Idle
  <2>3. buffers[Len(buffers)].data = <<>>
    BY <2>1
  <2>4. /\ Settles(Call.op, Call.out, stdout, buffers, stdout', buffers')
        /\ stdout' \in Seq(Byte) /\ buffers' \in Seq(BufferType)
    BY <1>3, <1>4, <2>2, <2>3, FinishSettles
  <2>5. LevelsTyped
    BY <1>1, <2>4, SettlesBounds DEF LevelsTyped
  <2>6. ErrorSettles
    BY <1>1, <1>2, <1>5, <1>6, <2>4 DEF ErrorSettles
  <2> QED
    BY <1>1, <1>5, <2>5, <2>6, TypeKept
<1>7. CASE Len(buffers) # Call.n
  <2>1. /\ Thinned(stdout, buffers, stdout', buffers')
        /\ stdout' \in Seq(Byte) /\ buffers' \in Seq(BufferType)
    BY <1>2, <1>3, <1>4, <1>7, FinishThins
  <2>2. LevelsTyped
    BY <1>4, <2>1 DEF LevelsTyped, Thinned
  <2>3. ErrorThins
    BY <1>1, <1>2, <1>5, <1>7, <2>1 DEF ErrorThins
  <2> QED
    BY <1>1, <1>5, <2>2, <2>3, TypeKept
<1> QED
  BY <1>6, <1>7

LEMMA ErrorHandlerThrowsSteps == ASSUME Inv, ErrorHandlerThrows PROVE TypeOK' /\ ErrorStops
<1>1. TypeOK /\ ErrorRuns /\ calls # <<>> /\ Call.op = "final" /\ Len(buffers) = Call.n
  BY DEF Inv, ErrorHandlerThrows, ErrorRuns
<1>2. /\ calls' = Front(calls) /\ buffers' = <<>> /\ phase' = "done"
      /\ stdout' = (IF Len(buffers) = 1 THEN stdout \o Call.out ELSE stdout)
      /\ gone' = gone \cup Holding(buffers)
                   \cup (IF Len(buffers) = 1 THEN {} ELSE ToSet(Call.out))
      /\ UNCHANGED <<ending, deactivated, printed, onError>>
  BY <1>1 DEF ErrorHandlerThrows
<1>3. ErrorStops
  BY <1>1, <1>2 DEF ErrorStops, Rest, Cleaning
<1>4. Call.out \in Seq(Byte)
  BY <1>1, InnermostIs, CallIs
<1>5. stdout \in Seq(Byte) /\ gone \subseteq Byte /\ Holding(buffers) \subseteq Byte
      /\ MaxLevel \in Nat /\ ToSet(Call.out) \subseteq Byte
  BY <1>1, <1>4, BytesOf, HoldingType, BoundAssumption DEF TypeOK
<1>6. LevelsTyped
  <2>1. stdout' \in Seq(Byte)
    BY <1>2, <1>4, <1>5, ConcatIs
  <2>2. buffers' \in Seq(BufferType) /\ Len(buffers') = 0
    BY <1>2
  <2> QED
    BY <1>5, <2>1, <2>2 DEF LevelsTyped
<1>7. gone' \subseteq Byte
  BY <1>2, <1>5
<1>8. CallsTyped /\ RestTyped
  BY <1>1, <1>2, <1>7, OneCallLess DEF RestTyped, TypeOK
<1> QED
  BY <1>1, <1>3, <1>6, <1>8, TypeKept

(* Every step has one of the forms, and keeps the types. *)
LEMMA StepForm == ASSUME Inv, [Next]_vars PROVE TypeOK' /\ Forms
<1>1. TypeOK
  BY DEF Inv
<1>2. ASSUME ScriptNext PROVE TypeOK' /\ Forms
  BY <1>2, EchoSteps, ObStartSteps, OperateSteps
     DEF ScriptNext, ObFlush, ObClean, ObEndFlush, ObEndClean, Forms, Op
<1>3. ASSUME HandlerPrints \/ HandlerEnds PROVE TypeOK' /\ Forms
  BY <1>3, HandlerPrintsSteps, HandlerReturnsSteps, HandlerThrowsSteps, HandlerExitsSteps,
     HandlerBuffersSteps DEF HandlerEnds, Forms
<1>4. ASSUME ErrorHandlerEnds \/ ErrorHandlerThrows PROVE TypeOK' /\ Forms
  BY <1>4, ErrorHandlerEndsSteps, ErrorHandlerThrowsSteps DEF Forms
<1>5. ASSUME EndTop PROVE TypeOK' /\ Forms
  BY <1>5, EndTopSteps DEF Forms
<1>6. ASSUME EndAll \/ Flushed \/ Over \/ UNCHANGED vars PROVE TypeOK' /\ Forms
  <2>1. Quiet
    BY <1>6 DEF EndAll, Flushed, Over, vars, Quiet
  <2>2. ending' = ending /\ phase' \in {"script", "final", "done"}
    BY <1>1, <1>6 DEF EndAll, Flushed, Over, vars, TypeOK
  <2>3. TypeOK'
    BY <1>1, <2>1, <2>2 DEF TypeOK, Quiet
  <2> QED
    BY <2>1, <2>3 DEF Forms
<1> QED
  BY <1>2, <1>3, <1>4, <1>5, <1>6 DEF Next

(***************************************************************************)
(* FlagsInv is kept by every form of step.                                 *)
(***************************************************************************)

(* No handler runs after the step, and no level is in one. *)
NobodyRuns ==
    /\ ~HandlerRuns' /\ Len(calls') # 2
    /\ \A i \in 1 .. Len(buffers') : ~buffers'[i].in_handler

LEMMA NobodyKeeps ==
    ASSUME NobodyRuns, deactivated' => buffers' = <<>>
    PROVE  FlagsInv'
  BY DEF NobodyRuns, FlagsInv

(* A handler is over: no handler runs then. *)
LEMMA HandlerOver ==
    ASSUME TypeOK, FlagsInv, HandlerRuns, calls' = Front(calls)
    PROVE  ~HandlerRuns' /\ Len(calls') # 2
<1>1. /\ Len(calls) \in {1, 2} /\ Len(calls') = Len(calls) - 1
      /\ \A i \in 1 .. Len(calls') : calls'[i] = calls[i]
  BY InnermostIs DEF HandlerRuns
<1>2. CASE Len(calls) = 1
  <2>1. Len(calls') = 0
    BY <1>1, <1>2
  <2>2. calls' = <<>>
    <3>1. calls' \in Seq(CallType)
      BY InnermostIs DEF HandlerRuns
    <3> QED
      BY <2>1, <3>1
  <2> QED
    BY <2>1, <2>2 DEF HandlerRuns
<1>3. CASE Len(calls) = 2
  <2>1. Len(calls') = 1 /\ calls'[1] = calls[1] /\ calls[1].call = "error"
    BY <1>1, <1>3 DEF FlagsInv
  <2> QED
    BY <2>1 DEF HandlerRuns, Call, Last
<1> QED
  BY <1>1, <1>2, <1>3

(* The error handler is over: no callback is left. *)
LEMMA ErrorHandlerOver ==
    ASSUME TypeOK, FlagsInv, ErrorRuns, calls' = Front(calls)
    PROVE  Len(calls) = 1 /\ calls' = <<>> /\ ~HandlerRuns /\ ~HandlerRuns' /\ Len(calls') # 2
<1>1. calls # <<>> /\ ~HandlerRuns
  BY DEF ErrorRuns, HandlerRuns
<1>2. /\ Len(calls) = 1
      /\ calls' \in Seq(CallType) /\ Len(calls') = Len(calls) - 1
  <2>1. Len(calls) \in {1, 2} /\ Front(calls) \in Seq(CallType)
        /\ Len(Front(calls)) = Len(calls) - 1
    BY <1>1, InnermostIs
  <2>2. Len(calls) \in {0, 1}
    BY <1>1, AtMostOne
  <2> QED
    BY <2>1, <2>2
<1>3. calls' = <<>>
  BY <1>2
<1> QED
  BY <1>1, <1>2, <1>3 DEF HandlerRuns

(* Below the top level nobody is in a handler. *)
LEMMA NotBelow ==
    ASSUME FlagsInv, NEW i \in 1 .. Len(buffers), i # Len(buffers) \/ ~HandlerRuns
    PROVE  ~buffers[i].in_handler
  BY DEF FlagsInv

(* Settling leaves no level in a handler. *)
LEMMA SettlesFlags ==
    ASSUME TypeOK, FlagsInv, NEW op, NEW out \in Seq(Byte),
           Settles(op, out, stdout, buffers, stdout', buffers')
    PROVE  \A i \in 1 .. Len(buffers') : ~buffers'[i].in_handler
<1>1. /\ buffers # <<>>
      /\ Len(buffers') = (IF op \in Ends THEN Len(buffers) - 1 ELSE Len(buffers))
      /\ \A i \in 1 .. Len(buffers') :
            IF i = Len(buffers) THEN buffers'[i].data = <<>> /\ Idle(buffers'[i], buffers[i])
            ELSE buffers'[i] = IF op \notin Cleaning /\ i = Len(buffers) - 1
                               THEN Data(buffers[i], buffers[i].data \o out) ELSE buffers[i]
  BY DEF Settles
<1>2. Len(buffers) \in Nat \ {0} /\ buffers \in Seq(BufferType)
  BY <1>1, LevelIs DEF TypeOK
<1> TAKE i \in 1 .. Len(buffers')
<1>3. i \in 1 .. Len(buffers)
  BY <1>1, <1>2
<1>4. CASE i = Len(buffers)
  BY <1>1, <1>4 DEF Idle
<1>5. CASE i # Len(buffers)
  <2>1. ~buffers[i].in_handler /\ buffers[i] \in BufferType
    BY <1>2, <1>3, <1>5, NotBelow
  <2>2. buffers[i].data \o out \in Seq(Byte)
    BY <2>1, DataType, ConcatIs
  <2>3. ~Data(buffers[i], buffers[i].data \o out).in_handler
    BY <2>1, <2>2, DataIs
  <2> QED
    BY <1>1, <1>5, <2>1, <2>3
<1> QED
  BY <1>4, <1>5

LEMMA SettledByFlags ==
    ASSUME TypeOK, FlagsInv, NEW op, NEW d \in Seq(Byte), SettledBy(op, d)
    PROVE  buffers # <<>> /\ \A i \in 1 .. Len(buffers') : ~buffers'[i].in_handler
<1>1. PICK out \in Seq(Byte) : Settles(op, out, stdout, buffers, stdout', buffers')
  BY NoData DEF SettledBy
<1>2. buffers # <<>>
  BY <1>1 DEF Settles
<1> QED
  BY <1>1, <1>2, SettlesFlags

(* A new top level that is not in a handler leaves none. *)
LEMMA TopFlags ==
    ASSUME TypeOK, FlagsInv, NEW t, TopBecomes(t), ~t.in_handler
    PROVE  \A i \in 1 .. Len(buffers') : ~buffers'[i].in_handler
<1>1. /\ buffers # <<>> /\ Len(buffers') = Len(buffers)
      /\ \A i \in 1 .. Len(buffers) - 1 : buffers'[i] = buffers[i]
      /\ buffers'[Len(buffers)] = t
  BY DEF TopBecomes
<1>2. Len(buffers) \in Nat \ {0}
  BY <1>1, LevelIs
<1> TAKE i \in 1 .. Len(buffers')
<1>3. CASE i = Len(buffers)
  BY <1>1, <1>3
<1>4. CASE i # Len(buffers)
  <2>1. i \in 1 .. Len(buffers) - 1 /\ i \in 1 .. Len(buffers)
    BY <1>1, <1>2, <1>4
  <2>2. ~buffers[i].in_handler
    BY <1>4, <2>1, NotBelow
  <2> QED
    BY <1>1, <2>1, <2>2
<1> QED
  BY <1>3, <1>4

LEMMA EchoFlags == ASSUME Inv, EchoForm PROVE FlagsInv'
<1>1. TypeOK /\ FlagsInv /\ calls = <<>> /\ calls' = <<>> /\ deactivated' = deactivated
  BY DEF Inv, EchoForm
<1>2. ~HandlerRuns /\ ~HandlerRuns' /\ Len(calls') # 2
  BY <1>1 DEF HandlerRuns
<1>3. (deactivated' => buffers' = <<>>) /\ \A i \in 1 .. Len(buffers') : ~buffers'[i].in_handler
  <2>1. CASE buffers = <<>> /\ buffers' = <<>>
    BY <2>1
  <2>2. CASE TopBecomes(Echoed)
    <3>1. buffers # <<>> /\ ~deactivated
      BY <1>1, <2>2 DEF TopBecomes, FlagsInv
    <3>2. Top \in BufferType /\ ~Top.in_handler /\ Top.data \in Seq(Byte)
      BY <1>1, <1>2, <3>1, LevelIs, AtMostOne
    <3>3. ~Echoed.in_handler
      BY <3>2 DEF Echoed, Data, BufferType
    <3> QED
      BY <1>1, <2>2, <3>1, <3>3, TopFlags
  <2> QED
    BY <2>1, <2>2 DEF EchoForm
<1> QED
  BY <1>2, <1>3, NobodyKeeps DEF NobodyRuns

LEMMA StartFlags == ASSUME Inv, StartForm PROVE FlagsInv'
<1>1. /\ TypeOK /\ FlagsInv /\ ~HandlerRuns /\ calls' = calls /\ ~deactivated'
      /\ Len(buffers) \in Nat
  BY DEF Inv, StartForm, Rest, TypeOK
<1>2. /\ Len(buffers') = Len(buffers) + 1
      /\ \A i \in 1 .. Len(buffers) : buffers'[i] = buffers[i]
      /\ ~buffers'[Len(buffers) + 1].in_handler
  BY DEF StartForm
<1>3. \A i \in 1 .. Len(buffers) : ~buffers[i].in_handler
  BY <1>1, NotBelow
<1>4. \A i \in 1 .. Len(buffers') : ~buffers'[i].in_handler
  BY <1>1, <1>2, <1>3
<1>5. ~HandlerRuns' /\ Len(calls') # 2
  <2>1. Len(calls) \in {0, 1}
    BY <1>1, AtMostOne
  <2> QED
    BY <1>1, <2>1 DEF HandlerRuns, Call
<1> QED
  BY <1>1, <1>4, <1>5, NobodyKeeps DEF NobodyRuns

(* A handler is called: it is the one that runs, on the top level. *)
LEMMA EnterFlags ==
    ASSUME Inv, TypeOK', NEW op, NEW b, Ready(b), Enters(op, b)
    PROVE  FlagsInv'
<1> DEFINE c == [call |-> "handler", op |-> op, n |-> Len(buffers), out |-> b.data]
<1>1. /\ TypeOK /\ FlagsInv /\ ~HandlerRuns /\ buffers # <<>>
      /\ calls' = Append(calls, c) /\ deactivated' = deactivated
  BY DEF Inv, Ready, Enters
<1>2. PICK t \in BufferType : TopBecomes(t) /\ t.data = b.data /\ t.in_handler
  BY DEF Enters
<1>3. /\ Len(buffers') = Len(buffers)
      /\ \A i \in 1 .. Len(buffers) - 1 : buffers'[i] = buffers[i]
      /\ buffers'[Len(buffers)] = t
      /\ Len(buffers) \in Nat \ {0}
  BY <1>1, <1>2, LevelIs DEF TopBecomes
<1>4. calls \in Seq(CallType) /\ Len(calls) \in {0, 1} /\ calls' \in Seq(CallType)
  BY <1>1, AtMostOne DEF TypeOK
<1>5. c.call = "handler" /\ c.n = Len(buffers) /\ c.out = b.data
  OBVIOUS
<1> HIDE DEF c
<1>6. /\ Len(calls') = Len(calls) + 1 /\ calls'[Len(calls) + 1] = c
      /\ \A i \in 1 .. Len(calls) : calls'[i] = calls[i]
  BY <1>1, <1>4
<1>7. HandlerRuns' /\ Call' = c
  BY <1>4, <1>5, <1>6 DEF HandlerRuns, Call, Last
<1>8. Top' = t
  BY <1>3 DEF Top, Last
<1>9. \A i \in 1 .. Len(buffers') : buffers'[i].in_handler <=> i = Len(buffers')
  <2>1. \A i \in 1 .. Len(buffers) : ~buffers[i].in_handler
    BY <1>1, NotBelow
  <2> TAKE i \in 1 .. Len(buffers')
  <2>2. CASE i = Len(buffers)
    BY <1>2, <1>3, <2>2
  <2>3. CASE i # Len(buffers)
    <3>1. i \in 1 .. Len(buffers) - 1
      BY <1>3, <2>3
    <3>2. buffers'[i] = buffers[i] /\ ~buffers[i].in_handler
      BY <1>3, <2>1, <3>1
    <3> QED
      BY <1>3, <2>3, <3>2
  <2> QED
    BY <2>2, <2>3
<1>10. Len(calls') = 2 => calls'[1].call = "error" /\ calls'[2].call = "handler"
  <2> SUFFICES ASSUME Len(calls') = 2 PROVE calls'[1].call = "error" /\ calls'[2].call = "handler"
    OBVIOUS
  <2>1. Len(calls) = 1 /\ calls'[1] = calls[1] /\ calls'[2] = c
    BY <1>4, <1>6
  <2>2. calls # <<>> /\ Call = calls[1] /\ Call \in CallType
    BY <1>1, <2>1, InnermostIs
  <2>3. Call.call = "error"
    BY <1>1, <2>2, CallIs DEF HandlerRuns
  <2> QED
    BY <1>5, <2>1, <2>2, <2>3
<1>11. ~deactivated'
  BY <1>1 DEF FlagsInv
<1>12. HandlerRuns' => Len(buffers') = (Call').n /\ (Call').out = (Top').data
  BY <1>2, <1>3, <1>5, <1>7, <1>8
<1> QED
  BY <1>7, <1>9, <1>10, <1>11, <1>12 DEF FlagsInv

LEMMA BeginFlags == ASSUME Inv, TypeOK', BeginForm PROVE FlagsInv'
<1>1. PICK op \in Op, b \in BufferType :
         /\ Ready(b)
         /\ Enters(op, b) \/ (calls' = calls /\ SettledBy(op, b.data))
  BY DEF BeginForm
<1>2. CASE Enters(op, b)
  BY <1>1, <1>2, EnterFlags
<1>3. CASE calls' = calls /\ SettledBy(op, b.data)
  <2>1. TypeOK /\ FlagsInv /\ ~HandlerRuns /\ deactivated' = deactivated /\ b.data \in Seq(Byte)
    BY <1>1, DataType DEF Inv, Ready
  <2>2. buffers # <<>> /\ \A i \in 1 .. Len(buffers') : ~buffers'[i].in_handler
    BY <1>3, <2>1, SettledByFlags
  <2>3. ~HandlerRuns' /\ Len(calls') # 2
    <3>1. Len(calls) \in {0, 1}
      BY <2>1, AtMostOne
    <3>2. ~HandlerRuns'
      BY <1>3, <2>1 DEF HandlerRuns, Call
    <3>3. calls' = calls
      BY <1>3
    <3> QED
      BY <3>1, <3>2, <3>3
  <2>4. ~deactivated'
    BY <2>1, <2>2 DEF FlagsInv
  <2> QED
    BY <2>2, <2>3, <2>4, NobodyKeeps DEF NobodyRuns
<1> QED
  BY <1>1, <1>2, <1>3

LEMMA PrintFlags == ASSUME Inv, PrintForm PROVE FlagsInv'
<1>1. TypeOK /\ FlagsInv /\ HandlerRuns /\ calls' = calls /\ deactivated' = deactivated
  BY DEF Inv, PrintForm, Rest
<1>2. PICK t \in BufferType : TopBecomes(t) /\ t.data = Top.data /\ t.in_handler
  BY DEF PrintForm
<1>3. /\ buffers # <<>> /\ Len(buffers') = Len(buffers)
      /\ \A i \in 1 .. Len(buffers) - 1 : buffers'[i] = buffers[i]
      /\ buffers'[Len(buffers)] = t
      /\ Len(buffers) \in Nat \ {0}
  BY <1>1, <1>2, LevelIs, RunsInTop DEF TopBecomes
<1>4. Top' = t /\ Call' = Call /\ HandlerRuns'
  BY <1>1, <1>3 DEF Top, Last, Call, HandlerRuns
<1>5. \A i \in 1 .. Len(buffers') : buffers'[i].in_handler <=> i = Len(buffers')
  <2> TAKE i \in 1 .. Len(buffers')
  <2>1. CASE i = Len(buffers)
    BY <1>2, <1>3, <2>1
  <2>2. CASE i # Len(buffers)
    <3>1. i \in 1 .. Len(buffers) - 1 /\ i \in 1 .. Len(buffers)
      BY <1>3, <2>2
    <3>2. buffers'[i] = buffers[i] /\ ~buffers[i].in_handler
      BY <1>1, <1>3, <2>2, <3>1, NotBelow
    <3> QED
      BY <1>3, <2>2, <3>2
  <2> QED
    BY <2>1, <2>2
<1>6. ~deactivated'
  BY <1>1, <1>3 DEF FlagsInv
<1>7. (Call').n = Len(buffers') /\ (Call').out = (Top').data
  BY <1>1, <1>2, <1>3, <1>4, RunsInTop
<1>8. Len(calls') = 2 => calls'[1].call = "error" /\ calls'[2].call = "handler"
  BY <1>1 DEF FlagsInv
<1> QED
  BY <1>4, <1>5, <1>6, <1>7, <1>8 DEF FlagsInv

LEMMA ComplainFlags == ASSUME Inv, ComplainForm PROVE FlagsInv'
<1>1. TypeOK /\ FlagsInv /\ deactivated' = deactivated
  BY DEF Inv, ComplainForm, Rest
<1>2. PICK c \in CallType : calls' = <<c>> /\ c.call = "error"
  BY DEF ComplainForm
<1>3. PICK t \in BufferType : TopBecomes(t) /\ ~t.in_handler
  BY DEF ComplainForm
<1>4. ~HandlerRuns' /\ Len(calls') # 2
  <2>1. Len(calls') = 1 /\ calls'[1] = c
    BY <1>2
  <2> QED
    BY <1>2, <2>1 DEF HandlerRuns, Call, Last
<1>5. \A i \in 1 .. Len(buffers') : ~buffers'[i].in_handler
  BY <1>1, <1>3, TopFlags
<1>6. ~deactivated'
  BY <1>1, <1>3 DEF TopBecomes, FlagsInv
<1> QED
  BY <1>4, <1>5, <1>6, NobodyKeeps DEF NobodyRuns

LEMMA HandlerEndFlags == ASSUME Inv, HandlerSettles \/ StayForm \/ DropForm PROVE FlagsInv'
<1>1. TypeOK /\ FlagsInv /\ HandlerRuns /\ calls' = Front(calls)
  BY DEF Inv, HandlerSettles, StayForm, DropForm
<1>2. ~HandlerRuns' /\ Len(calls') # 2
  BY <1>1, HandlerOver
<1>3. ~deactivated
  BY <1>1, RunsInTop DEF FlagsInv
<1>4. CASE HandlerSettles
  <2>1. SettledBy(Call.op, Top.data) /\ ~deactivated' /\ Top.data \in Seq(Byte)
    BY <1>1, <1>3, <1>4, RunsInTop, LevelIs DEF HandlerSettles, Rest
  <2> QED
    BY <1>1, <1>2, <2>1, SettledByFlags, NobodyKeeps DEF NobodyRuns
<1>5. CASE StayForm
  <2>1. PICK t \in BufferType : TopBecomes(t) /\ ~t.in_handler
    BY <1>5 DEF StayForm
  <2>2. ~deactivated'
    BY <1>3, <1>5 DEF StayForm, Rest
  <2> QED
    BY <1>1, <1>2, <2>1, <2>2, TopFlags, NobodyKeeps DEF NobodyRuns
<1>6. CASE DropForm
  <2>1. buffers' = <<>>
    BY <1>6 DEF DropForm
  <2> QED
    BY <1>2, <2>1, NobodyKeeps DEF NobodyRuns
<1> QED
  BY <1>4, <1>5, <1>6

LEMMA ErrorEndFlags == ASSUME Inv, TypeOK', ErrorSettles \/ ErrorThins \/ ErrorStops PROVE FlagsInv'
<1>1. /\ TypeOK /\ FlagsInv /\ ErrorRuns /\ calls # <<>> /\ calls' = Front(calls)
      /\ deactivated' = deactivated
  BY DEF Inv, ErrorSettles, ErrorThins, ErrorStops, ErrorRuns, Rest
<1>2. ~HandlerRuns /\ ~HandlerRuns' /\ Len(calls') # 2
  BY <1>1, ErrorHandlerOver
<1>3. CASE ErrorSettles
  <2>1. Call.out \in Seq(Byte)
    BY <1>1, InnermostIs, CallIs
  <2>2. Settles(Call.op, Call.out, stdout, buffers, stdout', buffers')
    BY <1>3 DEF ErrorSettles
  <2>3. \A i \in 1 .. Len(buffers') : ~buffers'[i].in_handler
    BY <1>1, <2>1, <2>2, SettlesFlags
  <2>4. ~deactivated'
    BY <1>1, <2>2 DEF Settles, FlagsInv
  <2> QED
    BY <1>2, <2>3, <2>4, NobodyKeeps DEF NobodyRuns
<1>4. CASE ErrorThins
  <2>1. /\ Len(buffers') = Len(buffers)
        /\ \A i \in 1 .. Len(buffers) :
              buffers'[i] = buffers[i] \/ buffers'[i] = Data(buffers[i], <<>>)
    BY <1>4 DEF ErrorThins, Thinned
  <2>2. \A i \in 1 .. Len(buffers') : ~buffers'[i].in_handler
    <3> TAKE i \in 1 .. Len(buffers')
    <3>1. i \in 1 .. Len(buffers) /\ buffers[i] \in BufferType
      BY <1>1, <2>1 DEF TypeOK
    <3>2. ~buffers[i].in_handler
      BY <1>1, <1>2, <3>1, NotBelow
    <3>3. ~Data(buffers[i], <<>>).in_handler
      BY <3>1, <3>2, NoData, DataIs
    <3> QED
      BY <2>1, <3>1, <3>2, <3>3
  <2>3. deactivated' => buffers' = <<>>
    <3> SUFFICES ASSUME deactivated' PROVE buffers' = <<>>
      OBVIOUS
    <3>1. Len(buffers) = 0
      BY <1>1 DEF FlagsInv
    <3>2. buffers' \in Seq(BufferType)
      BY DEF TypeOK
    <3> QED
      BY <2>1, <3>1, <3>2
  <2> QED
    BY <1>2, <2>2, <2>3, NobodyKeeps DEF NobodyRuns
<1>5. CASE ErrorStops
  <2>1. buffers' = <<>>
    BY <1>5 DEF ErrorStops
  <2> QED
    BY <1>2, <2>1, NobodyKeeps DEF NobodyRuns
<1> QED
  BY <1>3, <1>4, <1>5

(* FlagsInv is kept by every step. *)
LEMMA FlagsStep == ASSUME Inv, TypeOK', Forms PROVE FlagsInv'
<1>1. ASSUME Quiet PROVE FlagsInv'
  BY <1>1 DEF Inv, Quiet, FlagsInv, HandlerRuns, Call, Top
<1> QED
  BY <1>1, EchoFlags, StartFlags, BeginFlags, PrintFlags, ComplainFlags, HandlerEndFlags,
     ErrorEndFlags DEF Forms

(***************************************************************************)
(* OrderInv: bytes in order.                                               *)
(***************************************************************************)
LEMMA Nothing ==
    ASSUME NEW s, NEW m
    PROVE  Increasing(<<>>) /\ Before(<<>>, s) /\ Before(s, <<>>) /\ UpTo(<<>>, m)
  BY DEF Increasing, Before, UpTo

LEMMA BeforeConcat ==
    ASSUME NEW s \in Seq(Byte), NEW t \in Seq(Byte), NEW u \in Seq(Byte)
    PROVE  /\ Before(s, u) /\ Before(t, u) => Before(s \o t, u)
           /\ Before(u, s) /\ Before(u, t) => Before(u, s \o t)
<1>1. ASSUME Before(s, u), Before(t, u) PROVE Before(s \o t, u)
  <2> SUFFICES ASSUME NEW i \in DOMAIN (s \o t), NEW j \in DOMAIN u PROVE (s \o t)[i] < u[j]
    BY DEF Before
  <2>1. \/ i \in DOMAIN s /\ (s \o t)[i] = s[i]
        \/ i - Len(s) \in DOMAIN t /\ (s \o t)[i] = t[i - Len(s)]
    BY ConcatAt
  <2> QED
    BY <1>1, <2>1 DEF Before
<1>2. ASSUME Before(u, s), Before(u, t) PROVE Before(u, s \o t)
  <2> SUFFICES ASSUME NEW i \in DOMAIN (s \o t), NEW j \in DOMAIN u PROVE u[j] < (s \o t)[i]
    BY DEF Before
  <2>1. \/ i \in DOMAIN s /\ (s \o t)[i] = s[i]
        \/ i - Len(s) \in DOMAIN t /\ (s \o t)[i] = t[i - Len(s)]
    BY ConcatAt
  <2> QED
    BY <1>2, <2>1 DEF Before
<1> QED
  BY <1>1, <1>2

LEMMA UpToConcat ==
    ASSUME NEW s \in Seq(Byte), NEW t \in Seq(Byte), NEW m, UpTo(s, m), UpTo(t, m)
    PROVE  UpTo(s \o t, m)
<1> SUFFICES ASSUME NEW i \in DOMAIN (s \o t) PROVE (s \o t)[i] <= m
  BY DEF UpTo
<1>1. \/ i \in DOMAIN s /\ (s \o t)[i] = s[i]
      \/ i - Len(s) \in DOMAIN t /\ (s \o t)[i] = t[i - Len(s)]
  BY ConcatAt
<1> QED
  BY <1>1 DEF UpTo

LEMMA IncreasingConcat ==
    ASSUME NEW s \in Seq(Byte), NEW t \in Seq(Byte),
           Increasing(s), Increasing(t), Before(s, t)
    PROVE  Increasing(s \o t)
<1> SUFFICES ASSUME NEW i \in DOMAIN (s \o t), NEW j \in DOMAIN (s \o t), i < j
             PROVE  (s \o t)[i] < (s \o t)[j]
  BY DEF Increasing
<1>1. \/ i \in DOMAIN s /\ (s \o t)[i] = s[i]
      \/ i - Len(s) \in DOMAIN t /\ (s \o t)[i] = t[i - Len(s)]
  BY ConcatAt
<1>2. \/ j \in DOMAIN s /\ (s \o t)[j] = s[j]
      \/ j - Len(s) \in DOMAIN t /\ (s \o t)[j] = t[j - Len(s)]
  BY ConcatAt
<1>3. /\ DOMAIN s = 1 .. Len(s) /\ DOMAIN t = 1 .. Len(t)
      /\ Len(s) \in Nat /\ Len(t) \in Nat /\ i \in Nat /\ j \in Nat
  OBVIOUS
<1>4. CASE i \in DOMAIN s /\ j \in DOMAIN s
  <2>1. (s \o t)[i] = s[i] /\ (s \o t)[j] = s[j]
    BY <1>4
  <2> QED
    BY <1>4, <2>1 DEF Increasing
<1>5. CASE i \in DOMAIN s /\ j \notin DOMAIN s
  <2>1. (s \o t)[i] = s[i]
    BY <1>5
  <2> QED
    BY <1>2, <1>5, <2>1 DEF Before
<1>6. CASE i \notin DOMAIN s
  <2>1. i - Len(s) \in DOMAIN t /\ (s \o t)[i] = t[i - Len(s)]
    BY <1>1, <1>6
  <2>2. j \notin DOMAIN s
    BY <1>3, <1>6
  <2>3. j - Len(s) \in DOMAIN t /\ (s \o t)[j] = t[j - Len(s)]
    BY <1>2, <2>2
  <2>4. i - Len(s) < j - Len(s)
    BY <1>3
  <2> QED
    BY <2>1, <2>3, <2>4 DEF Increasing
<1> QED
  BY <1>4, <1>5, <1>6

(* Levels over what has left the stack. *)
Pile(o, bs) == o \in Seq(Byte) /\ bs \in Seq(BufferType)

LEMMA AtType ==
    ASSUME NEW o, NEW bs, Pile(o, bs), NEW i \in 0 .. Len(bs) PROVE At(o, bs, i) \in Seq(Byte)
<1>1. CASE i = 0
  BY <1>1 DEF At, Pile
<1>2. CASE i # 0
  <2>1. bs[i] \in BufferType
    BY <1>2 DEF Pile
  <2> QED
    BY <1>2, <2>1, DataType DEF At
<1> QED
  BY <1>1, <1>2

(* Levels go, are emptied, or are new. *)
Thins(o, bs, o1, bs1) ==
    \A i \in 0 .. Len(bs1) :
        \/ At(o1, bs1, i) = <<>>
        \/ i <= Len(bs) /\ At(o1, bs1, i) = At(o, bs, i)

(* Level k receives out, and above it there is nothing. *)
Passes(o, bs, o1, bs1, k, out) ==
    /\ k \in 0 .. Len(bs)
    /\ \A i \in 0 .. Len(bs1) :
          IF i < k THEN At(o1, bs1, i) = At(o, bs, i)
          ELSE IF i = k THEN At(o1, bs1, i) = At(o, bs, i) \o out
          ELSE At(o1, bs1, i) = <<>>

(* What is in the levels, up to m. *)
Ordered(o, bs, m) == InLine(o, bs) /\ \A i \in 0 .. Len(bs) : UpTo(At(o, bs, i), m)

LEMMA OrderedAt ==
    ASSUME NEW o, NEW bs, NEW m, Ordered(o, bs, m), NEW i \in 0 .. Len(bs)
    PROVE  /\ Increasing(At(o, bs, i)) /\ UpTo(At(o, bs, i), m)
           /\ \A j \in 0 .. Len(bs) : j < i => Before(At(o, bs, j), At(o, bs, i))
  BY DEF Ordered, InLine

LEMMA UpToMore ==
    ASSUME NEW s \in Seq(Byte), NEW m \in Nat, NEW m1 \in Nat, m <= m1, UpTo(s, m)
    PROVE  UpTo(s, m1)
<1> SUFFICES ASSUME NEW i \in DOMAIN s PROVE s[i] <= m1
  BY DEF UpTo
<1>1. s[i] <= m
  BY DEF UpTo
<1>2. s[i] \in Byte
  OBVIOUS
<1>3. s[i] \in Nat
  BY <1>2 DEF Byte
<1> QED
  BY <1>1, <1>3

LEMMA ThinOrder ==
    ASSUME NEW o, NEW bs, NEW o1, NEW bs1, Pile(o, bs), Thins(o, bs, o1, bs1),
           NEW m \in Nat, NEW m1 \in Nat, m <= m1, Ordered(o, bs, m), Len(bs1) \in Nat
    PROVE  Ordered(o1, bs1, m1)
<1>1. ASSUME NEW i \in 0 .. Len(bs1) PROVE Increasing(At(o1, bs1, i)) /\ UpTo(At(o1, bs1, i), m1)
  <2>1. CASE At(o1, bs1, i) = <<>>
    BY <2>1, Nothing
  <2>2. CASE i <= Len(bs) /\ At(o1, bs1, i) = At(o, bs, i)
    <3>1. i \in 0 .. Len(bs)
      BY <2>2 DEF Pile
    <3>2. Increasing(At(o, bs, i)) /\ UpTo(At(o, bs, i), m) /\ At(o, bs, i) \in Seq(Byte)
      BY <3>1, OrderedAt, AtType
    <3> QED
      BY <2>2, <3>2, UpToMore
  <2> QED
    BY <2>1, <2>2 DEF Thins
<1>2. ASSUME NEW i \in 0 .. Len(bs1), NEW j \in 0 .. Len(bs1), j < i
      PROVE  Before(At(o1, bs1, j), At(o1, bs1, i))
  <2>1. CASE At(o1, bs1, i) = <<>> \/ At(o1, bs1, j) = <<>>
    BY <2>1, Nothing
  <2>2. CASE At(o1, bs1, i) # <<>> /\ At(o1, bs1, j) # <<>>
    <3>1. /\ i <= Len(bs) /\ At(o1, bs1, i) = At(o, bs, i)
          /\ j <= Len(bs) /\ At(o1, bs1, j) = At(o, bs, j)
      BY <2>2 DEF Thins
    <3>2. i \in 0 .. Len(bs) /\ j \in 0 .. Len(bs)
      BY <3>1 DEF Pile
    <3> QED
      BY <1>2, <3>1, <3>2, OrderedAt
  <2> QED
    BY <2>1, <2>2
<1> QED
  BY <1>1, <1>2 DEF Ordered, InLine

(* out was echoed after everything up to level k. *)
After(o, bs, k, out) ==
    /\ out \in Seq(Byte) /\ Increasing(out)
    /\ \A i \in 0 .. k : Before(At(o, bs, i), out)

LEMMA PassOrder ==
    ASSUME NEW o, NEW bs, NEW o1, NEW bs1, NEW k, NEW out, Pile(o, bs),
           Passes(o, bs, o1, bs1, k, out), After(o, bs, k, out),
           NEW m \in Nat, NEW m1 \in Nat, m <= m1, Ordered(o, bs, m), UpTo(out, m1),
           Len(bs1) \in Nat
    PROVE  Ordered(o1, bs1, m1)
<1>1. k \in 0 .. Len(bs) /\ out \in Seq(Byte) /\ Increasing(out) /\ Len(bs) \in Nat
  BY DEF Passes, After, Pile
<1>2. ASSUME NEW i \in 0 .. Len(bs1) PROVE Increasing(At(o1, bs1, i)) /\ UpTo(At(o1, bs1, i), m1)
  <2>1. CASE i > k
    <3>1. At(o1, bs1, i) = <<>>
      BY <1>1, <2>1 DEF Passes
    <3> QED
      BY <3>1, Nothing
  <2>2. CASE i <= k
    <3>1. i \in 0 .. Len(bs)
      BY <1>1, <2>2
    <3>2. /\ Increasing(At(o, bs, i)) /\ UpTo(At(o, bs, i), m1) /\ At(o, bs, i) \in Seq(Byte)
      BY <3>1, OrderedAt, AtType, UpToMore
    <3>3. CASE i < k
      <4>1. At(o1, bs1, i) = At(o, bs, i)
        BY <3>3 DEF Passes
      <4> QED
        BY <3>2, <4>1
    <3>4. CASE i = k
      <4>1. At(o1, bs1, i) = At(o, bs, i) \o out /\ Before(At(o, bs, i), out)
        BY <1>1, <3>4 DEF Passes, After
      <4> QED
        BY <1>1, <3>2, <4>1, IncreasingConcat, UpToConcat
    <3> QED
      BY <1>1, <2>2, <3>3, <3>4
  <2> QED
    BY <1>1, <2>1, <2>2
<1>3. ASSUME NEW i \in 0 .. Len(bs1), NEW j \in 0 .. Len(bs1), j < i
      PROVE  Before(At(o1, bs1, j), At(o1, bs1, i))
  <2>1. CASE i > k
    <3>1. At(o1, bs1, i) = <<>>
      BY <1>1, <2>1 DEF Passes
    <3> QED
      BY <3>1, Nothing
  <2>2. CASE i <= k
    <3>1. i \in 0 .. Len(bs) /\ j \in 0 .. Len(bs) /\ j < k /\ j \in 0 .. k
      BY <1>1, <1>3, <2>2
    <3>2. /\ At(o, bs, i) \in Seq(Byte) /\ At(o, bs, j) \in Seq(Byte)
          /\ Before(At(o, bs, j), At(o, bs, i)) /\ Before(At(o, bs, j), out)
      BY <1>3, <3>1, OrderedAt, AtType DEF After
    <3>3. At(o1, bs1, j) = At(o, bs, j)
      BY <3>1 DEF Passes
    <3>4. At(o1, bs1, i) \in {At(o, bs, i), At(o, bs, i) \o out}
      BY <1>1, <2>2 DEF Passes
    <3> QED
      BY <1>1, <3>2, <3>3, <3>4, BeforeConcat
  <2> QED
    BY <1>1, <2>1, <2>2
<1> QED
  BY <1>2, <1>3 DEF Ordered, InLine

LEMMA HeldAt ==
    ASSUME NEW o, NEW bs, NEW c, Held(o, bs, c), NEW i \in 0 .. Len(bs)
    PROVE  /\ i < c.n => Before(At(o, bs, i), c.out)
           /\ ~(i < c.n) => At(o, bs, i) = <<>>
  BY DEF Held

LEMMA ThinHeld ==
    ASSUME NEW o, NEW bs, NEW o1, NEW bs1, NEW c, Pile(o, bs), Len(bs1) \in Nat,
           Thins(o, bs, o1, bs1), Held(o, bs, c)
    PROVE  Held(o1, bs1, c)
<1>1. ASSUME NEW i \in 0 .. Len(bs1)
      PROVE  /\ i < c.n => Before(At(o1, bs1, i), c.out)
             /\ ~(i < c.n) => At(o1, bs1, i) = <<>>
  <2>1. CASE At(o1, bs1, i) = <<>>
    BY <2>1, Nothing
  <2>2. CASE i <= Len(bs) /\ At(o1, bs1, i) = At(o, bs, i)
    <3>1. i \in 0 .. Len(bs)
      BY <2>2 DEF Pile
    <3> QED
      BY <2>2, <3>1, HeldAt
  <2> QED
    BY <2>1, <2>2 DEF Thins
<1> QED
  BY <1>1 DEF Held

LEMMA PassHeld ==
    ASSUME NEW o, NEW bs, NEW o1, NEW bs1, NEW k, NEW out, NEW c \in CallType, Pile(o, bs),
           Len(bs1) \in Nat, Passes(o, bs, o1, bs1, k, out), out \in Seq(Byte),
           Held(o, bs, c), IF k < c.n THEN Before(out, c.out) ELSE out = <<>>
    PROVE  Held(o1, bs1, c)
<1>1. k \in 0 .. Len(bs) /\ Len(bs) \in Nat /\ c.n \in Nat /\ c.out \in Seq(Byte)
  BY CallIs DEF Passes, Pile
<1>2. ASSUME NEW i \in 0 .. Len(bs1)
      PROVE  /\ i < c.n => Before(At(o1, bs1, i), c.out)
             /\ ~(i < c.n) => At(o1, bs1, i) = <<>>
  <2>1. CASE i > k
    <3>1. At(o1, bs1, i) = <<>>
      BY <1>1, <2>1 DEF Passes
    <3> QED
      BY <3>1, Nothing
  <2>2. CASE i < k
    <3>1. i \in 0 .. Len(bs) /\ At(o1, bs1, i) = At(o, bs, i)
      BY <1>1, <2>2 DEF Passes
    <3> QED
      BY <3>1, HeldAt
  <2>3. CASE i = k
    <3>1. /\ i \in 0 .. Len(bs) /\ At(o1, bs1, i) = At(o, bs, i) \o out
          /\ At(o, bs, i) \in Seq(Byte)
      BY <1>1, <2>3, AtType DEF Passes
    <3>2. ASSUME i < c.n PROVE Before(At(o1, bs1, i), c.out)
      <4>1. Before(At(o, bs, i), c.out) /\ Before(out, c.out)
        BY <2>3, <3>1, <3>2, HeldAt
      <4> QED
        BY <1>1, <3>1, <4>1, BeforeConcat
    <3>3. ASSUME ~(i < c.n) PROVE At(o1, bs1, i) = <<>>
      <4>1. At(o, bs, i) = <<>> /\ out = <<>>
        BY <2>3, <3>1, <3>3, HeldAt
      <4>2. <<>> \o <<>> = <<>>
        OBVIOUS
      <4> QED
        BY <3>1, <4>1, <4>2
    <3> QED
      BY <3>2, <3>3
  <2> QED
    BY <1>1, <2>1, <2>2, <2>3
<1> QED
  BY <1>2 DEF Held

(***************************************************************************)
(* The forms of a step, as what happens to the bytes of the levels.        *)
(***************************************************************************)
LEMMA InvPile ==
    ASSUME Inv
    PROVE  /\ Pile(stdout, buffers) /\ Len(buffers) \in Nat /\ printed \in Nat
           /\ Ordered(stdout, buffers, printed)
<1>1. Pile(stdout, buffers) /\ Len(buffers) \in Nat /\ printed \in Nat
  BY DEF Inv, TypeOK, Pile
<1> QED
  BY <1>1 DEF Inv, OrderInv, Ordered

LEMMA AtPositive ==
    ASSUME NEW o, NEW bs, NEW i, i # 0 PROVE At(o, bs, i) = bs[i].data
  BY DEF At

LEMMA AtZero == ASSUME NEW o, NEW bs PROVE At(o, bs, 0) = o
  BY DEF At

(* The top level has other contents. *)
LEMMA TopThins ==
    ASSUME TypeOK, NEW t, TopBecomes(t), t.data \in {<<>>, Top.data}, stdout' = stdout
    PROVE  Thins(stdout, buffers, stdout', buffers')
<1>1. /\ buffers # <<>> /\ Len(buffers') = Len(buffers)
      /\ \A i \in 1 .. Len(buffers) - 1 : buffers'[i] = buffers[i]
      /\ buffers'[Len(buffers)] = t
      /\ Len(buffers) \in Nat \ {0} /\ Top = buffers[Len(buffers)]
  BY LevelIs DEF TopBecomes
<1> SUFFICES ASSUME NEW i \in 0 .. Len(buffers')
             PROVE  \/ At(stdout', buffers', i) = <<>>
                    \/ i <= Len(buffers) /\ At(stdout', buffers', i) = At(stdout, buffers, i)
  BY DEF Thins
<1>2. CASE i = 0
  BY <1>1, <1>2, AtZero
<1>3. CASE i \in 1 .. Len(buffers) - 1
  BY <1>1, <1>3, AtPositive
<1>4. CASE i = Len(buffers)
  BY <1>1, <1>4, AtPositive
<1> QED
  BY <1>1, <1>2, <1>3, <1>4

(* A byte is echoed into the top level. *)
LEMMA EchoPasses ==
    ASSUME Inv, NEW t, TopBecomes(t), t.data = Append(Top.data, printed + 1), stdout' = stdout
    PROVE  Passes(stdout, buffers, stdout', buffers', Len(buffers), <<printed + 1>>)
<1>1. /\ buffers # <<>> /\ Len(buffers') = Len(buffers)
      /\ \A i \in 1 .. Len(buffers) - 1 : buffers'[i] = buffers[i]
      /\ buffers'[Len(buffers)] = t
      /\ Len(buffers) \in Nat \ {0} /\ Top = buffers[Len(buffers)] /\ Top.data \in Seq(Byte)
  BY LevelIs DEF TopBecomes, Inv
<1>2. Append(Top.data, printed + 1) = Top.data \o <<printed + 1>>
  BY <1>1
<1> SUFFICES ASSUME NEW i \in 0 .. Len(buffers)
             PROVE  IF i < Len(buffers)
                    THEN At(stdout', buffers', i) = At(stdout, buffers, i)
                    ELSE At(stdout', buffers', i) = At(stdout, buffers, i) \o <<printed + 1>>
  BY <1>1 DEF Passes
<1>3. CASE i = 0
  BY <1>1, <1>3, AtZero
<1>4. CASE i \in 1 .. Len(buffers) - 1
  BY <1>1, <1>4, AtPositive
<1>5. CASE i = Len(buffers)
  <2>1. i # 0 /\ ~(i < Len(buffers))
    BY <1>1, <1>5
  <2>2. At(stdout', buffers', i) = t.data /\ At(stdout, buffers, i) = Top.data
    BY <1>1, <1>5, <2>1, AtPositive
  <2> QED
    BY <1>2, <2>1, <2>2
<1> QED
  BY <1>1, <1>3, <1>4, <1>5

(* What is settled goes one level down, or nowhere. *)
LEMMA SettlesMoves ==
    ASSUME TypeOK, NEW op, NEW out \in Seq(Byte),
           Settles(op, out, stdout, buffers, stdout', buffers')
    PROVE  /\ op \in Cleaning => Thins(stdout, buffers, stdout', buffers')
           /\ op \notin Cleaning =>
                 Passes(stdout, buffers, stdout', buffers', Len(buffers) - 1, out)
<1> DEFINE n == Len(buffers)
<1>1. /\ buffers # <<>>
      /\ Len(buffers') = (IF op \in Ends THEN n - 1 ELSE n)
      /\ stdout' = (IF op \notin Cleaning /\ n = 1 THEN stdout \o out ELSE stdout)
      /\ \A i \in 1 .. Len(buffers') :
            IF i = n THEN buffers'[i].data = <<>> /\ Idle(buffers'[i], buffers[i])
            ELSE buffers'[i] = IF op \notin Cleaning /\ i = n - 1
                               THEN Data(buffers[i], buffers[i].data \o out) ELSE buffers[i]
  BY DEF Settles
<1>2. n \in Nat \ {0} /\ buffers \in Seq(BufferType)
  BY <1>1, LevelIs DEF TypeOK
<1>3. \A i \in 1 .. n : i = n => (i \in 1 .. Len(buffers') => At(stdout', buffers', i) = <<>>)
  BY <1>1, <1>2, AtPositive
<1>4. \A i \in 0 .. Len(buffers') : i \in 0 .. n
  BY <1>1, <1>2
<1>5. CASE op \in Cleaning
  <2>1. \A i \in 0 .. Len(buffers') :
            \/ At(stdout', buffers', i) = <<>>
            \/ i <= n /\ At(stdout', buffers', i) = At(stdout, buffers, i)
    <3> TAKE i \in 0 .. Len(buffers')
    <3>1. CASE i = 0
      BY <1>1, <1>2, <1>5, <3>1, AtZero
    <3>2. CASE i # 0 /\ i # n
      <4>1. buffers'[i] = buffers[i]
        BY <1>1, <1>5, <3>2
      <4> QED
        BY <1>2, <1>4, <3>2, <4>1, AtPositive
    <3>3. CASE i # 0 /\ i = n
      BY <1>2, <1>3, <3>3
    <3> QED
      BY <3>1, <3>2, <3>3
  <2> QED
    BY <1>5, <2>1 DEF Thins
<1>6. CASE op \notin Cleaning
  <2>1. \A i \in 0 .. Len(buffers') :
          IF i < n - 1 THEN At(stdout', buffers', i) = At(stdout, buffers, i)
          ELSE IF i = n - 1 THEN At(stdout', buffers', i) = At(stdout, buffers, i) \o out
          ELSE At(stdout', buffers', i) = <<>>
    <3> TAKE i \in 0 .. Len(buffers')
    <3>1. CASE i = 0
      <4>1. At(stdout', buffers', i) = stdout' /\ At(stdout, buffers, i) = stdout
        BY <3>1, AtZero
      <4>2. CASE n = 1
        BY <1>1, <1>6, <3>1, <4>1, <4>2
      <4>3. CASE n # 1
        <5>1. stdout' = stdout
          BY <1>1, <4>3
        <5>2. i < n - 1
          <6>1. n \in Nat \ {0} /\ n # 1 /\ i = 0
            BY <1>2, <3>1, <4>3
          <6> HIDE DEF n
          <6> QED
            BY <6>1
        <5> QED
          BY <4>1, <5>1, <5>2
      <4> QED
        BY <4>2, <4>3
    <3>2. CASE i # 0 /\ i = n
      BY <1>2, <1>3, <3>2
    <3>3. CASE i # 0 /\ i < n - 1
      <4>1. buffers'[i] = buffers[i]
        BY <1>1, <1>2, <3>3
      <4> QED
        BY <3>3, <4>1, AtPositive
    <3>4. CASE i # 0 /\ i = n - 1
      <4>1. buffers'[i] = Data(buffers[i], buffers[i].data \o out)
        BY <1>1, <1>2, <1>6, <3>4
      <4>2. buffers[i] \in BufferType
        BY <1>2, <3>4
      <4>3. buffers[i].data \o out \in Seq(Byte)
        BY <4>2, DataType, ConcatIs
      <4>4. buffers'[i].data = buffers[i].data \o out
        BY <4>1, <4>2, <4>3, DataIs
      <4>5. /\ At(stdout', buffers', i) = buffers'[i].data
            /\ At(stdout, buffers, i) = buffers[i].data
        BY <3>4, AtPositive
      <4>6. ~(i < n - 1)
        BY <1>2, <3>4
      <4> QED
        BY <3>4, <4>4, <4>5, <4>6
    <3> QED
      BY <1>2, <1>4, <3>1, <3>2, <3>3, <3>4
  <2>2. n - 1 \in 0 .. Len(buffers)
    BY <1>2
  <2> QED
    BY <1>6, <2>1, <2>2 DEF Passes
<1> QED
  BY <1>5, <1>6

(* No operation waits for the error handler that did not before. *)
CallsRemain ==
    \A i \in 1 .. Len(calls') : (calls'[i]).call = "error" =>
        i \in 1 .. Len(calls) /\ calls'[i] = calls[i]

LEMMA CallHeld ==
    ASSUME Inv, NEW i \in 1 .. Len(calls), calls[i].call = "error"
    PROVE  /\ Held(stdout, buffers, calls[i]) /\ UpTo(calls[i].out, printed)
           /\ calls[i] \in CallType /\ calls[i].out \in Seq(Byte)
<1>1. calls[i] \in CallType
  BY DEF Inv, TypeOK
<1> QED
  BY <1>1, CallIs DEF Inv, OrderInv

(* The step keeps what was held, with a bound that does not shrink. *)
LEMMA CallsKept ==
    ASSUME Inv, CallsRemain, printed' \in Nat, printed <= printed',
           Ordered(stdout', buffers', printed'),
           \A i \in 1 .. Len(calls) :
              calls[i].call = "error" => Held(stdout', buffers', calls[i])
    PROVE  OrderInv'
<1>1. \A i \in 1 .. Len(calls') : (calls'[i]).call = "error" =>
          Held(stdout', buffers', calls'[i]) /\ UpTo((calls'[i]).out, printed')
  <2> SUFFICES ASSUME NEW i \in 1 .. Len(calls'), (calls'[i]).call = "error"
               PROVE  Held(stdout', buffers', calls'[i]) /\ UpTo((calls'[i]).out, printed')
    OBVIOUS
  <2>1. i \in 1 .. Len(calls) /\ calls'[i] = calls[i] /\ calls[i].call = "error"
    BY DEF CallsRemain
  <2>2. UpTo(calls[i].out, printed) /\ calls[i].out \in Seq(Byte) /\ printed \in Nat
    BY <2>1, CallHeld, InvPile
  <2> QED
    BY <2>1, <2>2, UpToMore
<1> QED
  BY <1>1 DEF OrderInv, Ordered

LEMMA ThinKeeps ==
    ASSUME Inv, TypeOK', CallsRemain, printed <= printed',
           Thins(stdout, buffers, stdout', buffers')
    PROVE  OrderInv'
<1>1. Len(buffers') \in Nat /\ printed' \in Nat
  BY DEF TypeOK
<1>2. Ordered(stdout', buffers', printed')
  BY <1>1, InvPile, ThinOrder
<1>3. \A i \in 1 .. Len(calls) : calls[i].call = "error" => Held(stdout', buffers', calls[i])
  BY <1>1, InvPile, CallHeld, ThinHeld
<1> QED
  BY <1>1, <1>2, <1>3, CallsKept

LEMMA PassKeeps ==
    ASSUME Inv, TypeOK', CallsRemain, printed <= printed', NEW k, NEW out,
           Passes(stdout, buffers, stdout', buffers', k, out),
           After(stdout, buffers, k, out), UpTo(out, printed'),
           \A i \in 1 .. Len(calls) : calls[i].call = "error" =>
               IF k < calls[i].n THEN Before(out, calls[i].out) ELSE out = <<>>
    PROVE  OrderInv'
<1>1. Len(buffers') \in Nat /\ printed' \in Nat
  BY DEF TypeOK
<1>2. Ordered(stdout', buffers', printed')
  BY <1>1, InvPile, PassOrder
<1>3. \A i \in 1 .. Len(calls) : calls[i].call = "error" => Held(stdout', buffers', calls[i])
  <2> SUFFICES ASSUME NEW i \in 1 .. Len(calls), calls[i].call = "error"
               PROVE  Held(stdout', buffers', calls[i])
    OBVIOUS
  <2>1. IF k < calls[i].n THEN Before(out, calls[i].out) ELSE out = <<>>
    OBVIOUS
  <2>2. calls[i] \in CallType /\ Held(stdout, buffers, calls[i]) /\ out \in Seq(Byte)
    BY CallHeld DEF After
  <2> QED
    BY <1>1, <2>1, <2>2, InvPile, PassHeld
<1> QED
  BY <1>1, <1>2, <1>3, CallsKept

(***************************************************************************)
(* OrderInv is kept by every form of step.                                 *)
(***************************************************************************)
LEMMA FrontRemains ==
    ASSUME TypeOK, calls # <<>>, calls' = Front(calls) PROVE CallsRemain
<1>1. /\ Len(calls) \in {1, 2} /\ Len(calls') = Len(calls) - 1
      /\ \A i \in 1 .. Len(calls') : calls'[i] = calls[i]
  BY InnermostIs
<1>2. \A i \in 1 .. Len(calls') : i \in 1 .. Len(calls)
  BY <1>1
<1> QED
  BY <1>1, <1>2 DEF CallsRemain

LEMMA SameRemain == calls' = calls => CallsRemain
  BY DEF CallsRemain

(* What leaves the last level leaves the stack. *)
LEMMA BasePasses ==
    ASSUME NEW o, NEW bs, NEW bs1, NEW out, Len(bs) \in Nat, Len(bs1) = 0
    PROVE  Passes(o, bs, o \o out, bs1, 0, out)
<1>1. \A i \in 0 .. 0 : i = 0
  OBVIOUS
<1>2. At(o \o out, bs1, 0) = At(o, bs, 0) \o out
  BY AtZero
<1> QED
  BY <1>1, <1>2 DEF Passes

LEMMA AppendConcat ==
    ASSUME NEW S, NEW s \in Seq(S), NEW x \in S PROVE Append(s, x) = s \o <<x>>
  OBVIOUS

(* The next byte was echoed after every other. *)
LEMMA NextByte ==
    ASSUME Inv, printed + 1 \in Byte
    PROVE  /\ After(stdout, buffers, Len(buffers), <<printed + 1>>)
           /\ UpTo(<<printed + 1>>, printed + 1)
<1> DEFINE one == <<printed + 1>>
<1>1. one \in Seq(Byte) /\ DOMAIN one = {1} /\ one[1] = printed + 1 /\ printed \in Nat
  BY InvPile
<1> HIDE DEF one
<1>2. Increasing(one) /\ UpTo(one, printed + 1)
  BY <1>1 DEF Increasing, UpTo
<1>3. ASSUME NEW i \in 0 .. Len(buffers) PROVE Before(At(stdout, buffers, i), one)
  <2>1. UpTo(At(stdout, buffers, i), printed) /\ At(stdout, buffers, i) \in Seq(Byte)
    BY InvPile, OrderedAt, AtType
  <2>2. \A j \in DOMAIN At(stdout, buffers, i) : At(stdout, buffers, i)[j] \in Byte
    BY <2>1
  <2>3. \A j \in DOMAIN At(stdout, buffers, i) : At(stdout, buffers, i)[j] < printed + 1
    BY <1>1, <2>1, <2>2 DEF UpTo, Byte
  <2> QED
    BY <1>1, <2>3 DEF Before
<1> QED
  BY <1>1, <1>2, <1>3 DEF After, one

(* What is echoed goes into the top level, or leaves the stack. *)
LEMMA EchoLevels ==
    ASSUME Inv, EchoForm, printed + 1 \in Byte
    PROVE  /\ Passes(stdout, buffers, stdout', buffers', Len(buffers), <<printed + 1>>)
           /\ Len(buffers') = Len(buffers)
<1>1. TypeOK
  BY DEF Inv
<1>2. CASE buffers = <<>> /\ buffers' = <<>> /\ stdout' = Append(stdout, printed + 1)
  <2>1. Len(buffers) = 0 /\ Len(buffers') = 0 /\ stdout' = stdout \o <<printed + 1>>
    BY <1>1, <1>2 DEF TypeOK
  <2>2. Passes(stdout, buffers, stdout \o <<printed + 1>>, buffers', 0, <<printed + 1>>)
    BY <2>1, BasePasses
  <2> QED
    BY <2>1, <2>2
<1>3. CASE TopBecomes(Echoed) /\ UNCHANGED stdout
  <2>1. Top \in BufferType /\ Top.data \in Seq(Byte)
    BY <1>1, <1>3, LevelIs DEF TopBecomes
  <2>2. Append(Top.data, printed + 1) \in Seq(Byte)
    BY <2>1
  <2>3. Echoed.data = Append(Top.data, printed + 1)
    BY <2>1, <2>2, DataIs DEF Echoed
  <2>4. Len(buffers') = Len(buffers)
    BY <1>3 DEF TopBecomes
  <2> QED
    BY <1>3, <2>3, <2>4, EchoPasses
<1> QED
  BY <1>2, <1>3 DEF EchoForm

LEMMA EchoOrder == ASSUME Inv, TypeOK', EchoForm PROVE OrderInv'
<1>1. /\ TypeOK /\ calls = <<>> /\ calls' = <<>> /\ printed' = printed + 1
      /\ printed \in Nat /\ Len(buffers) \in Nat
  BY InvPile DEF Inv, EchoForm
<1>2. printed + 1 \in Byte /\ printed <= printed' /\ CallsRemain /\ Len(calls) = 0
  BY <1>1 DEF TypeOK, Byte, CallsRemain
<1>3. After(stdout, buffers, Len(buffers), <<printed + 1>>) /\ UpTo(<<printed + 1>>, printed')
  BY <1>1, <1>2, NextByte
<1>4. Passes(stdout, buffers, stdout', buffers', Len(buffers), <<printed + 1>>)
  BY <1>2, EchoLevels
<1>5. \A i \in 1 .. Len(calls) : FALSE
  BY <1>2
<1> HIDE DEF Inv
<1> QED
  BY <1>2, <1>3, <1>4, <1>5, PassKeeps

LEMMA StartOrder == ASSUME Inv, TypeOK', StartForm PROVE OrderInv'
<1>1. /\ Len(buffers') = Len(buffers) + 1 /\ stdout' = stdout /\ calls' = calls
      /\ \A i \in 1 .. Len(buffers) : buffers'[i] = buffers[i]
      /\ buffers'[Len(buffers) + 1].data = <<>>
      /\ printed' = printed
  BY DEF StartForm, Rest
<1>2. Len(buffers) \in Nat /\ printed \in Nat
  BY InvPile
<1>3. Thins(stdout, buffers, stdout', buffers')
  <2> SUFFICES ASSUME NEW i \in 0 .. Len(buffers')
               PROVE  \/ At(stdout', buffers', i) = <<>>
                      \/ i <= Len(buffers) /\ At(stdout', buffers', i) = At(stdout, buffers, i)
    BY DEF Thins
  <2>1. CASE i = 0
    BY <1>1, <1>2, <2>1, AtZero
  <2>2. CASE i \in 1 .. Len(buffers)
    <3>1. /\ At(stdout', buffers', i) = buffers'[i].data
          /\ At(stdout, buffers, i) = buffers[i].data
      BY <1>2, <2>2, AtPositive
    <3> QED
      BY <1>1, <1>2, <2>2, <3>1
  <2>3. CASE i = Len(buffers) + 1
    <3>1. At(stdout', buffers', i) = buffers'[i].data
      BY <1>2, <2>3, AtPositive
    <3> QED
      BY <1>1, <2>3, <3>1
  <2> QED
    BY <1>1, <1>2, <2>1, <2>2, <2>3
<1>4. printed <= printed'
  BY <1>1, <1>2
<1> QED
  BY <1>1, <1>3, <1>4, SameRemain, ThinKeeps

(* What the top level holds was echoed after what is below. *)
LEMMA TopAfter ==
    ASSUME Inv, buffers # <<>>
    PROVE  /\ After(stdout, buffers, Len(buffers) - 1, Top.data) /\ UpTo(Top.data, printed)
           /\ \A i \in 1 .. Len(calls) : calls[i].call = "error" =>
                 IF Len(buffers) - 1 < calls[i].n
                 THEN Before(Top.data, calls[i].out) ELSE Top.data = <<>>
<1> DEFINE n == Len(buffers)
<1>1. n \in Nat \ {0} /\ Top = buffers[n] /\ Top.data \in Seq(Byte)
  BY LevelIs DEF Inv
<1>2. At(stdout, buffers, n) = Top.data /\ n \in 0 .. Len(buffers)
  BY <1>1, AtPositive
<1>3. /\ Increasing(Top.data) /\ UpTo(Top.data, printed)
      /\ \A j \in 0 .. Len(buffers) : j < n => Before(At(stdout, buffers, j), Top.data)
  BY <1>2, InvPile, OrderedAt
<1>4. \A j \in 0 .. n - 1 : j \in 0 .. Len(buffers) /\ j < n
  BY <1>1
<1>5. After(stdout, buffers, n - 1, Top.data)
  BY <1>1, <1>3, <1>4 DEF After
<1>6. ASSUME NEW i \in 1 .. Len(calls), calls[i].call = "error"
      PROVE  IF n - 1 < calls[i].n THEN Before(Top.data, calls[i].out) ELSE Top.data = <<>>
  <2>1. Held(stdout, buffers, calls[i]) /\ calls[i] \in CallType
    BY <1>6, CallHeld
  <2>2. calls[i].n \in Nat
    BY <2>1, CallIs
  <2>3. CASE n < calls[i].n
    <3>1. Before(Top.data, calls[i].out)
      BY <1>2, <2>1, <2>3, HeldAt
    <3>2. n - 1 < calls[i].n
      BY <1>1, <2>2, <2>3
    <3> QED
      BY <3>1, <3>2
  <2>4. CASE ~(n < calls[i].n)
    <3>1. Top.data = <<>>
      BY <1>2, <2>1, <2>4, HeldAt
    <3> QED
      BY <3>1, Nothing
  <2> QED
    BY <2>3, <2>4
<1> QED
  BY <1>3, <1>5, <1>6

LEMMA NothingAfter ==
    ASSUME NEW k
    PROVE  /\ After(stdout, buffers, k, <<>>) /\ UpTo(<<>>, printed')
           /\ \A i \in 1 .. Len(calls) : calls[i].call = "error" =>
                 IF k < calls[i].n THEN Before(<<>>, calls[i].out) ELSE <<>> = <<>>
  BY Nothing, NoData DEF After

(* An operation that passes d, or nothing, to the level below. *)
LEMMA SettledOrder ==
    ASSUME Inv, TypeOK', CallsRemain, printed <= printed', NEW op, NEW d \in Seq(Byte),
           SettledBy(op, d), buffers # <<>>,
           After(stdout, buffers, Len(buffers) - 1, d), UpTo(d, printed'),
           \A i \in 1 .. Len(calls) : calls[i].call = "error" =>
               IF Len(buffers) - 1 < calls[i].n THEN Before(d, calls[i].out) ELSE d = <<>>
    PROVE  OrderInv'
<1>1. TypeOK
  BY DEF Inv
<1>2. CASE op \notin Cleaning /\ Settles(op, d, stdout, buffers, stdout', buffers')
  <2>1. Passes(stdout, buffers, stdout', buffers', Len(buffers) - 1, d)
    BY <1>1, <1>2, SettlesMoves
  <2> QED
    BY <2>1, PassKeeps
<1>3. CASE Settles(op, <<>>, stdout, buffers, stdout', buffers')
  <2>1. CASE op \in Cleaning
    BY <1>1, <1>3, <2>1, NoData, SettlesMoves, ThinKeeps
  <2>2. CASE op \notin Cleaning
    <3>1. Passes(stdout, buffers, stdout', buffers', Len(buffers) - 1, <<>>)
      BY <1>1, <1>3, <2>2, NoData, SettlesMoves
    <3> DEFINE k == Len(buffers) - 1
    <3>2. /\ After(stdout, buffers, k, <<>>) /\ UpTo(<<>>, printed')
          /\ \A i \in 1 .. Len(calls) : calls[i].call = "error" =>
                IF k < calls[i].n THEN Before(<<>>, calls[i].out) ELSE <<>> = <<>>
      <4> HIDE DEF k
      <4> QED
        BY NothingAfter
    <3> QED
      BY <3>1, <3>2, PassKeeps
  <2> QED
    BY <2>1, <2>2
<1> QED
  BY <1>2, <1>3 DEF SettledBy

LEMMA BeginOrder == ASSUME Inv, TypeOK', BeginForm PROVE OrderInv'
<1>1. PICK op \in Op, b \in BufferType :
         /\ Ready(b)
         /\ Enters(op, b) \/ (calls' = calls /\ SettledBy(op, b.data))
  BY DEF BeginForm
<1>2. /\ TypeOK /\ FlagsInv /\ ~HandlerRuns /\ buffers # <<>> /\ printed \in Nat
      /\ Top \in BufferType /\ Top.data \in Seq(Byte) /\ Len(buffers) \in Nat \ {0}
      /\ b.data \in Seq(Byte)
  BY <1>1, InvPile, LevelIs, DataType DEF Inv, Ready
<1>3. printed <= printed' /\ CallsRemain
  <2>1. printed' = printed \/ printed' = printed + 1
    BY <1>1 DEF Ready
  <2>2. printed <= printed'
    BY <1>2, <2>1
  <2>3. CASE Enters(op, b)
    <3>1. calls \in Seq(CallType)
      BY <1>2 DEF TypeOK
    <3> DEFINE c == [call |-> "handler", op |-> op, n |-> Len(buffers), out |-> b.data]
    <3>2. calls' = Append(calls, c) /\ c.call # "error"
      BY <2>3 DEF Enters
    <3> HIDE DEF c
    <3>3. /\ Len(calls') = Len(calls) + 1 /\ calls'[Len(calls) + 1] = c /\ Len(calls) \in Nat
          /\ \A i \in 1 .. Len(calls) : calls'[i] = calls[i]
      BY <3>1, <3>2
    <3>4. ASSUME NEW i \in 1 .. Len(calls'), (calls'[i]).call = "error"
          PROVE  i \in 1 .. Len(calls) /\ calls'[i] = calls[i]
      BY <3>2, <3>3, <3>4
    <3> QED
      BY <2>2, <3>4 DEF CallsRemain
  <2> QED
    BY <1>1, <2>2, <2>3, SameRemain
<1>4. CASE b = Top /\ printed' = printed
  <2>1. CASE Enters(op, b)
    <3>1. PICK t \in BufferType : TopBecomes(t) /\ t.data = b.data
      BY <2>1 DEF Enters
    <3>2. Thins(stdout, buffers, stdout', buffers')
      BY <1>2, <1>4, <2>1, <3>1, TopThins DEF Enters
    <3> QED
      BY <1>3, <3>2, ThinKeeps
  <2>2. CASE SettledBy(op, b.data)
    BY <1>2, <1>3, <1>4, <2>2, TopAfter, SettledOrder
  <2> QED
    BY <1>1, <2>1, <2>2
<1>5. CASE b = Echoed /\ printed' = printed + 1 /\ calls = <<>>
  <2>1. printed + 1 \in Byte
    BY <1>2, <1>5 DEF TypeOK, Byte
  <2>2. Append(Top.data, printed + 1) \in Seq(Byte)
    BY <1>2, <2>1
  <2>3. b.data = Append(Top.data, printed + 1) /\ b.data = Top.data \o <<printed + 1>>
    <3>1. b = Data(Top, Append(Top.data, printed + 1))
      BY <1>5 DEF Echoed
    <3>2. b.data = Append(Top.data, printed + 1)
      BY <1>2, <2>2, <3>1, DataIs
    <3> QED
      BY <1>2, <2>1, <3>2, AppendConcat
  <2>4. After(stdout, buffers, Len(buffers), <<printed + 1>>) /\ UpTo(<<printed + 1>>, printed')
    BY <1>5, <2>1, NextByte
  <2>5. \A i \in 1 .. Len(calls) : FALSE
    BY <1>5
  <2>6. CASE Enters(op, b)
    <3>1. PICK t \in BufferType : TopBecomes(t) /\ t.data = b.data
      BY <2>6 DEF Enters
    <3>2. Passes(stdout, buffers, stdout', buffers', Len(buffers), <<printed + 1>>)
      BY <2>3, <2>6, <3>1, EchoPasses DEF Enters
    <3> QED
      BY <1>3, <2>4, <2>5, <3>2, PassKeeps
  <2>7. CASE SettledBy(op, b.data)
    <3>1. /\ After(stdout, buffers, Len(buffers) - 1, Top.data) /\ UpTo(Top.data, printed)
      BY <1>2, TopAfter
    <3>2. <<printed + 1>> \in Seq(Byte) /\ Increasing(<<printed + 1>>)
          /\ \A i \in 0 .. Len(buffers) : Before(At(stdout, buffers, i), <<printed + 1>>)
      BY <2>4 DEF After
    <3>3. At(stdout, buffers, Len(buffers)) = Top.data /\ Len(buffers) \in 0 .. Len(buffers)
      BY <1>2, LevelIs, AtPositive
    <3>4. Increasing(b.data)
      BY <1>2, <2>3, <3>1, <3>2, <3>3, IncreasingConcat DEF After
    <3>5. ASSUME NEW i \in 0 .. Len(buffers) - 1 PROVE Before(At(stdout, buffers, i), b.data)
      <4>1. i \in 0 .. Len(buffers)
        BY <1>2
      <4>2. /\ Before(At(stdout, buffers, i), Top.data)
            /\ Before(At(stdout, buffers, i), <<printed + 1>>)
            /\ At(stdout, buffers, i) \in Seq(Byte)
        BY <3>1, <3>2, <4>1, InvPile, AtType DEF After
      <4> QED
        BY <1>2, <2>3, <3>2, <4>2, BeforeConcat
    <3>6. After(stdout, buffers, Len(buffers) - 1, b.data)
      BY <1>2, <3>4, <3>5 DEF After
    <3>7. UpTo(b.data, printed')
      <4>1. UpTo(Top.data, printed') /\ printed' \in Nat
        BY <1>2, <1>3, <1>5, <3>1, UpToMore
      <4> QED
        BY <1>2, <2>3, <2>4, <3>2, <4>1, UpToConcat
    <3> QED
      BY <1>2, <1>3, <2>5, <2>7, <3>6, <3>7, SettledOrder
  <2> QED
    BY <1>1, <2>6, <2>7
<1> QED
  BY <1>1, <1>4, <1>5 DEF Ready

LEMMA PrintOrder == ASSUME Inv, TypeOK', PrintForm PROVE OrderInv'
<1>1. PICK t \in BufferType : TopBecomes(t) /\ t.data = Top.data
  BY DEF PrintForm
<1>2. TypeOK /\ stdout' = stdout /\ calls' = calls /\ printed' = printed /\ printed \in Nat
  BY InvPile DEF Inv, PrintForm, Rest
<1>3. Thins(stdout, buffers, stdout', buffers') /\ CallsRemain /\ printed <= printed'
  BY <1>1, <1>2, TopThins, SameRemain
<1> QED
  BY <1>3, ThinKeeps

LEMMA HandlerEndOrder ==
    ASSUME Inv, TypeOK', HandlerSettles \/ StayForm \/ DropForm PROVE OrderInv'
<1>1. TypeOK /\ FlagsInv /\ HandlerRuns /\ calls' = Front(calls) /\ calls # <<>>
  BY DEF Inv, HandlerSettles, StayForm, DropForm, HandlerRuns
<1>2. printed' = printed /\ printed \in Nat /\ printed <= printed' /\ CallsRemain
  <2>1. printed' = printed /\ printed \in Nat
    BY InvPile DEF HandlerSettles, StayForm, DropForm, Rest
  <2> QED
    BY <1>1, <2>1, FrontRemains
<1>3. buffers # <<>> /\ Top.data \in Seq(Byte)
  BY <1>1, RunsInTop, LevelIs
<1>4. CASE HandlerSettles
  <2>1. SettledBy(Call.op, Top.data)
    BY <1>4 DEF HandlerSettles
  <2>2. UpTo(Top.data, printed')
    BY <1>2, <1>3, TopAfter
  <2> QED
    BY <1>2, <1>3, <2>1, <2>2, TopAfter, SettledOrder
<1>5. CASE StayForm
  <2>1. PICK t \in BufferType : TopBecomes(t) /\ t.data = Top.data
    BY <1>5 DEF StayForm
  <2>2. Thins(stdout, buffers, stdout', buffers')
    BY <1>1, <1>5, <2>1, TopThins DEF StayForm
  <2> QED
    BY <1>2, <2>2, ThinKeeps
<1>6. CASE DropForm
  <2>1. buffers' = <<>> /\ stdout' = stdout /\ Len(buffers) \in Nat
    BY <1>6, InvPile DEF DropForm
  <2>2. Thins(stdout, buffers, stdout', buffers')
    BY <2>1, AtZero DEF Thins
  <2> QED
    BY <1>2, <2>2, ThinKeeps
<1> QED
  BY <1>4, <1>5, <1>6

(* The operation that starts to wait holds what its level did. *)
LEMMA ComplainOrder == ASSUME Inv, TypeOK', ComplainForm PROVE OrderInv'
<1> DEFINE n == Len(buffers)
<1>1. TypeOK /\ FlagsInv /\ HandlerRuns /\ stdout' = stdout /\ printed' = printed
  BY DEF Inv, ComplainForm, Rest
<1>2. buffers # <<>> /\ Call.n = n /\ n \in Nat \ {0} /\ Top = buffers[n] /\ printed \in Nat
  BY <1>1, RunsInTop, LevelIs, InvPile
<1>3. PICK c \in CallType : calls' = <<c>> /\ c.n = Call.n /\ c.out \in {Top.data, <<>>}
  BY DEF ComplainForm
<1>4. PICK t \in BufferType : TopBecomes(t) /\ t.data = <<>>
  BY DEF ComplainForm
<1>5. Thins(stdout, buffers, stdout', buffers')
  BY <1>1, <1>4, TopThins
<1>6. Len(buffers') = n /\ Len(buffers') \in Nat /\ printed <= printed' /\ printed' \in Nat
  BY <1>1, <1>2, <1>4 DEF TopBecomes
<1>7. Ordered(stdout', buffers', printed')
  BY <1>5, <1>6, <1>2, InvPile, ThinOrder
<1>8. Held(stdout', buffers', c) /\ UpTo(c.out, printed')
  <2>1. After(stdout, buffers, n - 1, Top.data) /\ UpTo(Top.data, printed)
    BY <1>2, TopAfter
  <2>2. Increasing(c.out) /\ UpTo(c.out, printed')
    BY <1>1, <1>3, <2>1, Nothing DEF After
  <2>3. ASSUME NEW i \in 0 .. Len(buffers')
        PROVE  IF i < c.n THEN Before(At(stdout', buffers', i), c.out)
               ELSE At(stdout', buffers', i) = <<>>
    <3>1. CASE i < n
      <4>1. i \in 0 .. n - 1
        BY <1>2, <1>6, <3>1
      <4>2. Before(At(stdout, buffers, i), c.out)
        BY <1>3, <2>1, <4>1, Nothing DEF After
      <4>3. At(stdout', buffers', i) = <<>> \/ At(stdout', buffers', i) = At(stdout, buffers, i)
        BY <1>5 DEF Thins
      <4> QED
        BY <1>2, <1>3, <3>1, <4>2, <4>3, Nothing
    <3>2. CASE ~(i < n)
      <4>1. i = n /\ i # 0
        BY <1>2, <1>6, <3>2
      <4>2. At(stdout', buffers', i) = t.data
        BY <1>4, <4>1, AtPositive DEF TopBecomes
      <4> QED
        BY <1>2, <1>3, <1>4, <3>2, <4>2
    <3> QED
      BY <3>1, <3>2
  <2> QED
    BY <2>2, <2>3 DEF Held
<1>9. \A i \in 1 .. Len(calls') : calls'[i] = c
  BY <1>3
<1> QED
  BY <1>7, <1>8, <1>9 DEF OrderInv, Ordered

LEMMA ErrorEndOrder ==
    ASSUME Inv, TypeOK', ErrorSettles \/ ErrorThins \/ ErrorStops PROVE OrderInv'
<1> DEFINE n == Len(buffers)
<1>1. /\ TypeOK /\ FlagsInv /\ ErrorRuns /\ calls # <<>> /\ Call.call = "error"
      /\ calls' = Front(calls)
      /\ printed' = printed /\ printed \in Nat /\ n \in Nat
  BY InvPile DEF Inv, ErrorSettles, ErrorThins, ErrorStops, ErrorRuns, Rest
<1>2. calls' = <<>> /\ printed <= printed' /\ CallsRemain
  BY <1>1, ErrorHandlerOver, FrontRemains
<1>3. /\ Held(stdout, buffers, Call) /\ UpTo(Call.out, printed')
      /\ Call \in CallType /\ Call.out \in Seq(Byte) /\ Call.n \in Nat
  BY <1>1, ErrorCallHolds, InnermostIs, CallIs
<1>4. ASSUME Ordered(stdout', buffers', printed') PROVE OrderInv'
  BY <1>2, <1>4 DEF OrderInv, Ordered
<1>5. Len(buffers') \in Nat /\ printed' \in Nat
  BY DEF TypeOK
<1>6. ASSUME n = Call.n, n # 0 PROVE After(stdout, buffers, n - 1, Call.out)
  <2>1. Increasing(Call.out)
    BY <1>3 DEF Held
  <2>2. ASSUME NEW i \in 0 .. n - 1 PROVE Before(At(stdout, buffers, i), Call.out)
    <3>1. i \in 0 .. Len(buffers) /\ i < Call.n
      BY <1>1, <1>6
    <3> QED
      BY <1>3, <3>1, HeldAt
  <2> QED
    BY <1>3, <2>1, <2>2 DEF After
<1>7. CASE ErrorSettles
  <2>1. n = Call.n /\ n # 0 /\ Settles(Call.op, Call.out, stdout, buffers, stdout', buffers')
    BY <1>1, <1>7, ErrorCallHolds DEF ErrorSettles
  <2>2. CASE Call.op \in Cleaning
    BY <1>1, <1>2, <1>3, <2>1, <2>2, SettlesMoves, ThinKeeps
  <2>3. CASE Call.op \notin Cleaning
    <3>1. Passes(stdout, buffers, stdout', buffers', n - 1, Call.out)
      BY <1>1, <1>3, <2>1, <2>3, SettlesMoves
    <3> QED
      BY <1>1, <1>2, <1>3, <1>4, <1>5, <1>6, <2>1, <3>1, InvPile, PassOrder
  <2> QED
    BY <2>2, <2>3
<1>8. CASE ErrorThins
  <2>1. /\ stdout' = stdout /\ Len(buffers') = n
        /\ \A i \in 1 .. n : buffers'[i] = buffers[i] \/ buffers'[i] = Data(buffers[i], <<>>)
    BY <1>8 DEF ErrorThins, Thinned
  <2>2. Thins(stdout, buffers, stdout', buffers')
    <3> SUFFICES ASSUME NEW i \in 0 .. Len(buffers')
                 PROVE  \/ At(stdout', buffers', i) = <<>>
                        \/ i <= n /\ At(stdout', buffers', i) = At(stdout, buffers, i)
      BY DEF Thins
    <3>1. CASE i = 0
      BY <1>1, <2>1, <3>1, AtZero
    <3>2. CASE i # 0
      <4>1. i \in 1 .. n /\ i <= n /\ buffers[i] \in BufferType
        BY <1>1, <2>1, <3>2 DEF TypeOK
      <4>2. /\ At(stdout', buffers', i) = buffers'[i].data
            /\ At(stdout, buffers, i) = buffers[i].data
        BY <3>2, AtPositive
      <4>3. Data(buffers[i], <<>>).data = <<>>
        BY <4>1, NoData, DataIs
      <4> QED
        BY <2>1, <4>1, <4>2, <4>3
    <3> QED
      BY <3>1, <3>2
  <2> QED
    BY <1>2, <2>2, ThinKeeps
<1>9. CASE ErrorStops
  <2>1. /\ n = Call.n /\ n # 0 /\ buffers' = <<>>
        /\ stdout' = (IF n = 1 THEN stdout \o Call.out ELSE stdout)
    BY <1>1, <1>9, ErrorCallHolds DEF ErrorStops
  <2>2. Len(buffers') = 0
    BY <2>1
  <2>3. CASE n = 1
    <3>1. Passes(stdout, buffers, stdout', buffers', 0, Call.out)
      <4>1. stdout' = stdout \o Call.out
        BY <2>1, <2>3
      <4>2. Passes(stdout, buffers, stdout \o Call.out, buffers', 0, Call.out)
        BY <1>1, <2>2, BasePasses
      <4> QED
        BY <4>1, <4>2
    <3>2. After(stdout, buffers, 0, Call.out)
      BY <1>6, <2>1, <2>3
    <3> QED
      BY <1>1, <1>2, <1>3, <1>4, <1>5, <3>1, <3>2, InvPile, PassOrder
  <2>4. CASE n # 1
    <3>1. Thins(stdout, buffers, stdout', buffers')
      BY <1>1, <2>1, <2>2, <2>4, AtZero DEF Thins
    <3> QED
      BY <1>2, <3>1, ThinKeeps
  <2> QED
    BY <2>3, <2>4
<1> QED
  BY <1>7, <1>8, <1>9

(* OrderInv is kept by every step. *)
LEMMA OrderStep == ASSUME Inv, TypeOK', Forms PROVE OrderInv'
<1>1. ASSUME Quiet PROVE OrderInv'
  <2>1. OrderInv
    BY DEF Inv
  <2> QED
    BY <1>1, <2>1 DEF Quiet, OrderInv
<1> QED
  BY <1>1, EchoOrder, StartOrder, BeginOrder, PrintOrder, ComplainOrder, HandlerEndOrder,
     ErrorEndOrder DEF Forms


(***************************************************************************)
(* The theorems that hold for every error handler.                         *)
(***************************************************************************)
LEMMA InitInv == Init => Inv
<1> SUFFICES ASSUME Init PROVE Inv
  OBVIOUS
<1>1. /\ stdout = <<>> /\ buffers = <<>> /\ calls = <<>> /\ deactivated = FALSE
      /\ ending = FALSE /\ phase = "script" /\ printed = 0 /\ gone = {}
      /\ onError \in ErrorHandlers
  BY DEF Init
<1>2. stdout \in Seq(Byte) /\ buffers \in Seq(BufferType) /\ calls \in Seq(CallType)
      /\ Len(buffers) = 0 /\ Len(calls) = 0
  BY <1>1
<1>3. TypeOK
  <2>1. /\ ending \in BOOLEAN /\ deactivated \in BOOLEAN /\ phase \in {"script", "final", "done"}
        /\ gone \subseteq Byte /\ onError \in ErrorHandlers
    BY <1>1
  <2>2. printed \in 0 .. MaxBytes /\ Len(buffers) <= MaxLevel /\ Len(calls) <= 2
    BY <1>1, <1>2, BoundAssumption
  <2> QED
    BY <1>2, <2>1, <2>2 DEF TypeOK
<1>4. ~HandlerRuns
  BY <1>1 DEF HandlerRuns
<1>5. FlagsInv
  BY <1>1, <1>2, <1>4 DEF FlagsInv
<1>6. \A i \in 0 .. Len(buffers) : At(stdout, buffers, i) = <<>>
  BY <1>1, <1>2 DEF At
<1>7. OrderInv
  BY <1>2, <1>6, Nothing DEF OrderInv, InLine
<1> QED
  BY <1>3, <1>5, <1>7 DEF Inv

LEMMA StepInv == Inv /\ [Next]_vars => Inv'
  BY StepForm, FlagsStep, OrderStep DEF Inv

LEMMA SpecInv == Spec => []Inv
  BY InitInv, StepInv, PTL DEF Spec

(* Every variable keeps its type: there are never more than two callbacks in
   progress, nor more levels than the bound on ob_start. *)
THEOREM TypeCorrect == Spec => []TypeOK
<1>1. Inv => TypeOK
  BY DEF Inv
<1> QED
  BY <1>1, SpecInv, PTL

(* Whatever levels the output goes through, whichever of them handlers and the
   error handler replace, empty, start or end, what is in a level was echoed
   after what is below it and what has left the stack, and each of them is in
   the order of the script. *)
THEOREM BytesInOrder == Spec => []InOrder
<1>1. Inv => InOrder
  BY DEF Inv, OrderInv, InOrder
<1> QED
  BY <1>1, SpecInv, PTL

(* When a handler ends, its level is the top one, and the only one in a
   handler; once output buffering is shut down there is no level. *)
THEOREM LevelsKept == Spec => []HandlersKeepLevels
<1>1. ASSUME Inv PROVE HandlersKeepLevels
  <2> DEFINE In == {i \in DOMAIN buffers : buffers[i].in_handler}
  <2>1. TypeOK /\ FlagsInv /\ DOMAIN buffers = 1 .. Len(buffers)
    BY <1>1 DEF Inv, TypeOK
  <2>2. deactivated => buffers = <<>>
    BY <2>1 DEF FlagsInv
  <2>3. CASE HandlerRuns
    <3>1. Len(buffers) = Call.n /\ buffers # <<>> /\ Len(buffers) \in 1 .. Len(buffers)
          /\ Top = buffers[Len(buffers)]
      BY <2>1, <2>3, RunsInTop, LevelIs
    <3>2. Top.in_handler
      BY <2>1, <2>3, <3>1 DEF FlagsInv
    <3>3. In = {Len(buffers)}
      BY <2>1, <2>3, <3>1 DEF FlagsInv
    <3>4. Cardinality(In) = 1
      BY <3>3, FS_Singleton
    <3> QED
      BY <2>2, <2>3, <3>1, <3>2, <3>4 DEF HandlersKeepLevels
  <2>4. CASE ~HandlerRuns
    <3>1. In = {}
      BY <2>1, <2>4 DEF FlagsInv
    <3>2. Cardinality(In) = 0
      BY <3>1, FS_EmptySet
    <3> QED
      BY <2>2, <2>4, <3>2 DEF HandlersKeepLevels
  <2> QED
    BY <2>3, <2>4
<1> QED
  BY <1>1, SpecInv, PTL

(***************************************************************************)
(* Where the bytes are.                                                    *)
(***************************************************************************)

(* The bytes of the levels up to the k-th. *)
Through(o, bs, k) == UNION {ToSet(At(o, bs, i)) : i \in 0 .. k}

LEMMA InThrough ==
    ASSUME NEW o, NEW bs, NEW k, NEW x
    PROVE  x \in Through(o, bs, k) <=> \E i \in 0 .. k : x \in ToSet(At(o, bs, i))
  BY DEF Through

LEMMA NoBytes == ToSet(<<>>) = {}
  BY DEF ToSet

LEMMA OneByte == ASSUME NEW x PROVE ToSet(<<x>>) = {x}
<1>1. DOMAIN <<x>> = {1} /\ <<x>>[1] = x
  OBVIOUS
<1> QED
  BY <1>1 DEF ToSet

LEMMA HoldingIs ==
    ASSUME NEW bs \in Seq(BufferType), NEW x
    PROVE  x \in Holding(bs) <=> \E i \in 1 .. Len(bs) : x \in ToSet(bs[i].data)
  BY DEF Holding

(* Up to the top: what has left the stack, and what the levels hold. *)
LEMMA ThroughAll ==
    ASSUME NEW o, NEW bs, Pile(o, bs)
    PROVE  Through(o, bs, Len(bs)) = ToSet(o) \cup Holding(bs)
<1>1. bs \in Seq(BufferType) /\ Len(bs) \in Nat
  BY DEF Pile
<1>2. ASSUME NEW x \in Through(o, bs, Len(bs)) PROVE x \in ToSet(o) \cup Holding(bs)
  <2>1. PICK i \in 0 .. Len(bs) : x \in ToSet(At(o, bs, i))
    BY <1>2, InThrough
  <2>2. CASE i = 0
    BY <2>1, <2>2, AtZero
  <2>3. CASE i # 0
    <3>1. i \in 1 .. Len(bs) /\ x \in ToSet(bs[i].data)
      BY <1>1, <2>1, <2>3, AtPositive
    <3> QED
      BY <1>1, <3>1, HoldingIs
  <2> QED
    BY <2>2, <2>3
<1>3. ASSUME NEW x \in ToSet(o) PROVE x \in Through(o, bs, Len(bs))
  <2>1. 0 \in 0 .. Len(bs) /\ x \in ToSet(At(o, bs, 0))
    BY <1>1, <1>3, AtZero
  <2> QED
    BY <2>1, InThrough
<1>4. ASSUME NEW x \in Holding(bs) PROVE x \in Through(o, bs, Len(bs))
  <2>1. PICK i \in 1 .. Len(bs) : x \in ToSet(bs[i].data)
    BY <1>1, <1>4, HoldingIs
  <2>2. i \in 0 .. Len(bs) /\ i # 0
    BY <1>1
  <2>3. x \in ToSet(At(o, bs, i))
    BY <2>1, <2>2, AtPositive
  <2> QED
    BY <2>2, <2>3, InThrough
<1> QED
  BY <1>2, <1>3, <1>4

LEMMA ThroughZero == ASSUME NEW o, NEW bs PROVE Through(o, bs, 0) = ToSet(o)
<1>1. 0 .. 0 = {0}
  OBVIOUS
<1> QED
  BY <1>1, AtZero DEF Through

(* The k-th level apart. *)
LEMMA ThroughNext ==
    ASSUME NEW o, NEW bs, NEW k \in Nat \ {0}
    PROVE  Through(o, bs, k) = Through(o, bs, k - 1) \cup ToSet(bs[k].data)
<1>1. At(o, bs, k) = bs[k].data
  BY AtPositive
<1>2. 0 .. k = (0 .. k - 1) \cup {k}
  OBVIOUS
<1> QED
  BY <1>1, <1>2 DEF Through

(* Level k receives out: what is above it is gone. *)
LEMMA PassesThrough ==
    ASSUME NEW o, NEW bs, NEW o1, NEW bs1, NEW k, NEW out \in Seq(Byte), Pile(o, bs),
           Passes(o, bs, o1, bs1, k, out), Len(bs1) \in Nat, k <= Len(bs1)
    PROVE  Through(o1, bs1, Len(bs1)) = Through(o, bs, k) \cup ToSet(out)
<1>1. k \in 0 .. Len(bs) /\ k \in Nat /\ k \in 0 .. Len(bs1) /\ Len(bs) \in Nat
  BY DEF Passes, Pile
<1>2. \A i \in 0 .. Len(bs1) :
          IF i < k THEN At(o1, bs1, i) = At(o, bs, i)
          ELSE IF i = k THEN At(o1, bs1, i) = At(o, bs, i) \o out
          ELSE At(o1, bs1, i) = <<>>
  BY DEF Passes
<1>3. At(o, bs, k) \in Seq(Byte)
  BY <1>1, AtType
<1>4. ToSet(At(o1, bs1, k)) = ToSet(At(o, bs, k)) \cup ToSet(out)
  <2>1. At(o1, bs1, k) = At(o, bs, k) \o out
    BY <1>1, <1>2
  <2> QED
    BY <1>3, <2>1, ConcatSet
<1>5. ASSUME NEW x \in Through(o1, bs1, Len(bs1)) PROVE x \in Through(o, bs, k) \cup ToSet(out)
  <2>1. PICK i \in 0 .. Len(bs1) : x \in ToSet(At(o1, bs1, i))
    BY <1>5, InThrough
  <2>2. CASE i < k
    <3>1. i \in 0 .. k /\ At(o1, bs1, i) = At(o, bs, i)
      BY <1>1, <1>2, <2>2
    <3> QED
      BY <2>1, <3>1, InThrough
  <2>3. CASE i = k
    <3>1. k \in 0 .. k
      BY <1>1
    <3> QED
      BY <1>4, <2>1, <2>3, <3>1, InThrough
  <2>4. CASE ~(i < k) /\ i # k
    BY <1>2, <2>1, <2>4, NoBytes
  <2> QED
    BY <2>2, <2>3, <2>4
<1>6. ASSUME NEW x \in Through(o, bs, k) PROVE x \in Through(o1, bs1, Len(bs1))
  <2>1. PICK i \in 0 .. k : x \in ToSet(At(o, bs, i))
    BY <1>6, InThrough
  <2>2. i \in 0 .. Len(bs1) /\ (i < k \/ i = k)
    BY <1>1
  <2>3. x \in ToSet(At(o1, bs1, i))
    BY <1>2, <1>4, <2>1, <2>2
  <2> QED
    BY <2>2, <2>3, InThrough
<1>7. ASSUME NEW x \in ToSet(out) PROVE x \in Through(o1, bs1, Len(bs1))
  BY <1>1, <1>4, <1>7, InThrough
<1> QED
  BY <1>5, <1>6, <1>7

(* What one sequence has before another is not in the other. *)
LEMMA BeforeApart ==
    ASSUME NEW s \in Seq(Byte), NEW t \in Seq(Byte), Before(s, t)
    PROVE  ToSet(s) \cap ToSet(t) = {}
<1> SUFFICES ASSUME NEW i \in DOMAIN s, NEW j \in DOMAIN t PROVE s[i] # t[j]
  BY DEF ToSet
<1>1. s[i] \in Byte /\ t[j] \in Byte
  OBVIOUS
<1>2. s[i] < t[j]
  BY DEF Before
<1> QED
  BY <1>1, <1>2 DEF Byte

LEMMA AfterApart ==
    ASSUME NEW o, NEW bs, NEW k \in 0 .. Len(bs), NEW out, Pile(o, bs), After(o, bs, k, out)
    PROVE  Through(o, bs, k) \cap ToSet(out) = {}
<1> SUFFICES ASSUME NEW i \in 0 .. k PROVE ToSet(At(o, bs, i)) \cap ToSet(out) = {}
  BY DEF Through
<1>1. i \in 0 .. Len(bs)
  BY DEF Pile
<1>2. At(o, bs, i) \in Seq(Byte)
  BY <1>1, AtType
<1>3. out \in Seq(Byte) /\ Before(At(o, bs, i), out)
  BY DEF After
<1> QED
  BY <1>2, <1>3, BeforeApart

(* Levels that are as they were up to the k-th, and empty above. *)
LEMMA KeptPasses ==
    ASSUME NEW o, NEW bs, NEW o1, NEW bs1, NEW k \in 0 .. Len(bs), Pile(o, bs),
           \A i \in 0 .. Len(bs1) :
               At(o1, bs1, i) = IF i <= k THEN At(o, bs, i) ELSE <<>>
    PROVE  Passes(o, bs, o1, bs1, k, <<>>)
<1>1. Len(bs) \in Nat
  BY DEF Pile
<1>2. ASSUME NEW i \in 0 .. k PROVE At(o, bs, i) \o <<>> = At(o, bs, i)
  <2>1. i \in 0 .. Len(bs)
    BY <1>1
  <2>2. At(o, bs, i) \in Seq(Byte)
    BY <2>1, AtType
  <2> QED
    BY <2>2, ConcatNothing
<1>3. ASSUME NEW i \in 0 .. Len(bs1)
      PROVE  IF i < k THEN At(o1, bs1, i) = At(o, bs, i)
             ELSE IF i = k THEN At(o1, bs1, i) = At(o, bs, i) \o <<>>
             ELSE At(o1, bs1, i) = <<>>
  <2>1. CASE i < k
    BY <2>1
  <2>2. CASE i = k
    <3>1. k \in 0 .. k /\ i <= k /\ ~(i < k)
      BY <1>1, <2>2
    <3> QED
      BY <1>2, <2>2, <3>1
  <2>3. CASE ~(i < k) /\ i # k
    <3>1. ~(i <= k)
      BY <1>1, <2>3
    <3> QED
      BY <2>3, <3>1
  <2> QED
    BY <2>1, <2>2, <2>3
<1> QED
  BY <1>3 DEF Passes

(* The top level keeps its contents, or is empty. *)
LEMMA TopPasses ==
    ASSUME TypeOK, NEW t, TopBecomes(t), stdout' = stdout
    PROVE  /\ t.data = Top.data =>
                 Passes(stdout, buffers, stdout', buffers', Len(buffers), <<>>)
           /\ t.data = <<>> =>
                 Passes(stdout, buffers, stdout', buffers', Len(buffers) - 1, <<>>)
           /\ Len(buffers') = Len(buffers) /\ Len(buffers) \in Nat \ {0}
<1> DEFINE n == Len(buffers)
<1>1. /\ buffers # <<>> /\ Len(buffers') = n
      /\ \A i \in 1 .. n - 1 : buffers'[i] = buffers[i]
      /\ buffers'[n] = t
      /\ n \in Nat \ {0} /\ Top = buffers[n] /\ Pile(stdout, buffers)
  BY LevelIs DEF TopBecomes, TypeOK, Pile
<1>2. ASSUME NEW i \in 0 .. n - 1 PROVE At(stdout', buffers', i) = At(stdout, buffers, i)
  <2>1. CASE i = 0
    BY <2>1, AtZero
  <2>2. CASE i # 0
    <3>1. i \in 1 .. n - 1
      BY <1>1, <2>2
    <3> QED
      BY <1>1, <2>2, <3>1, AtPositive
  <2> QED
    BY <2>1, <2>2
<1>3. At(stdout', buffers', n) = t.data /\ At(stdout, buffers, n) = Top.data
  BY <1>1, AtPositive
<1>4. ASSUME t.data = Top.data
      PROVE  Passes(stdout, buffers, stdout', buffers', n, <<>>)
  <2>1. n \in 0 .. Len(buffers)
    BY <1>1
  <2>2. \A i \in 0 .. Len(buffers') :
           At(stdout', buffers', i) = IF i <= n THEN At(stdout, buffers, i) ELSE <<>>
    <3> SUFFICES ASSUME NEW i \in 0 .. n
                 PROVE  At(stdout', buffers', i) = At(stdout, buffers, i)
      BY <1>1
    <3>1. i = n \/ i \in 0 .. n - 1
      BY <1>1
    <3> QED
      BY <1>2, <1>3, <1>4, <3>1
  <2> QED
    BY <1>1, <2>1, <2>2, KeptPasses
<1>5. ASSUME t.data = <<>>
      PROVE  Passes(stdout, buffers, stdout', buffers', n - 1, <<>>)
  <2> DEFINE k == n - 1
  <2>1. k \in 0 .. Len(buffers)
    BY <1>1
  <2>2. \A i \in 0 .. Len(buffers') :
           At(stdout', buffers', i) = IF i <= k THEN At(stdout, buffers, i) ELSE <<>>
    <3> TAKE i \in 0 .. Len(buffers')
    <3>1. (i = n /\ ~(i <= k)) \/ (i \in 0 .. n - 1 /\ i <= k)
      BY <1>1
    <3> QED
      BY <1>2, <1>3, <1>5, <3>1
  <2> HIDE DEF k
  <2>3. Passes(stdout, buffers, stdout', buffers', k, <<>>)
    BY <1>1, <2>1, <2>2, KeptPasses
  <2> QED
    BY <2>3 DEF k
<1> QED
  BY <1>1, <1>4, <1>5

(* What a level that is done with passes on, and where. *)
LEMMA SettlesPasses ==
    ASSUME TypeOK, NEW op, NEW out \in Seq(Byte),
           Settles(op, out, stdout, buffers, stdout', buffers')
    PROVE  /\ Passes(stdout, buffers, stdout', buffers', Len(buffers) - 1,
                     IF op \in Cleaning THEN <<>> ELSE out)
           /\ Len(buffers) - 1 <= Len(buffers') /\ Len(buffers) \in Nat \ {0}
<1> DEFINE n == Len(buffers)
           k == n - 1
<1>1. /\ buffers # <<>>
      /\ Len(buffers') = (IF op \in Ends THEN n - 1 ELSE n)
      /\ stdout' = (IF op \notin Cleaning /\ n = 1 THEN stdout \o out ELSE stdout)
      /\ \A i \in 1 .. Len(buffers') :
            IF i = n THEN buffers'[i].data = <<>> /\ Idle(buffers'[i], buffers[i])
            ELSE buffers'[i] = IF op \notin Cleaning /\ i = n - 1
                               THEN Data(buffers[i], buffers[i].data \o out) ELSE buffers[i]
  BY DEF Settles
<1>2. n \in Nat \ {0} /\ Pile(stdout, buffers)
  BY <1>1, LevelIs DEF TypeOK, Pile
<1>3. n - 1 <= Len(buffers')
  BY <1>1, <1>2
<1>4. CASE op \notin Cleaning
  BY <1>2, <1>3, <1>4, SettlesMoves
<1>5. CASE op \in Cleaning
  <2>1. ASSUME NEW i \in 0 .. Len(buffers')
        PROVE  At(stdout', buffers', i) = IF i <= k THEN At(stdout, buffers, i) ELSE <<>>
    <3>1. CASE i = 0
      <4>1. i <= k
        BY <1>2, <3>1
      <4> QED
        BY <1>1, <1>5, <3>1, <4>1, AtZero
    <3>2. CASE i # 0 /\ i = n
      <4>1. ~(i <= k)
        BY <1>2, <3>2
      <4> QED
        BY <1>1, <3>2, <4>1, AtPositive
    <3>3. CASE i # 0 /\ i # n
      <4>1. i <= k /\ i \in 1 .. Len(buffers')
        BY <1>1, <1>2, <3>3
      <4> QED
        BY <1>1, <1>5, <3>3, <4>1, AtPositive
    <3> QED
      BY <3>1, <3>2, <3>3
  <2>2. k \in 0 .. Len(buffers)
    BY <1>2
  <2> HIDE DEF k
  <2>3. Passes(stdout, buffers, stdout', buffers', k, <<>>)
    BY <1>2, <2>1, <2>2, KeptPasses
  <2> QED
    BY <1>2, <1>3, <1>5, <2>3 DEF k
<1> QED
  BY <1>4, <1>5

(***************************************************************************)
(* Without an error handler that uses output buffering.                    *)
(***************************************************************************)

(* The callback in progress is about the top level; a level that was told that
   it is over is the one that is being ended. *)
EndsInv ==
    /\ calls # <<>> => Len(calls) = 1 /\ Len(buffers) = Call.n
    /\ \A i \in 1 .. Len(buffers) :
          buffers[i].finished => i = Len(buffers) /\ calls # <<>> /\ Call.op \in Ends

BytesInv == gone \subseteq 1 .. printed /\ Accounted

AloneInv == onError # "buffers" => EndsInv /\ BytesInv

(* What an operation that waits for the error handler is to pass on. *)
Waiting ==
    IF calls # <<>> /\ Call.call = "error" /\ Call.op \notin Cleaning
    THEN ToSet(Call.out) ELSE {}

Alone == calls \in Seq(CallType) /\ Len(calls) <= 1

HandIsWaiting == InHand = Waiting

LEMMA InHandIs == Alone => HandIsWaiting
<1> SUFFICES ASSUME Alone PROVE InHand = Waiting
  BY DEF HandIsWaiting
<1>1. calls \in Seq(CallType) /\ Len(calls) \in {0, 1} /\ DOMAIN calls = 1 .. Len(calls)
  <2>1. calls \in Seq(CallType) /\ Len(calls) <= 1 /\ Len(calls) \in Nat
    BY DEF Alone
  <2> DEFINE k == Len(calls)
  <2>2. k \in Nat /\ k <= 1
    BY <2>1
  <2> HIDE DEF k
  <2>3. k \in {0, 1}
    BY <2>2
  <2> QED
    BY <2>1, <2>3 DEF k
<1>2. CASE Len(calls) = 0
  <2>1. calls = <<>> /\ DOMAIN calls = {}
    BY <1>1, <1>2
  <2> QED
    BY <2>1 DEF InHand, Waiting
<1>3. CASE Len(calls) = 1
  <2>1. calls # <<>> /\ DOMAIN calls = {1} /\ Call = calls[1]
    BY <1>1, <1>3 DEF Call, Last
  <2> QED
    BY <2>1 DEF InHand, Waiting
<1> QED
  BY <1>1, <1>2, <1>3

(* The bytes that are on their way. *)
OnWay == Through(stdout, buffers, Len(buffers)) \cup Waiting

WhereTheyAre == Accounted <=> (1 .. printed) \ gone = OnWay

LEMMA AccountedIs == TypeOK /\ Alone => WhereTheyAre
<1> SUFFICES ASSUME TypeOK, Alone PROVE WhereTheyAre
  OBVIOUS
<1>1. Pile(stdout, buffers)
  BY DEF TypeOK, Pile
<1>2. OnWay = ToSet(stdout) \cup Holding(buffers) \cup InHand
  BY <1>1, ThroughAll, InHandIs DEF OnWay, HandIsWaiting
<1> QED
  BY <1>2 DEF Accounted, WhereTheyAre

LEMMA AccountedNext == TypeOK' /\ Alone' => WhereTheyAre'
  BY AccountedIs, PTL

(* The bytes the step gives numbers to. *)
Given == (1 .. printed') \ (1 .. printed)

(* What the step makes disappear counts as gone. *)
Moved ==
    \E lost : /\ gone' = gone \cup lost
              /\ OnWay \cup Given = OnWay' \cup lost
              /\ OnWay' \cap lost = {}

LEMMA MovedKeeps ==
    ASSUME TypeOK, TypeOK', Alone, Alone', printed' \in {printed, printed + 1},
           BytesInv, Moved
    PROVE  BytesInv'
<1> DEFINE P == 1 .. printed
           P1 == 1 .. printed'
<1>1. printed \in Nat /\ P \subseteq P1
  BY DEF TypeOK
<1>2. gone \subseteq P /\ P \ gone = OnWay
  BY AccountedIs DEF BytesInv, WhereTheyAre
<1>3. Given = P1 \ P
  BY DEF Given
<1>4. PICK lost : gone' = gone \cup lost /\ OnWay \cup Given = OnWay' \cup lost
                  /\ OnWay' \cap lost = {}
  BY DEF Moved
<1> HIDE DEF P, P1
<1>5. gone' \subseteq P1 /\ P1 \ gone' = OnWay'
  BY <1>1, <1>2, <1>3, <1>4
<1> QED
  BY <1>5, AccountedNext DEF BytesInv, WhereTheyAre, P1

(* No error handler uses output buffering. *)
Undisturbed == Inv /\ onError # "buffers" /\ EndsInv

LEMMA AloneIs == TypeOK /\ EndsInv => Alone
<1> SUFFICES ASSUME TypeOK, EndsInv PROVE Alone
  OBVIOUS
<1>1. calls \in Seq(CallType) /\ (calls # <<>> => Len(calls) = 1)
  BY DEF TypeOK, EndsInv
<1>2. CASE calls = <<>>
  <2>1. Len(calls) = 0
    BY <1>2
  <2> QED
    BY <1>1, <2>1 DEF Alone
<1>3. CASE calls # <<>>
  <2> DEFINE k == Len(calls)
  <2>1. k = 1
    BY <1>1, <1>3
  <2> HIDE DEF k
  <2>2. k <= 1
    BY <2>1
  <2> QED
    BY <1>1, <2>2 DEF Alone, k
<1> QED
  BY <1>2, <1>3

LEMMA AloneNext == TypeOK' /\ EndsInv' => Alone'
  BY AloneIs, PTL

(* No callback is in progress, and no level was told that it is over. *)
LEMMA NobodyEnds ==
    ASSUME calls' = <<>>, \A i \in 1 .. Len(buffers') : ~buffers'[i].finished
    PROVE  EndsInv'
  BY DEF EndsInv

LEMMA OneOver ==
    ASSUME Undisturbed, calls # <<>>, calls' = Front(calls) PROVE calls' = <<>>
<1>1. TypeOK /\ Len(calls) = 1
  BY DEF Undisturbed, Inv, EndsInv
<1>2. Front(calls) \in Seq(CallType) /\ Len(Front(calls)) = Len(calls) - 1
  BY <1>1, InnermostIs
<1> QED
  BY <1>1, <1>2

(* Settling tells no level that it is over, and an operation that ends a level
   takes it off. *)
LEMMA SettlesEnds ==
    ASSUME TypeOK, NEW op, NEW out \in Seq(Byte),
           Settles(op, out, stdout, buffers, stdout', buffers'),
           NEW i \in 1 .. Len(buffers')
    PROVE  /\ i \in 1 .. Len(buffers)
           /\ buffers'[i].finished => buffers[i].finished
           /\ op \in Ends => i # Len(buffers)
<1> DEFINE n == Len(buffers)
<1>1. /\ buffers # <<>>
      /\ Len(buffers') = (IF op \in Ends THEN n - 1 ELSE n)
      /\ IF i = n THEN buffers'[i].data = <<>> /\ Idle(buffers'[i], buffers[i])
         ELSE buffers'[i] = IF op \notin Cleaning /\ i = n - 1
                            THEN Data(buffers[i], buffers[i].data \o out) ELSE buffers[i]
  BY DEF Settles
<1>2. n \in Nat \ {0} /\ buffers \in Seq(BufferType)
  BY <1>1, LevelIs DEF TypeOK
<1>3. i \in 1 .. n /\ (op \in Ends => i # n)
  BY <1>1, <1>2
<1>4. buffers[i] \in BufferType
  BY <1>2, <1>3
<1>5. buffers[i].data \o out \in Seq(Byte)
  BY <1>4, DataType, ConcatIs
<1>6. Data(buffers[i], buffers[i].data \o out).finished <=> buffers[i].finished
  <2> DEFINE d == buffers[i].data \o out
  <2>1. d \in Seq(Byte)
    BY <1>5
  <2> HIDE DEF d
  <2>2. Data(buffers[i], d).finished <=> buffers[i].finished
    BY <1>4, <2>1, DataIs
  <2> QED
    BY <2>2 DEF d
<1>7. buffers'[i].finished => buffers[i].finished
  BY <1>1, <1>6 DEF Idle
<1> QED
  BY <1>3, <1>7

LEMMA SettledByEnds ==
    ASSUME TypeOK, NEW op, NEW d \in Seq(Byte), SettledBy(op, d),
           \A i \in 1 .. Len(buffers) :
              buffers[i].finished => i = Len(buffers) /\ op \in Ends,
           calls' = <<>>
    PROVE  EndsInv'
<1>1. PICK out \in Seq(Byte) : Settles(op, out, stdout, buffers, stdout', buffers')
  BY NoData DEF SettledBy
<1> QED
  BY <1>1, SettlesEnds, NobodyEnds

(* The levels keep their flags, and the top one has those of t. *)
LEMMA TopEnds ==
    ASSUME TypeOK, NEW t, TopBecomes(t), NEW i \in 1 .. Len(buffers')
    PROVE  /\ Len(buffers') = Len(buffers) /\ i \in 1 .. Len(buffers)
           /\ IF i = Len(buffers) THEN buffers'[i] = t ELSE buffers'[i] = buffers[i]
           /\ Top = buffers[Len(buffers)] /\ Len(buffers) \in 1 .. Len(buffers)
<1>1. /\ buffers # <<>> /\ Len(buffers') = Len(buffers)
      /\ \A j \in 1 .. Len(buffers) - 1 : buffers'[j] = buffers[j]
      /\ buffers'[Len(buffers)] = t
  BY DEF TopBecomes
<1>2. Len(buffers) \in Nat \ {0} /\ Top = buffers[Len(buffers)]
  BY <1>1, LevelIs
<1>3. i # Len(buffers) => i \in 1 .. Len(buffers) - 1
  BY <1>1, <1>2
<1> QED
  BY <1>1, <1>2, <1>3

(* Without callbacks no level was told that it is over. *)
LEMMA NoneFinished ==
    ASSUME EndsInv, calls = <<>> PROVE \A i \in 1 .. Len(buffers) : ~buffers[i].finished
  BY DEF EndsInv

LEMMA EchoEnds == ASSUME Undisturbed, EchoForm PROVE EndsInv'
<1>1. TypeOK /\ EndsInv /\ calls = <<>> /\ calls' = <<>>
  BY DEF Undisturbed, Inv, EchoForm
<1>2. \A i \in 1 .. Len(buffers) : ~buffers[i].finished
  BY <1>1, NoneFinished
<1>3. CASE buffers = <<>> /\ buffers' = <<>>
  BY <1>1, <1>3, NobodyEnds
<1>4. CASE TopBecomes(Echoed)
  <2>1. buffers # <<>> /\ Top \in BufferType
    BY <1>1, <1>4, LevelIs DEF TopBecomes
  <2>2. Echoed.finished <=> Top.finished
    BY <2>1 DEF Echoed, Data, BufferType
  <2>3. \A i \in 1 .. Len(buffers') : ~buffers'[i].finished
    BY <1>1, <1>2, <1>4, <2>2, TopEnds
  <2> QED
    BY <1>1, <2>3, NobodyEnds
<1> QED
  BY <1>3, <1>4 DEF EchoForm

LEMMA StartEnds == ASSUME Undisturbed, StartForm PROVE EndsInv'
<1>1. TypeOK /\ EndsInv /\ calls = <<>> /\ calls' = <<>> /\ Len(buffers) \in Nat
  BY DEF Undisturbed, Inv, StartForm, TypeOK
<1>2. /\ Len(buffers') = Len(buffers) + 1
      /\ \A i \in 1 .. Len(buffers) : buffers'[i] = buffers[i]
      /\ ~buffers'[Len(buffers) + 1].finished
  BY DEF StartForm
<1>3. \A i \in 1 .. Len(buffers) : ~buffers[i].finished
  BY <1>1, NoneFinished
<1>4. \A i \in 1 .. Len(buffers') : ~buffers'[i].finished
  BY <1>1, <1>2, <1>3
<1> QED
  BY <1>1, <1>4, NobodyEnds

(* A single callback is in progress, c. *)
LEMMA OneEnds ==
    ASSUME NEW c, calls' = <<c>>, c.n = Len(buffers'),
           \A i \in 1 .. Len(buffers') :
              buffers'[i].finished => i = Len(buffers') /\ c.op \in Ends
    PROVE  EndsInv'
<1>1. Len(calls') = 1 /\ calls' # <<>> /\ Call' = c
  BY DEF Call, Last
<1> QED
  BY <1>1 DEF EndsInv

LEMMA BeginEnds == ASSUME Undisturbed, BeginForm PROVE EndsInv'
<1>1. PICK op \in Op, b \in BufferType :
         /\ Ready(b)
         /\ Enters(op, b) \/ (calls' = calls /\ SettledBy(op, b.data))
  BY DEF BeginForm
<1>2. TypeOK /\ EndsInv /\ calls = <<>> /\ b.data \in Seq(Byte)
  BY <1>1, DataType DEF Undisturbed, Inv, Ready
<1>3. \A i \in 1 .. Len(buffers) : ~buffers[i].finished
  BY <1>2, NoneFinished
<1>4. CASE Enters(op, b)
  <2> DEFINE c == [call |-> "handler", op |-> op, n |-> Len(buffers), out |-> b.data]
  <2>1. calls' = <<c>>
    BY <1>2, <1>4 DEF Enters
  <2>2. c.op = op /\ c.n = Len(buffers)
    OBVIOUS
  <2> HIDE DEF c
  <2>3. PICK t \in BufferType : TopBecomes(t) /\ (t.finished <=> (b.finished \/ op \in Ends))
    BY <1>4 DEF Enters
  <2>4. buffers # <<>> /\ Len(buffers') = Len(buffers) /\ Top \in BufferType
        /\ Len(buffers) \in 1 .. Len(buffers) /\ Top = buffers[Len(buffers)]
    BY <1>2, <2>3, LevelIs DEF TopBecomes
  <2>5. b.finished <=> Top.finished
    BY <1>1, <2>4 DEF Ready, Echoed, Data, BufferType
  <2>6. ~b.finished
    BY <1>3, <2>4, <2>5
  <2>7. \A i \in 1 .. Len(buffers') :
           buffers'[i].finished => i = Len(buffers') /\ c.op \in Ends
    BY <1>2, <1>3, <2>2, <2>3, <2>6, TopEnds
  <2> QED
    BY <2>1, <2>2, <2>4, <2>7, OneEnds
<1>5. CASE calls' = calls /\ SettledBy(op, b.data)
  BY <1>2, <1>3, <1>5, SettledByEnds
<1> QED
  BY <1>1, <1>4, <1>5

LEMMA PrintEnds == ASSUME Undisturbed, PrintForm PROVE EndsInv'
<1>1. TypeOK /\ FlagsInv /\ EndsInv /\ HandlerRuns /\ calls' = calls /\ calls # <<>>
  BY DEF Undisturbed, Inv, PrintForm, HandlerRuns
<1>2. PICK t \in BufferType : TopBecomes(t) /\ (t.finished <=> Top.finished)
  BY DEF PrintForm
<1>3. Len(buffers') = Len(buffers)
  BY <1>2 DEF TopBecomes
<1>4. Call' = Call /\ Len(buffers) = Call.n /\ Len(calls) = 1
  BY <1>1 DEF Call, EndsInv
<1>5. \A i \in 1 .. Len(buffers') :
         buffers'[i].finished => i = Len(buffers') /\ Call.op \in Ends
  <2>1. \A i \in 1 .. Len(buffers) :
           buffers[i].finished => i = Len(buffers) /\ Call.op \in Ends
    BY <1>1 DEF EndsInv
  <2> QED
    BY <1>1, <1>2, <2>1, TopEnds
<1> QED
  BY <1>1, <1>3, <1>4, <1>5 DEF EndsInv

LEMMA ComplainEnds == ASSUME Undisturbed, ComplainForm PROVE EndsInv'
<1>1. TypeOK /\ FlagsInv /\ EndsInv /\ HandlerRuns /\ calls # <<>>
  BY DEF Undisturbed, Inv, ComplainForm, HandlerRuns
<1>2. PICK c \in CallType : calls' = <<c>> /\ c.op = Call.op /\ c.n = Call.n
  BY DEF ComplainForm
<1>3. PICK t \in BufferType : TopBecomes(t) /\ (t.finished <=> Top.finished)
  BY DEF ComplainForm
<1>4. Len(buffers') = Len(buffers) /\ Len(buffers) = Call.n
  BY <1>1, <1>3 DEF TopBecomes, EndsInv
<1>5. \A i \in 1 .. Len(buffers') :
         buffers'[i].finished => i = Len(buffers') /\ c.op \in Ends
  <2>1. \A i \in 1 .. Len(buffers) :
           buffers[i].finished => i = Len(buffers) /\ Call.op \in Ends
    BY <1>1 DEF EndsInv
  <2> QED
    BY <1>1, <1>2, <1>3, <2>1, TopEnds
<1> QED
  BY <1>2, <1>4, <1>5, OneEnds

(* A callback is over. *)
LEMMA CallbackEnds ==
    ASSUME Undisturbed, HandlerSettles \/ StayForm \/ DropForm \/ ErrorSettles \/ ErrorThins
                        \/ ErrorStops
    PROVE  EndsInv' /\ calls # <<>> /\ calls' = <<>> /\ ~ErrorThins
<1>1. /\ TypeOK /\ FlagsInv /\ EndsInv /\ calls # <<>> /\ calls' = Front(calls)
  BY DEF Undisturbed, Inv, HandlerSettles, StayForm, DropForm, ErrorSettles, ErrorThins,
         ErrorStops, HandlerRuns, ErrorRuns
<1>2. calls' = <<>> /\ Len(buffers) = Call.n
  BY <1>1, OneOver DEF EndsInv
<1>3. ~ErrorThins
  BY <1>2 DEF ErrorThins
<1>4. \A i \in 1 .. Len(buffers) :
         buffers[i].finished => i = Len(buffers) /\ Call.op \in Ends
  BY <1>1 DEF EndsInv
<1>5. CASE HandlerSettles
  <2>1. SettledBy(Call.op, Top.data) /\ HandlerRuns
    BY <1>5 DEF HandlerSettles
  <2>2. Top.data \in Seq(Byte)
    BY <1>1, <2>1, RunsInTop, LevelIs
  <2> QED
    BY <1>1, <1>2, <1>3, <1>4, <2>1, <2>2, SettledByEnds
<1>6. CASE StayForm
  <2>1. PICK t \in BufferType : TopBecomes(t) /\ (t.finished <=> Top.finished)
    BY <1>6 DEF StayForm
  <2>2. Call.op \notin Ends
    BY <1>6 DEF StayForm
  <2>3. \A i \in 1 .. Len(buffers') : ~buffers'[i].finished
    BY <1>1, <1>4, <2>1, <2>2, TopEnds
  <2> QED
    BY <1>1, <1>2, <1>3, <2>3, NobodyEnds
<1>7. CASE DropForm \/ ErrorStops
  <2>1. buffers' = <<>>
    BY <1>7 DEF DropForm, ErrorStops
  <2> QED
    BY <1>1, <1>2, <1>3, <2>1, NobodyEnds
<1>8. CASE ErrorSettles
  <2>1. Settles(Call.op, Call.out, stdout, buffers, stdout', buffers')
    BY <1>8 DEF ErrorSettles
  <2>2. Call.out \in Seq(Byte)
    BY <1>1, InnermostIs, CallIs
  <2>3. \A i \in 1 .. Len(buffers') : ~buffers'[i].finished
    BY <1>1, <1>4, <2>1, <2>2, SettlesEnds
  <2> QED
    BY <1>1, <1>2, <1>3, <2>3, NobodyEnds
<1> QED
  BY <1>3, <1>5, <1>6, <1>7, <1>8

(* EndsInv is kept by every step. *)
LEMMA EndsStep == ASSUME Undisturbed, Forms PROVE EndsInv'
<1>1. ASSUME Quiet PROVE EndsInv'
  BY <1>1 DEF Undisturbed, Quiet, EndsInv, Call
<1> QED
  BY <1>1, EchoEnds, StartEnds, BeginEnds, PrintEnds, ComplainEnds, CallbackEnds DEF Forms

(***************************************************************************)
(* Nothing is lost.                                                        *)
(***************************************************************************)

(* No byte is given a number. *)
LEMMA NoneGiven == printed' = printed => Given = {}
  BY DEF Given

LEMMA OneGiven == ASSUME printed \in Nat, printed' = printed + 1 PROVE Given = {printed + 1}
  BY DEF Given

LEMMA NobodyWaits == calls = <<>> \/ HandlerRuns => Waiting = {}
  BY DEF Waiting, HandlerRuns

LEMMA NobodyWaitsNext == calls' = <<>> \/ HandlerRuns' => Waiting' = {}
  BY DEF Waiting, HandlerRuns

(* The levels, and the one on top. *)
LEMMA LevelsAre ==
    ASSUME Inv, buffers # <<>>
    PROVE  /\ Through(stdout, buffers, Len(buffers))
                = Through(stdout, buffers, Len(buffers) - 1) \cup ToSet(Top.data)
           /\ Through(stdout, buffers, Len(buffers) - 1) \cap ToSet(Top.data) = {}
<1> DEFINE k == Len(buffers) - 1
<1>1. Len(buffers) \in Nat \ {0} /\ Top = buffers[Len(buffers)]
  BY LevelIs DEF Inv
<1>2. Through(stdout, buffers, Len(buffers)) = Through(stdout, buffers, k) \cup ToSet(Top.data)
  BY <1>1, ThroughNext
<1>3. After(stdout, buffers, k, Top.data) /\ k \in 0 .. Len(buffers)
  BY <1>1, TopAfter
<1> HIDE DEF k
<1>4. Through(stdout, buffers, k) \cap ToSet(Top.data) = {}
  BY <1>3, InvPile, AfterApart
<1> QED
  BY <1>2, <1>4 DEF k

(* The levels after the step. *)
LEMMA LevelsNext ==
    ASSUME Inv, TypeOK', NEW k, NEW out \in Seq(Byte),
           Passes(stdout, buffers, stdout', buffers', k, out), k <= Len(buffers')
    PROVE  OnWay' = Through(stdout, buffers, k) \cup ToSet(out) \cup Waiting'
<1>1. Pile(stdout, buffers) /\ Len(buffers') \in Nat
  BY InvPile DEF TypeOK
<1> HIDE DEF Inv
<1>2. Through(stdout', buffers', Len(buffers')) = Through(stdout, buffers, k) \cup ToSet(out)
  BY <1>1, PassesThrough
<1> QED
  BY <1>2 DEF OnWay

(* Nothing goes. *)
LEMMA NothingGoes ==
    ASSUME gone' = gone, OnWay \cup Given = OnWay' PROVE Moved
<1>1. gone' = gone \cup {} /\ OnWay \cup Given = OnWay' \cup {} /\ OnWay' \cap {} = {}
  OBVIOUS
<1> QED
  BY <1>1 DEF Moved

(* An operation on the top level is over: what it passes on, d, is what the
   level held, or that and the next byte. *)
LEMMA SettledMoves ==
    ASSUME Inv, TypeOK', NEW op, NEW d \in Seq(Byte), SettledBy(op, d), buffers # <<>>,
           Waiting = {}, Waiting' = {}, ToSet(d) = ToSet(Top.data) \cup Given,
           Through(stdout, buffers, Len(buffers) - 1) \cap Given = {}
    PROVE  Moved
<1> DEFINE k == Len(buffers) - 1
           below == Through(stdout, buffers, k)
<1>1. OnWay = below \cup ToSet(Top.data) /\ below \cap ToSet(Top.data) = {}
  BY LevelsAre DEF OnWay
<1>2. TypeOK
  BY DEF Inv
<1>3. CASE op \notin Cleaning /\ gone' = gone /\ Settles(op, d, stdout, buffers, stdout', buffers')
  <2>1. Passes(stdout, buffers, stdout', buffers', k, d) /\ k <= Len(buffers')
    BY <1>2, <1>3, SettlesPasses
  <2> HIDE DEF k
  <2>2. OnWay' = below \cup ToSet(d)
    BY <2>1, LevelsNext
  <2> HIDE DEF below
  <2>3. OnWay \cup Given = OnWay'
    BY <1>1, <2>2
  <2> QED
    BY <1>3, <2>3, NothingGoes
<1>4. CASE gone' = gone \cup ToSet(d) /\ Settles(op, <<>>, stdout, buffers, stdout', buffers')
  <2>1. Passes(stdout, buffers, stdout', buffers', k, <<>>) /\ k <= Len(buffers')
    BY <1>2, <1>4, NoData, SettlesPasses
  <2>2. below \cap Given = {}
    OBVIOUS
  <2> HIDE DEF k
  <2>3. OnWay' = below
    BY <2>1, NoData, NoBytes, LevelsNext
  <2> HIDE DEF below
  <2>4. OnWay \cup Given = OnWay' \cup ToSet(d) /\ OnWay' \cap ToSet(d) = {}
    BY <1>1, <2>2, <2>3
  <2> QED
    BY <1>4, <2>4 DEF Moved
<1> QED
  BY <1>3, <1>4 DEF SettledBy

(* The next byte is in no level. *)
LEMMA NotYet ==
    ASSUME Inv, printed + 1 \in Byte
    PROVE  Through(stdout, buffers, Len(buffers)) \cap {printed + 1} = {}
<1>1. After(stdout, buffers, Len(buffers), <<printed + 1>>)
  BY NextByte
<1>2. Pile(stdout, buffers) /\ Len(buffers) \in 0 .. Len(buffers)
  BY InvPile
<1> QED
  BY <1>1, <1>2, AfterApart, OneByte

LEMMA NextIsByte ==
    ASSUME TypeOK, TypeOK', printed' = printed + 1
    PROVE  printed + 1 \in Byte /\ <<printed + 1>> \in Seq(Byte) /\ printed \in Nat
<1>1. printed + 1 \in Byte /\ printed \in Nat
  BY DEF TypeOK, Byte
<1> QED
  BY <1>1

LEMMA OneWaits ==
    ASSUME NEW c, calls' = <<c>>
    PROVE  Waiting' = IF c.call = "error" /\ c.op \notin Cleaning THEN ToSet(c.out) ELSE {}
<1>1. calls' # <<>> /\ Call' = c
  BY DEF Call, Last
<1> QED
  BY <1>1 DEF Waiting

LEMMA QuietMoves == ASSUME Quiet PROVE Moved
<1>1. OnWay' = OnWay /\ Given = {} /\ gone' = gone
  BY NoneGiven DEF Quiet, OnWay, Waiting, Call
<1> QED
  BY <1>1, NothingGoes

(* The levels stay as they are, and so does what waits. *)
LEMMA SameMoves ==
    ASSUME Inv, TypeOK', Passes(stdout, buffers, stdout', buffers', Len(buffers), <<>>),
           Len(buffers) <= Len(buffers'), gone' = gone, printed' = printed,
           Waiting = {}, Waiting' = {}
    PROVE  Moved
<1>1. OnWay' = Through(stdout, buffers, Len(buffers))
  BY NoData, NoBytes, LevelsNext
<1> QED
  BY <1>1, NoneGiven, NothingGoes DEF OnWay

(* A byte more. *)
LEMMA MoreMoves ==
    ASSUME Inv, TypeOK', <<printed + 1>> \in Seq(Byte), printed \in Nat,
           Passes(stdout, buffers, stdout', buffers', Len(buffers), <<printed + 1>>),
           Len(buffers) <= Len(buffers'), gone' = gone, printed' = printed + 1,
           Waiting = {}, Waiting' = {}
    PROVE  Moved
<1>1. OnWay' = Through(stdout, buffers, Len(buffers)) \cup {printed + 1}
  BY OneByte, LevelsNext
<1> QED
  BY <1>1, OneGiven, NothingGoes DEF OnWay

LEMMA EchoMoves == ASSUME Undisturbed, TypeOK', EchoForm PROVE Moved
<1>1. /\ Inv /\ TypeOK /\ calls = <<>> /\ calls' = <<>> /\ printed' = printed + 1
      /\ gone' = gone
  BY DEF Undisturbed, Inv, EchoForm
<1>2. printed + 1 \in Byte /\ <<printed + 1>> \in Seq(Byte) /\ printed \in Nat
  BY <1>1, NextIsByte
<1>3. /\ Passes(stdout, buffers, stdout', buffers', Len(buffers), <<printed + 1>>)
      /\ Len(buffers) <= Len(buffers')
  BY <1>1, <1>2, EchoLevels, InvPile
<1>4. Waiting = {} /\ Waiting' = {}
  BY <1>1, NobodyWaits, NobodyWaitsNext
<1> QED
  BY <1>1, <1>2, <1>3, <1>4, MoreMoves

LEMMA StartMoves == ASSUME Undisturbed, TypeOK', StartForm PROVE Moved
<1> DEFINE n == Len(buffers)
<1>1. /\ Inv /\ calls = <<>> /\ calls' = <<>> /\ gone' = gone /\ printed' = printed
      /\ stdout' = stdout /\ Len(buffers') = n + 1
      /\ \A i \in 1 .. n : buffers'[i] = buffers[i]
      /\ buffers'[n + 1].data = <<>>
  BY DEF Undisturbed, StartForm, Rest
<1>2. Pile(stdout, buffers) /\ n \in Nat
  BY <1>1, InvPile
<1>3. \A i \in 0 .. Len(buffers') :
         At(stdout', buffers', i) = IF i <= n THEN At(stdout, buffers, i) ELSE <<>>
  <2> TAKE i \in 0 .. Len(buffers')
  <2>1. CASE i = 0
    BY <1>1, <1>2, <2>1, AtZero
  <2>2. CASE i \in 1 .. n
    BY <1>1, <1>2, <2>2, AtPositive
  <2>3. CASE i = n + 1
    <3>1. i # 0 /\ ~(i <= n)
      BY <1>2, <2>3
    <3> QED
      BY <1>1, <2>3, <3>1, AtPositive
  <2> QED
    BY <1>1, <1>2, <2>1, <2>2, <2>3
<1>4. n \in 0 .. Len(buffers) /\ n <= Len(buffers')
  BY <1>1, <1>2
<1>5. Passes(stdout, buffers, stdout', buffers', n, <<>>)
  <2> HIDE DEF n
  <2> QED
    BY <1>2, <1>3, <1>4, KeptPasses
<1>6. Waiting = {} /\ Waiting' = {}
  BY <1>1, NobodyWaits, NobodyWaitsNext
<1> QED
  BY <1>1, <1>4, <1>5, <1>6, SameMoves

LEMMA BeginMoves == ASSUME Undisturbed, TypeOK', BeginForm PROVE Moved
<1>1. PICK op \in Op, b \in BufferType :
         /\ Ready(b)
         /\ Enters(op, b) \/ (calls' = calls /\ SettledBy(op, b.data))
  BY DEF BeginForm
<1>2. /\ Inv /\ TypeOK /\ calls = <<>> /\ buffers # <<>> /\ Top \in BufferType
      /\ Top.data \in Seq(Byte) /\ Len(buffers) \in Nat \ {0} /\ b.data \in Seq(Byte)
  BY <1>1, DataType, LevelIs DEF Undisturbed, Inv, Ready
<1>3. Waiting = {} /\ Waiting' = {}
  <2>1. Waiting = {}
    BY <1>2, NobodyWaits
  <2>2. CASE Enters(op, b)
    <3> DEFINE c == [call |-> "handler", op |-> op, n |-> Len(buffers), out |-> b.data]
    <3>1. calls' = <<c>>
      BY <1>2, <2>2 DEF Enters
    <3>2. c.call # "error"
      OBVIOUS
    <3> HIDE DEF c
    <3> QED
      BY <2>1, <3>1, <3>2, OneWaits
  <2>3. CASE calls' = calls
    BY <1>2, <2>1, <2>3, NobodyWaitsNext
  <2> QED
    BY <1>1, <2>2, <2>3
<1>4. CASE b = Top /\ printed' = printed
  <2>1. CASE Enters(op, b)
    <3>1. PICK t \in BufferType : TopBecomes(t) /\ t.data = b.data
      BY <2>1 DEF Enters
    <3>2. stdout' = stdout /\ gone' = gone
      BY <2>1 DEF Enters
    <3>3. /\ Passes(stdout, buffers, stdout', buffers', Len(buffers), <<>>)
          /\ Len(buffers) <= Len(buffers')
      BY <1>2, <1>4, <3>1, <3>2, TopPasses
    <3> QED
      BY <1>2, <1>3, <1>4, <3>2, <3>3, SameMoves
  <2>2. CASE SettledBy(op, b.data)
    <3>1. Given = {}
      BY <1>4, NoneGiven
    <3> QED
      BY <1>2, <1>3, <1>4, <2>2, <3>1, SettledMoves
  <2> QED
    BY <1>1, <2>1, <2>2
<1>5. CASE b = Echoed /\ printed' = printed + 1
  <2>1. printed + 1 \in Byte /\ <<printed + 1>> \in Seq(Byte) /\ printed \in Nat
    BY <1>2, <1>5, NextIsByte
  <2>2. Append(Top.data, printed + 1) \in Seq(Byte)
    BY <1>2, <2>1
  <2>3. b.data = Append(Top.data, printed + 1)
    <3>1. b = Data(Top, Append(Top.data, printed + 1))
      BY <1>5 DEF Echoed
    <3> QED
      BY <1>2, <2>2, <3>1, DataIs
  <2>4. CASE Enters(op, b)
    <3>1. PICK t \in BufferType : TopBecomes(t) /\ t.data = b.data
      BY <2>4 DEF Enters
    <3>2. stdout' = stdout /\ gone' = gone
      BY <2>4 DEF Enters
    <3>3. /\ Passes(stdout, buffers, stdout', buffers', Len(buffers), <<printed + 1>>)
          /\ Len(buffers) <= Len(buffers')
      BY <1>2, <2>3, <3>1, <3>2, EchoPasses DEF TopBecomes
    <3> QED
      BY <1>2, <1>3, <1>5, <2>1, <3>2, <3>3, MoreMoves
  <2>5. CASE SettledBy(op, b.data)
    <3>1. Given = {printed + 1}
      BY <1>5, <2>1, OneGiven
    <3>2. ToSet(b.data) = ToSet(Top.data) \cup Given
      <4>1. b.data = Top.data \o <<printed + 1>>
        BY <1>2, <2>1, <2>3, AppendConcat
      <4>2. ToSet(<<printed + 1>>) = {printed + 1}
        BY OneByte
      <4>3. ToSet(Top.data \o <<printed + 1>>) = ToSet(Top.data) \cup ToSet(<<printed + 1>>)
        <5>1. Top.data \in Seq(Byte) /\ <<printed + 1>> \in Seq(Byte)
          BY <1>2, <2>1
        <5> QED
          BY <5>1, ConcatSet
      <4> QED
        BY <3>1, <4>1, <4>2, <4>3
    <3>3. Through(stdout, buffers, Len(buffers) - 1) \cap Given = {}
      BY <1>2, <2>1, <3>1, NotYet, LevelsAre
    <3> QED
      BY <1>2, <1>3, <2>5, <3>2, <3>3, SettledMoves
  <2> QED
    BY <1>1, <2>4, <2>5
<1> QED
  BY <1>1, <1>4, <1>5 DEF Ready

LEMMA PrintMoves == ASSUME Undisturbed, TypeOK', PrintForm PROVE Moved
<1>1. /\ Inv /\ TypeOK /\ HandlerRuns /\ calls' = calls /\ stdout' = stdout /\ gone' = gone
      /\ printed' = printed
  BY DEF Undisturbed, Inv, PrintForm, Rest
<1>2. PICK t \in BufferType : TopBecomes(t) /\ t.data = Top.data
  BY DEF PrintForm
<1>3. /\ Passes(stdout, buffers, stdout', buffers', Len(buffers), <<>>)
      /\ Len(buffers) <= Len(buffers')
  BY <1>1, <1>2, TopPasses
<1>4. Waiting = {} /\ Waiting' = {}
  <2>1. Waiting = {}
    BY <1>1, NobodyWaits
  <2>2. Waiting' = Waiting
    BY <1>1 DEF Waiting, Call
  <2> QED
    BY <2>1, <2>2
<1> QED
  BY <1>1, <1>3, <1>4, SameMoves

(* The operation takes what its level held along, or it is gone. *)
LEMMA ComplainMoves == ASSUME Undisturbed, TypeOK', ComplainForm PROVE Moved
<1> DEFINE k == Len(buffers) - 1
           below == Through(stdout, buffers, k)
           held == ToSet(Top.data)
<1>1. /\ Inv /\ TypeOK /\ FlagsInv /\ HandlerRuns /\ stdout' = stdout /\ printed' = printed
  BY DEF Undisturbed, Inv, ComplainForm, Rest
<1>2. buffers # <<>>
  BY <1>1, RunsInTop
<1>3. PICK c \in CallType :
         /\ calls' = <<c>> /\ c.call = "error" /\ c.op = Call.op
         /\ \/ gone' = gone /\ Call.op \notin Cleaning /\ c.out = Top.data
            \/ gone' = gone \cup held /\ (Call.op \in Cleaning \/ c.out = <<>>)
  BY DEF ComplainForm
<1>4. PICK t \in BufferType : TopBecomes(t) /\ t.data = <<>>
  BY DEF ComplainForm
<1>5. Passes(stdout, buffers, stdout', buffers', k, <<>>) /\ k <= Len(buffers')
  BY <1>1, <1>4, TopPasses
<1>6. OnWay = below \cup held /\ below \cap held = {}
  BY <1>1, <1>2, LevelsAre, NobodyWaits DEF OnWay
<1>7. Waiting' = IF Call.op \notin Cleaning THEN ToSet(c.out) ELSE {}
  BY <1>3, OneWaits
<1> HIDE DEF k
<1>8. OnWay' = below \cup Waiting'
  BY <1>1, <1>5, NoData, NoBytes, LevelsNext
<1>9. Given = {}
  BY <1>1, NoneGiven
<1>10. CASE gone' = gone /\ Call.op \notin Cleaning /\ c.out = Top.data
  <2>1. OnWay' = below \cup held
    BY <1>7, <1>8, <1>10
  <2> QED
    BY <1>6, <1>9, <1>10, <2>1, NothingGoes
<1>11. CASE gone' = gone \cup held /\ (Call.op \in Cleaning \/ c.out = <<>>)
  <2>1. Waiting' = {}
    BY <1>7, <1>11, NoBytes
  <2>2. OnWay' = below
    BY <1>8, <2>1
  <2> HIDE DEF held, below
  <2>3. OnWay \cup Given = OnWay' \cup held /\ OnWay' \cap held = {}
    BY <1>6, <1>9, <2>2
  <2> QED
    BY <1>11, <2>3 DEF Moved
<1> QED
  BY <1>3, <1>10, <1>11

LEMMA HandlerSettlesMoves ==
    ASSUME Undisturbed, TypeOK', HandlerSettles, calls' = <<>> PROVE Moved
<1>1. /\ Inv /\ TypeOK /\ FlagsInv /\ HandlerRuns /\ SettledBy(Call.op, Top.data)
      /\ printed' = printed
  BY DEF Undisturbed, Inv, HandlerSettles, Rest
<1>2. buffers # <<>> /\ Top.data \in Seq(Byte)
  BY <1>1, RunsInTop, LevelIs
<1>3. Given = {} /\ Waiting = {} /\ Waiting' = {}
  BY <1>1, NoneGiven, NobodyWaits, NobodyWaitsNext
<1> QED
  BY <1>1, <1>2, <1>3, SettledMoves

LEMMA StayMoves == ASSUME Undisturbed, TypeOK', StayForm, calls' = <<>> PROVE Moved
<1>1. /\ Inv /\ TypeOK /\ HandlerRuns /\ stdout' = stdout /\ gone' = gone /\ printed' = printed
  BY DEF Undisturbed, Inv, StayForm, Rest
<1>2. PICK t \in BufferType : TopBecomes(t) /\ t.data = Top.data
  BY DEF StayForm
<1>3. /\ Passes(stdout, buffers, stdout', buffers', Len(buffers), <<>>)
      /\ Len(buffers) <= Len(buffers')
  BY <1>1, <1>2, TopPasses
<1>4. Waiting = {} /\ Waiting' = {}
  BY <1>1, NobodyWaits, NobodyWaitsNext
<1> QED
  BY <1>1, <1>3, <1>4, SameMoves

(* What has left the stack is in no level. *)
LEMMA LeftApart == ASSUME Inv PROVE ToSet(stdout) \cap Holding(buffers) = {}
<1>1. Pile(stdout, buffers) /\ InLine(stdout, buffers) /\ buffers \in Seq(BufferType)
      /\ Len(buffers) \in Nat
  BY InvPile DEF Inv, OrderInv, Pile
<1> SUFFICES ASSUME NEW x \in Holding(buffers), x \in ToSet(stdout) PROVE FALSE
  OBVIOUS
<1>2. PICK i \in 1 .. Len(buffers) : x \in ToSet(buffers[i].data)
  BY <1>1, HoldingIs
<1>3. i \in 0 .. Len(buffers) /\ 0 \in 0 .. Len(buffers) /\ 0 < i /\ i # 0
  BY <1>1
<1>4. At(stdout, buffers, 0) = stdout /\ At(stdout, buffers, i) = buffers[i].data
  BY <1>3, AtZero, AtPositive
<1>5. Before(stdout, buffers[i].data)
  BY <1>1, <1>3, <1>4 DEF InLine
<1>6. stdout \in Seq(Byte) /\ buffers[i].data \in Seq(Byte)
  BY <1>1, <1>3, <1>4, AtType
<1> QED
  BY <1>2, <1>5, <1>6, BeforeApart

(* Every level goes. *)
LEMMA DropMoves == ASSUME Undisturbed, TypeOK', DropForm, calls' = <<>> PROVE Moved
<1>1. /\ Inv /\ TypeOK /\ HandlerRuns /\ stdout' = stdout /\ printed' = printed
      /\ buffers' = <<>> /\ gone' = gone \cup Holding(buffers)
  BY DEF Undisturbed, Inv, DropForm
<1>2. Pile(stdout, buffers) /\ Len(buffers') = 0
  BY <1>1, InvPile
<1>3. Given = {} /\ Waiting = {} /\ Waiting' = {}
  BY <1>1, NoneGiven, NobodyWaits, NobodyWaitsNext
<1>4. OnWay = ToSet(stdout) \cup Holding(buffers)
  BY <1>2, <1>3, ThroughAll DEF OnWay
<1>5. OnWay' = ToSet(stdout)
  <2>1. Through(stdout', buffers', 0) = ToSet(stdout')
    BY ThroughZero
  <2> QED
    BY <1>1, <1>2, <1>3, <2>1 DEF OnWay
<1>6. ToSet(stdout) \cap Holding(buffers) = {}
  BY <1>1, LeftApart
<1>7. OnWay \cup Given = OnWay' \cup Holding(buffers) /\ OnWay' \cap Holding(buffers) = {}
  BY <1>3, <1>4, <1>5, <1>6
<1> QED
  BY <1>1, <1>7 DEF Moved

(* The error handler is over, and so is the operation it interrupted. *)
LEMMA ErrorSettlesMoves ==
    ASSUME Undisturbed, TypeOK', ErrorSettles, calls' = <<>> PROVE Moved
<1> DEFINE k == Len(buffers) - 1
           below == Through(stdout, buffers, k)
           out == IF Call.op \in Cleaning THEN <<>> ELSE Call.out
<1>1. /\ Inv /\ TypeOK /\ calls # <<>> /\ Call.call = "error" /\ Len(buffers) = Call.n
      /\ Settles(Call.op, Call.out, stdout, buffers, stdout', buffers')
      /\ gone' = gone /\ printed' = printed
  BY DEF Undisturbed, Inv, ErrorSettles, ErrorRuns, Rest
<1>2. Call.out \in Seq(Byte) /\ buffers # <<>> /\ Top.data = <<>>
  BY <1>1, InnermostIs, CallIs, ErrorCallHolds
<1>3. OnWay = below \cup Waiting
  BY <1>1, <1>2, LevelsAre, NoBytes DEF OnWay
<1>4. Waiting = ToSet(out)
  BY <1>1, NoBytes DEF Waiting
<1>5. out \in Seq(Byte)
  BY <1>2, NoData
<1>6. Passes(stdout, buffers, stdout', buffers', k, out) /\ k <= Len(buffers')
  BY <1>1, <1>2, SettlesPasses
<1> HIDE DEF k, out
<1>7. OnWay' = below \cup ToSet(out)
  BY <1>1, <1>5, <1>6, LevelsNext, NobodyWaitsNext
<1> QED
  BY <1>1, <1>3, <1>4, <1>7, NoneGiven, NothingGoes

(* The error handler's exception takes every level along, and what its
   operation holds unless that goes to the client. *)
LEMMA ErrorStopsMoves ==
    ASSUME Undisturbed, TypeOK', ErrorStops, calls' = <<>> PROVE Moved
<1>1. /\ Inv /\ TypeOK /\ calls # <<>> /\ Call.call = "error" /\ Len(buffers) = Call.n
      /\ Call.op \notin Cleaning /\ buffers' = <<>> /\ printed' = printed
      /\ stdout' = (IF Len(buffers) = 1 THEN stdout \o Call.out ELSE stdout)
      /\ gone' = gone \cup Holding(buffers)
                   \cup (IF Len(buffers) = 1 THEN {} ELSE ToSet(Call.out))
  BY DEF Undisturbed, Inv, ErrorStops, ErrorRuns, Rest
<1>2. Call.out \in Seq(Byte) /\ buffers # <<>> /\ Top.data = <<>>
      /\ Held(stdout, buffers, Call) /\ stdout \in Seq(Byte)
  BY <1>1, InnermostIs, CallIs, ErrorCallHolds DEF TypeOK
<1>3. Pile(stdout, buffers) /\ Len(buffers') = 0 /\ Len(buffers) \in Nat \ {0}
  BY <1>1, <1>2, InvPile, LevelIs
<1>4. Given = {} /\ Waiting = ToSet(Call.out) /\ Waiting' = {}
  BY <1>1, NoneGiven, NobodyWaitsNext DEF Waiting
<1>5. OnWay = ToSet(stdout) \cup Holding(buffers) \cup ToSet(Call.out)
  BY <1>3, <1>4, ThroughAll DEF OnWay
<1>6. OnWay' = ToSet(stdout')
  <2>1. Through(stdout', buffers', 0) = ToSet(stdout')
    BY ThroughZero
  <2> QED
    BY <1>3, <1>4, <2>1 DEF OnWay
<1>7. ToSet(stdout) \cap Holding(buffers) = {}
  BY <1>1, LeftApart
<1>8. CASE Len(buffers) = 1
  <2>1. Holding(buffers) = {}
    <3>1. ASSUME NEW x PROVE x \notin Holding(buffers)
      <4>1. buffers \in Seq(BufferType) /\ Top = buffers[1]
        BY <1>1, <1>2, <1>8, LevelIs DEF TypeOK
      <4>2. x \in Holding(buffers) => x \in ToSet(Top.data)
        <5>1. x \in Holding(buffers) => \E i \in 1 .. Len(buffers) : x \in ToSet(buffers[i].data)
          BY <4>1, HoldingIs
        <5>2. \A i \in 1 .. Len(buffers) : i = 1
          BY <1>8
        <5> QED
          BY <4>1, <5>1, <5>2
      <4> QED
        BY <1>2, <4>2, NoBytes
    <3> QED
      BY <3>1
  <2>2. OnWay' = ToSet(stdout) \cup ToSet(Call.out)
    BY <1>1, <1>2, <1>6, <1>8, ConcatSet
  <2>3. OnWay \cup Given = OnWay' /\ gone' = gone
    BY <1>1, <1>4, <1>5, <1>8, <2>1, <2>2
  <2> QED
    BY <2>3, NothingGoes
<1>9. CASE Len(buffers) # 1
  <2> DEFINE lost == Holding(buffers) \cup ToSet(Call.out)
  <2>1. Before(stdout, Call.out)
    <3>1. 0 \in 0 .. Len(buffers) /\ 0 < Call.n
      BY <1>1, <1>3
    <3>2. Before(At(stdout, buffers, 0), Call.out)
      BY <1>2, <3>1, HeldAt
    <3> QED
      BY <3>2, AtZero
  <2>2. ToSet(stdout) \cap ToSet(Call.out) = {}
    BY <1>2, <2>1, BeforeApart
  <2>3. OnWay' = ToSet(stdout) /\ gone' = gone \cup lost
    BY <1>1, <1>6, <1>9
  <2>4. OnWay \cup Given = OnWay' \cup lost /\ OnWay' \cap lost = {}
    BY <1>4, <1>5, <1>7, <2>2, <2>3
  <2> HIDE DEF lost
  <2> QED
    BY <2>3, <2>4 DEF Moved
<1> QED
  BY <1>8, <1>9

(* A byte is on its way after every step, or counted as gone. *)
LEMMA MovedStep == ASSUME Undisturbed, TypeOK', Forms PROVE Moved
<1>1. ASSUME HandlerSettles \/ StayForm \/ DropForm \/ ErrorSettles \/ ErrorThins
             \/ ErrorStops
      PROVE  Moved
  <2>1. calls' = <<>> /\ ~ErrorThins
    BY <1>1, CallbackEnds
  <2> QED
    BY <1>1, <2>1, HandlerSettlesMoves, StayMoves, DropMoves, ErrorSettlesMoves,
       ErrorStopsMoves
<1> QED
  BY <1>1, QuietMoves, EchoMoves, StartMoves, BeginMoves, PrintMoves, ComplainMoves DEF Forms

(* The script gives numbers to one byte at a time, and keeps its error
   handler. *)
LEMMA FormsRest ==
    ASSUME Forms PROVE onError' = onError /\ printed' \in {printed, printed + 1}
<1>1. ASSUME BeginForm PROVE onError' = onError /\ printed' \in {printed, printed + 1}
  BY <1>1 DEF BeginForm, Ready
<1> QED
  BY <1>1 DEF Forms, Quiet, EchoForm, StartForm, PrintForm, ComplainForm, HandlerSettles,
     StayForm, DropForm, ErrorSettles, ErrorThins, ErrorStops, Rest

(* AloneInv is kept by every step. *)
LEMMA AloneStep == ASSUME Inv, AloneInv, [Next]_vars PROVE AloneInv'
<1>1. TypeOK /\ TypeOK' /\ Forms
  BY StepForm DEF Inv
<1>2. onError' = onError /\ printed' \in {printed, printed + 1}
  BY <1>1, FormsRest
<1> SUFFICES ASSUME onError # "buffers" PROVE EndsInv' /\ BytesInv'
  BY <1>2 DEF AloneInv
<1>3. Undisturbed /\ BytesInv /\ EndsInv
  BY DEF AloneInv, Undisturbed
<1>4. EndsInv'
  BY <1>1, <1>3, EndsStep
<1>5. Alone /\ Alone'
  BY <1>1, <1>3, <1>4, AloneIs, AloneNext
<1>6. Moved
  BY <1>1, <1>3, MovedStep
<1>7. BytesInv'
  BY <1>1, <1>2, <1>3, <1>5, <1>6, MovedKeeps
<1> QED
  BY <1>4, <1>7

LEMMA InitAlone == Init => AloneInv
<1> SUFFICES ASSUME Init PROVE AloneInv
  OBVIOUS
<1>1. /\ stdout = <<>> /\ buffers = <<>> /\ calls = <<>> /\ printed = 0 /\ gone = {}
  BY DEF Init
<1>2. Len(buffers) = 0 /\ DOMAIN buffers = {} /\ DOMAIN calls = {}
  BY <1>1
<1>3. EndsInv
  BY <1>1, <1>2 DEF EndsInv
<1>4. Holding(buffers) = {} /\ InHand = {} /\ ToSet(stdout) = {}
  BY <1>1, <1>2, NoBytes DEF Holding, InHand
<1>5. BytesInv
  <2>1. (1 .. printed) \ gone = {} /\ gone \subseteq 1 .. printed
    BY <1>1
  <2> QED
    BY <1>4, <2>1 DEF BytesInv, Accounted
<1> QED
  BY <1>3, <1>5 DEF AloneInv

LEMMA SpecAlone == Spec => []AloneInv
<1>1. Inv /\ AloneInv /\ [Next]_vars => AloneInv'
  BY AloneStep
<1> QED
  BY <1>1, InitAlone, SpecInv, PTL DEF Spec

(* Unless the error handler uses output buffering, every byte the script has
   echoed has left the stack, is in a level, is what an operation that waits
   for the error handler will pass on, or was cleaned, replaced by a handler,
   or lost to a fatal error; and what is gone does not come back. *)
THEOREM NothingIsLost == Spec => []NothingLost
<1>1. AloneInv => NothingLost
  BY DEF AloneInv, BytesInv, NothingLost
<1> QED
  BY <1>1, SpecAlone, PTL

(* Only ob_process calls a handler. *)
LEMMA OnlyEnters == ASSUME Undisturbed, TypeOK', Forms, HandlerCalled PROVE BeginForm
<1>1. /\ calls \in Seq(CallType) /\ calls' \in Seq(CallType) /\ TypeOK /\ EndsInv
      /\ Len(calls') > Len(calls) /\ Len(calls) \in Nat /\ Len(calls') \in Nat
  BY DEF Undisturbed, Inv, TypeOK, HandlerCalled
<1>2. calls' # calls
  BY <1>1
<1>3. ~ComplainForm
  <2> SUFFICES ASSUME ComplainForm PROVE FALSE
    OBVIOUS
  <2>1. Len(calls) = 1
    BY DEF ComplainForm
  <2>2. PICK c \in CallType : calls' = <<c>>
    BY DEF ComplainForm
  <2>3. Len(calls') = 1
    BY <2>2
  <2> QED
    BY <1>1, <2>1, <2>3
<1>4. calls' # <<>>
  <2>1. Len(calls') # 0
    BY <1>1
  <2> QED
    BY <2>1
<1>5. ~(HandlerSettles \/ StayForm \/ DropForm \/ ErrorSettles \/ ErrorThins \/ ErrorStops)
  BY <1>4, CallbackEnds
<1>6. ~Quiet /\ ~EchoForm /\ ~StartForm /\ ~PrintForm
  BY <1>2, <1>4 DEF Quiet, EchoForm, StartForm, PrintForm
<1> QED
  BY <1>3, <1>5, <1>6 DEF Forms

LEMMA CalledStep ==
    ASSUME Inv, AloneInv, [Next]_vars, HandlerCalled, onError # "buffers"
    PROVE  ~Top.finished
<1>1. Undisturbed /\ TypeOK' /\ Forms
  BY StepForm DEF AloneInv, Undisturbed
<1>2. BeginForm
  BY <1>1, OnlyEnters
<1>3. buffers # <<>> /\ calls = <<>> /\ EndsInv /\ TypeOK
  BY <1>1, <1>2 DEF BeginForm, Ready, Undisturbed, Inv
<1>4. Top = buffers[Len(buffers)] /\ Len(buffers) \in 1 .. Len(buffers)
  BY <1>3, LevelIs
<1> QED
  BY <1>3, <1>4, NoneFinished

(* Unless the error handler uses output buffering, a handler that was called
   with PHP_OUTPUT_HANDLER_FINAL is never called again. *)
THEOREM FinalOnce == Spec => FinalIsLast
<1>1. Inv /\ AloneInv /\ [Next]_vars
        => [HandlerCalled /\ onError # "buffers" => ~Top.finished]_vars
  BY CalledStep
<1> QED
  BY <1>1, SpecInv, SpecAlone, PTL DEF Spec, FinalIsLast
=============================================================================
