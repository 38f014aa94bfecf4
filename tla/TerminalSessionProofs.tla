------------------------ MODULE TerminalSessionProofs ------------------------
(* Theorems about TerminalSession, for any size of the pty's buffers, any  *)
(* number of bytes typed and printed and any window sizes.                 *)
EXTENDS TerminalSession, SequenceTheorems, TLAPS

-----------------------------------------------------------------------------
(* Numbered bytes.                                                         *)

\* The bytes from m to n are numbered.
LEMMA BytesProperties ==
  ASSUME NEW m \in Nat, NEW n \in Nat, m <= n
  PROVE  /\ Bytes(m, n) \in Seq(Nat) /\ Len(Bytes(m, n)) = n - m
         /\ \A k \in 1 .. n - m : Bytes(m, n)[k] = m + k
  BY DEF Bytes

\* The first n of them.
LEMMA BytesFromStart ==
  ASSUME NEW n \in Nat
  PROVE  /\ Bytes(0, n) \in Seq(Nat) /\ Len(Bytes(0, n)) = n
         /\ \A k \in 1 .. n : Bytes(0, n)[k] = k
<1>1. 0 <= n /\ n - 0 = n /\ \A k \in 1 .. n : 0 + k = k
  OBVIOUS
<1>2. /\ Bytes(0, n) \in Seq(Nat) /\ Len(Bytes(0, n)) = n - 0
      /\ \A k \in 1 .. n - 0 : Bytes(0, n)[k] = 0 + k
  BY <1>1, BytesProperties
<1> QED
  BY <1>1, <1>2

\* None is the empty sequence.
LEMMA NoBytes == Bytes(0, 0) = <<>>
<1>1. Bytes(0, 0) \in Seq(Nat) /\ Len(Bytes(0, 0)) = 0
  BY BytesFromStart
<1> QED
  BY <1>1, EmptySeq

\* Three sequences in a row.
LEMMA Associative ==
  \A s, t, u \in Seq(Nat) : (s \o t) \o u = s \o (t \o u)
  BY ConcatAssociative

\* What comes next continues what came so far...
LEMMA BytesContinue ==
  ASSUME NEW m \in Nat, NEW n \in Nat, m <= n
  PROVE  Bytes(0, m) \o Bytes(m, n) = Bytes(0, n)
<1> DEFINE a == Bytes(0, m)
           b == Bytes(m, n)
           c == Bytes(0, n)
<1>1. /\ a \in Seq(Nat) /\ Len(a) = m /\ \A k \in 1 .. m : a[k] = k
      /\ b \in Seq(Nat) /\ Len(b) = n - m /\ \A k \in 1 .. n - m : b[k] = m + k
      /\ c \in Seq(Nat) /\ Len(c) = n /\ \A k \in 1 .. n : c[k] = k
  BY BytesFromStart, BytesProperties
<1> HIDE DEF a, b, c
<1>2. /\ a \o b \in Seq(Nat) /\ Len(a \o b) = n
      /\ \A k \in 1 .. n : (a \o b)[k] = IF k <= m THEN a[k] ELSE b[k - m]
  BY <1>1
<1>3. \A k \in 1 .. n : (a \o b)[k] = c[k]
  <2> TAKE k \in 1 .. n
  <2>1. CASE k <= m
    <3>1. k \in 1 .. m
      BY <2>1
    <3> QED
      BY <1>1, <1>2, <2>1, <3>1
  <2>2. CASE ~(k <= m)
    <3>1. k - m \in 1 .. n - m /\ m + (k - m) = k
      BY <2>2
    <3> QED
      BY <1>1, <1>2, <2>2, <3>1
  <2> QED
    BY <2>1, <2>2
<1>4. a \o b = c
  BY ONLY <1>1, <1>2, <1>3, SeqEqual
<1> QED
  BY <1>4 DEF a, b, c

\* One more byte is the next one.
LEMMA OneMoreByte ==
  ASSUME NEW n \in Nat
  PROVE  Append(Bytes(0, n), n + 1) = Bytes(0, n + 1)
<1> DEFINE a == Bytes(0, n)
           c == Bytes(0, n + 1)
<1>1. /\ a \in Seq(Nat) /\ Len(a) = n /\ \A k \in 1 .. n : a[k] = k
      /\ c \in Seq(Nat) /\ Len(c) = n + 1 /\ \A k \in 1 .. n + 1 : c[k] = k
  BY BytesFromStart, BytesProperties
<1> HIDE DEF a, c
<1>2. /\ Append(a, n + 1) \in Seq(Nat) /\ Len(Append(a, n + 1)) = n + 1
      /\ \A k \in 1 .. n + 1 : Append(a, n + 1)[k] = c[k]
  BY <1>1
<1>3. Append(a, n + 1) = c
  BY ONLY <1>1, <1>2, SeqEqual
<1> QED
  BY <1>3 DEF a, c

\* ...and a beginning of it is what came first.
LEMMA BytesBegin ==
  ASSUME NEW s \in Seq(Nat), NEW t \in Seq(Nat), NEW n \in Nat, s \o t = Bytes(0, n)
  PROVE  s = Bytes(0, Len(s)) /\ Len(s) + Len(t) = n
<1> DEFINE c == Bytes(0, n)
           d == Bytes(0, Len(s))
<1>1. Len(s) \in Nat /\ Len(t) \in Nat
  OBVIOUS
<1>2. /\ c \in Seq(Nat) /\ Len(c) = n /\ \A k \in 1 .. n : c[k] = k
      /\ d \in Seq(Nat) /\ Len(d) = Len(s) /\ \A k \in 1 .. Len(s) : d[k] = k
  BY <1>1, BytesFromStart
<1>3. s \o t = c
  OBVIOUS
<1> HIDE DEF c, d
<1>4. Len(s \o t) = Len(s) + Len(t) /\ \A k \in 1 .. Len(s) : (s \o t)[k] = s[k]
  OBVIOUS
<1>5. Len(s) + Len(t) = n
  BY <1>2, <1>3, <1>4
<1>6. \A k \in 1 .. Len(s) : s[k] = d[k]
  <2> TAKE k \in 1 .. Len(s)
  <2>1. k \in 1 .. n
    BY <1>1, <1>5
  <2> QED
    BY <1>2, <1>3, <1>4, <2>1
<1>7. s = d
  BY ONLY <1>2, <1>6, SeqEqual
<1> QED
  BY <1>5, <1>7 DEF d

\* Cutting a sequence in two, and moving its first element, keep the order.
LEMMA Cut ==
  ASSUME NEW s \in Seq(Nat), NEW n \in 0 .. Len(s)
  PROVE  /\ SubSeq(s, 1, n) \in Seq(Nat) /\ SubSeq(s, n + 1, Len(s)) \in Seq(Nat)
         /\ SubSeq(s, 1, n) \o SubSeq(s, n + 1, Len(s)) = s
         /\ Len(SubSeq(s, 1, n)) = n /\ Len(SubSeq(s, n + 1, Len(s))) = Len(s) - n
<1> DEFINE a == SubSeq(s, 1, n)
           b == SubSeq(s, n + 1, Len(s))
<1>1. Len(s) \in Nat
  OBVIOUS
<1>2. /\ a \in Seq(Nat) /\ Len(a) = n /\ \A k \in 1 .. n : a[k] = s[k]
      /\ b \in Seq(Nat) /\ Len(b) = Len(s) - n
      /\ \A k \in 1 .. Len(s) - n : b[k] = s[n + k]
  <2>1. a \in Seq(Nat) /\ Len(a) = n /\ \A k \in 1 .. n : a[k] = s[k]
    BY <1>1
  <2>2. /\ b \in Seq(Nat) /\ Len(b) = IF n + 1 <= Len(s) THEN Len(s) - (n + 1) + 1 ELSE 0
        /\ \A k \in 1 .. Len(s) - (n + 1) + 1 : b[k] = s[n + 1 + k - 1]
    <3>1. \A k \in n + 1 .. Len(s) : s[k] \in Nat
      BY <1>1
    <3>2. n + 1 \in Int /\ Len(s) \in Int
      BY <1>1
    <3> QED
      BY <3>1, <3>2, SubSeqProperties
  <2>3. /\ Len(s) - (n + 1) + 1 = Len(s) - n
        /\ \A k \in 1 .. Len(s) - n : n + 1 + k - 1 = n + k
        /\ (IF n + 1 <= Len(s) THEN Len(s) - (n + 1) + 1 ELSE 0) = Len(s) - n
    BY <1>1
  <2> HIDE DEF a, b
  <2> QED
    BY <2>1, <2>2, <2>3
<1> HIDE DEF a, b
<1>3. /\ a \o b \in Seq(Nat) /\ Len(a \o b) = Len(s)
      /\ \A k \in 1 .. Len(s) : (a \o b)[k] = IF k <= n THEN a[k] ELSE b[k - n]
  BY <1>1, <1>2
<1>4. \A k \in 1 .. Len(s) : (a \o b)[k] = s[k]
  <2> TAKE k \in 1 .. Len(s)
  <2>1. CASE k <= n
    <3>1. k \in 1 .. n
      BY <2>1
    <3> QED
      BY <1>2, <1>3, <2>1, <3>1
  <2>2. CASE ~(k <= n)
    <3>1. k - n \in 1 .. Len(s) - n /\ n + (k - n) = k
      BY <1>1, <2>2
    <3> QED
      BY <1>2, <1>3, <2>2, <3>1
  <2> QED
    BY <2>1, <2>2
<1>5. a \o b = s
  BY ONLY <1>3, <1>4, SeqEqual
<1> QED
  BY <1>2, <1>5 DEF a, b

\* A byte that moves from one queue to the next changes nothing in the whole.
LEMMA HeadMoves ==
  ASSUME NEW s \in Seq(Nat), NEW t \in Seq(Nat), t # <<>>
  PROVE  /\ Append(s, Head(t)) \in Seq(Nat) /\ Tail(t) \in Seq(Nat)
         /\ Len(Tail(t)) = Len(t) - 1
         /\ Append(s, Head(t)) \o Tail(t) = s \o t
<1>1. /\ Head(t) \in Nat /\ Tail(t) \in Seq(Nat) /\ Len(Tail(t)) = Len(t) - 1
      /\ \A k \in 1 .. Len(Tail(t)) : Tail(t)[k] = t[k + 1]
  BY HeadTailProperties
<1>2. Head(t) = t[1] /\ Len(t) \in Nat \ {0} /\ Len(s) \in Nat
  BY EmptySeq
<1> DEFINE a == Append(s, Head(t))
           b == Tail(t)
<1>3. /\ a \in Seq(Nat) /\ Len(a) = Len(s) + 1 /\ a[Len(s) + 1] = t[1]
      /\ \A k \in 1 .. Len(s) : a[k] = s[k]
  BY <1>1, <1>2
<1>4. b \in Seq(Nat) /\ Len(b) = Len(t) - 1 /\ \A k \in 1 .. Len(t) - 1 : b[k] = t[k + 1]
  BY <1>1
<1> HIDE DEF a, b
<1> DEFINE n == Len(s) + Len(t)
<1>5. /\ a \o b \in Seq(Nat) /\ Len(a \o b) = n
      /\ \A k \in 1 .. n : (a \o b)[k] = IF k <= Len(s) + 1 THEN a[k] ELSE b[k - (Len(s) + 1)]
  <2>1. Len(a) + Len(b) = n
    BY <1>2, <1>3, <1>4
  <2>2. /\ a \o b \in Seq(Nat) /\ Len(a \o b) = Len(a) + Len(b)
        /\ \A k \in 1 .. Len(a) + Len(b) :
             (a \o b)[k] = IF k <= Len(a) THEN a[k] ELSE b[k - Len(a)]
    BY <1>3, <1>4, ConcatProperties
  <2> QED
    BY <1>3, <2>1, <2>2
<1>6. /\ s \o t \in Seq(Nat) /\ Len(s \o t) = n
      /\ \A k \in 1 .. n : (s \o t)[k] = IF k <= Len(s) THEN s[k] ELSE t[k - Len(s)]
  BY <1>2
<1>7. \A k \in 1 .. n : (a \o b)[k] = (s \o t)[k]
  <2> TAKE k \in 1 .. n
  <2>0. k <= Len(s) \/ k = Len(s) + 1 \/ k > Len(s) + 1
    BY <1>2
  <2>1. CASE k <= Len(s)
    <3>1. k \in 1 .. Len(s) /\ k <= Len(s) + 1
      BY <1>2, <2>1
    <3> QED
      BY <1>3, <1>5, <1>6, <2>1, <3>1
  <2>2. CASE k = Len(s) + 1
    <3>1. k - Len(s) = 1 /\ ~(k <= Len(s))
      BY <1>2, <2>2
    <3> QED
      BY <1>3, <1>5, <1>6, <2>2, <3>1
  <2>3. CASE k > Len(s) + 1
    <3>1. /\ k - (Len(s) + 1) \in 1 .. Len(t) - 1
          /\ (k - (Len(s) + 1)) + 1 = k - Len(s)
          /\ ~(k <= Len(s)) /\ ~(k <= Len(s) + 1)
      BY <1>2, <2>3
    <3> QED
      BY <1>4, <1>5, <1>6, <3>1
  <2> QED
    BY ONLY <2>0, <2>1, <2>2, <2>3
<1>8. a \o b = s \o t
  BY ONLY <1>5, <1>6, <1>7, SeqEqual
<1> QED
  BY <1>1, <1>3, <1>8 DEF a, b

-----------------------------------------------------------------------------
(* Types.                                                                  *)

\* The streams are sequences of bytes.
StreamTypes ==
  /\ typed \in Nat /\ taken \in Nat /\ printed \in Nat
  /\ pending \in Seq(Nat) /\ inq \in Seq(Nat) /\ got \in Seq(Nat)
  /\ outq \in Seq(Nat) /\ buffer \in Seq(Nat) /\ shown \in Seq(Nat)

TypeInv == TypeOK /\ StreamTypes

\* The parts of TypeInv that the three kinds of steps leave alone.
SizeTypes ==
  /\ {host, pty, size, measured} \subseteq Sizes \cup {Zero, DefaultSize}
  /\ resizes \in 0..MaxResizes /\ posted \in BOOLEAN /\ notified \in BOOLEAN
  /\ signals \in {0, 1} /\ retained \in BOOLEAN
  /\ watcher \in {"none", "select", "set", "done"}

InputTypes ==
  /\ typed \in Nat /\ taken \in Nat
  /\ pending \in Seq(Nat) /\ inq \in Seq(Nat) /\ got \in Seq(Nat)
  /\ input \in {"none", "poll", "write", "done"} /\ taken <= typed /\ typed <= MaxTyped
  /\ Len(inq) <= PtyBuffer

OutputTypes ==
  /\ printed \in Nat
  /\ outq \in Seq(Nat) /\ buffer \in Seq(Nat) /\ shown \in Seq(Nat)
  /\ output \in {"none", "read", "write", "done"} /\ printed <= MaxPrinted
  /\ Len(outq) <= PtyBuffer

MainTypes ==
  /\ main \in {"start", "open", "started", "run", "stopping", "closing", "returned"}
  /\ child \in BOOLEAN /\ inputStop \in BOOLEAN

\* The types of the parts of a session are the types of all of it.
LEMMA TypeParts == TypeInv <=> MainTypes /\ SizeTypes /\ InputTypes /\ OutputTypes
  BY DEF TypeInv, TypeOK, StreamTypes, MainTypes, SizeTypes, InputTypes, OutputTypes

\* What a step leaves alone keeps its types: the window sizes,
LEMMA SizesQuiet == SizeTypes /\ UNCHANGED sizeVars => SizeTypes'
  BY DEF SizeTypes, sizeVars

\* the input,
LEMMA InputQuiet == InputTypes /\ UNCHANGED inputVars => InputTypes'
  BY DEF InputTypes, inputVars

\* and the output.
LEMMA OutputQuiet == OutputTypes /\ UNCHANGED outputVars => OutputTypes'
  BY DEF OutputTypes, outputVars

\* A step's effect on the types, group by group.
LEMMA TypeJoin ==
  MainTypes' /\ SizeTypes' /\ InputTypes' /\ OutputTypes' => TypeInv'
  BY DEF TypeInv, TypeOK, StreamTypes, MainTypes, SizeTypes, InputTypes, OutputTypes

\* A session begins with types in order.
LEMMA TypeInit == Init => TypeInv
<1> SUFFICES ASSUME Init PROVE TypeInv
  OBVIOUS
<1>1. MainTypes
  BY DEF Init, MainTypes
<1>2. SizeTypes
  <2>1. host \in Sizes \cup {Zero} /\ pty = Zero /\ size = Zero /\ measured = Zero
    BY DEF Init
  <2>2. {host, pty, size, measured} \subseteq Sizes \cup {Zero, DefaultSize}
    BY <2>1
  <2>3. resizes \in 0..MaxResizes
    BY BoundsAssumption DEF Init
  <2>4. posted \in BOOLEAN /\ notified \in BOOLEAN /\ retained \in BOOLEAN
    BY DEF Init
  <2>5. signals \in {0, 1} /\ watcher \in {"none", "select", "set", "done"}
    BY DEF Init
  <2> QED
    BY <2>2, <2>3, <2>4, <2>5 DEF SizeTypes
<1>3. <<>> \in Seq(Nat) /\ Len(<<>>) = 0
  OBVIOUS
<1>4. InputTypes
  BY <1>3, BoundsAssumption DEF Init, InputTypes
<1>5. OutputTypes
  BY <1>3, BoundsAssumption DEF Init, OutputTypes
<1> QED
  BY <1>1, <1>2, <1>4, <1>5, TypeParts

\* Every step keeps them.
LEMMA TypeStep == TypeInv /\ [Next]_vars => TypeInv'
<1> SUFFICES ASSUME TypeInv, [Next]_vars PROVE TypeInv'
  OBVIOUS
<1>0. MainTypes /\ SizeTypes /\ InputTypes /\ OutputTypes
  BY TypeParts
<1>n. /\ PtyBuffer \in Nat \ {0} /\ MaxResizes \in Nat /\ MaxTyped \in Nat /\ MaxPrinted \in Nat
  BY BoundsAssumption
<1>1. CASE CurrentTerminalSize
  <2>1. measured' \in Sizes \cup {Zero, DefaultSize}
    BY <1>0, <1>1 DEF CurrentTerminalSize, GetsizeFull, SizeTypes
  <2>2. SizeTypes'
    BY <1>0, <1>1, <2>1 DEF CurrentTerminalSize, SizeTypes
  <2> QED
    BY <1>0, <1>1, <2>2, InputQuiet, OutputQuiet, TypeJoin DEF CurrentTerminalSize, MainTypes
<1>2. CASE StartWithAttrs
  <2>1. MainTypes'
    BY <1>0, <1>2 DEF StartWithAttrs, MainTypes
  <2>2. SizeTypes'
    BY <1>0, <1>2 DEF StartWithAttrs, SizeTypes
  <2>3. InputTypes'
    BY <1>0, <1>2 DEF StartWithAttrs, InputTypes
  <2>4. OutputTypes'
    BY <1>0, <1>2 DEF StartWithAttrs, OutputTypes
  <2> QED
    BY <2>1, <2>2, <2>3, <2>4, TypeJoin
<1>3. CASE WatchResize \/ StopResize
  <2>1. MainTypes'
    BY <1>0, <1>3 DEF WatchResize, StopResize, MainTypes
  <2>2. SizeTypes'
    BY <1>0, <1>3 DEF WatchResize, StopResize, SizeTypes
  <2> QED
    BY <1>0, <1>3, <2>1, <2>2, InputQuiet, OutputQuiet, TypeJoin DEF WatchResize, StopResize
<1>4. CASE ResizeStopped \/ Close
  <2>1. MainTypes'
    BY <1>0, <1>4 DEF ResizeStopped, Close, MainTypes
  <2> QED
    BY <1>0, <1>4, <2>1, SizesQuiet, InputQuiet, OutputQuiet, TypeJoin DEF ResizeStopped, Close
<1>5. CASE HostResize
  <2>1. host' \in Sizes \cup {Zero, DefaultSize}
    BY <1>5 DEF HostResize
  <2>2. resizes' \in 0 .. MaxResizes
    BY <1>0, <1>5, <1>n DEF HostResize, SizeTypes
  <2>3. posted' \in BOOLEAN
    BY <1>0, <1>5 DEF HostResize, SizeTypes
  <2>4. SizeTypes'
    BY <1>0, <1>5, <2>1, <2>2, <2>3 DEF HostResize, SizeTypes
  <2> QED
    BY <1>0, <1>5, <2>4, InputQuiet, OutputQuiet, TypeJoin DEF HostResize, MainTypes
<1>6. CASE Deliver
  <2>1. SizeTypes'
    BY <1>0, <1>6 DEF Deliver, SizeTypes
  <2> QED
    BY <1>0, <1>6, <2>1, InputQuiet, OutputQuiet, TypeJoin DEF Deliver, MainTypes
<1>7. CASE ReadSize
  <2>1. measured' \in Sizes \cup {Zero, DefaultSize} /\ signals' \in {0, 1}
    BY <1>0, <1>7 DEF ReadSize, GetsizeFull, SizeTypes
  <2>2. SizeTypes'
    BY <1>0, <1>7, <2>1 DEF ReadSize, SizeTypes
  <2> QED
    BY <1>0, <1>7, <2>2, InputQuiet, OutputQuiet, TypeJoin DEF ReadSize, MainTypes
<1>8. CASE SetSize \/ WatcherDone
  <2>1. SizeTypes'
    BY <1>0, <1>8 DEF SetSize, WatcherDone, SizeTypes
  <2> QED
    BY <1>0, <1>8, <2>1, InputQuiet, OutputQuiet, TypeJoin DEF SetSize, WatcherDone, MainTypes
<1>9. CASE Type
  <2>1. InputTypes'
    BY <1>0, <1>9, <1>n DEF Type, InputTypes
  <2> QED
    BY <1>0, <1>9, <2>1, SizesQuiet, OutputQuiet, TypeJoin DEF Type, MainTypes
<1>10. CASE ReadInput
  <2>1. PICK n \in (taken + 1)..typed : pending' = Bytes(taken, n) /\ taken' = n
    BY <1>10 DEF ReadInput
  <2>2. n \in Nat /\ taken \in Nat /\ taken <= n /\ n <= typed
    BY <1>0, <2>1 DEF InputTypes
  <2>3. pending' \in Seq(Nat)
    BY <2>1, <2>2, BytesProperties
  <2>4. InputTypes'
    BY <1>0, <1>10, <2>1, <2>2, <2>3 DEF ReadInput, InputTypes
  <2> QED
    BY <1>0, <1>10, <2>4, SizesQuiet, OutputQuiet, TypeJoin DEF ReadInput, MainTypes
<1>11. CASE WriteInput
  <2>1. InputTypes'
    <3>1. CASE child
      <4>1. PICK n \in 1..Least(Len(pending), PtyBuffer - Len(inq)) :
              /\ inq' = inq \o SubSeq(pending, 1, n)
              /\ pending' = SubSeq(pending, n + 1, Len(pending))
              /\ input' = IF n = Len(pending) THEN "poll" ELSE "write"
        BY <1>11, <3>1 DEF WriteInput
      <4>2. /\ pending \in Seq(Nat) /\ Len(pending) \in Nat /\ inq \in Seq(Nat) /\ Len(inq) \in Nat
        BY <1>0 DEF InputTypes
      <4>3. n \in 0 .. Len(pending) /\ n <= PtyBuffer - Len(inq)
        BY <1>n, <4>2 DEF Least
      <4>4. /\ SubSeq(pending, 1, n) \in Seq(Nat) /\ Len(SubSeq(pending, 1, n)) = n
            /\ SubSeq(pending, n + 1, Len(pending)) \in Seq(Nat)
        BY <4>2, <4>3, Cut
      <4>5. inq' \in Seq(Nat) /\ Len(inq') = Len(inq) + n
        BY <4>1, <4>2, <4>4, ConcatProperties
      <4>6. Len(inq') <= PtyBuffer
        BY <1>n, <4>2, <4>3, <4>5
      <4> QED
        BY <1>0, <1>11, <4>1, <4>4, <4>5, <4>6 DEF WriteInput, InputTypes
    <3>2. CASE ~child
      BY <1>0, <1>11, <3>2 DEF WriteInput, InputTypes
    <3> QED
      BY <3>1, <3>2
  <2> QED
    BY <1>0, <1>11, <2>1, SizesQuiet, OutputQuiet, TypeJoin DEF WriteInput, MainTypes
<1>12. CASE EndInput
  <2>1. InputTypes'
    BY <1>0, <1>12 DEF EndInput, InputTypes
  <2> QED
    BY <1>0, <1>12, <2>1, SizesQuiet, OutputQuiet, TypeJoin DEF EndInput, MainTypes
<1>13. CASE PayloadReads
  <2>1. /\ got' = Append(got, Head(inq)) /\ inq' = Tail(inq) /\ inq # <<>>
        /\ UNCHANGED <<typed, taken, pending, input>>
    BY <1>13 DEF PayloadReads
  <2>2. got \in Seq(Nat) /\ inq \in Seq(Nat) /\ Len(inq) \in Nat /\ Len(inq) <= PtyBuffer
    BY <1>0 DEF InputTypes
  <2>3. got' \in Seq(Nat) /\ inq' \in Seq(Nat) /\ Len(inq') = Len(inq) - 1
    BY <2>1, <2>2, HeadMoves
  <2>4. Len(inq') <= PtyBuffer
    BY <1>n, <2>2, <2>3
  <2>5. InputTypes'
    BY <1>0, <2>1, <2>3, <2>4 DEF InputTypes
  <2> QED
    BY <1>0, <1>13, <2>5, SizesQuiet, OutputQuiet, TypeJoin DEF PayloadReads, MainTypes
<1>14. CASE PayloadPrints
  <2>1. /\ printed < MaxPrinted /\ Len(outq) < PtyBuffer
        /\ printed' = printed + 1 /\ outq' = Append(outq, printed + 1)
        /\ UNCHANGED <<buffer, shown, output>>
    BY <1>14 DEF PayloadPrints
  <2>2. printed \in Nat /\ outq \in Seq(Nat) /\ Len(outq) \in Nat /\ printed + 1 \in Nat
    BY <1>0 DEF OutputTypes
  <2>3. outq' \in Seq(Nat) /\ Len(outq') = Len(outq) + 1
    BY <2>1, <2>2, AppendProperties
  <2>4. printed' <= MaxPrinted /\ Len(outq') <= PtyBuffer
    BY <1>n, <2>1, <2>2, <2>3
  <2>5. OutputTypes'
    BY <1>0, <2>1, <2>2, <2>3, <2>4 DEF OutputTypes
  <2> QED
    BY <1>0, <1>14, <2>5, SizesQuiet, InputQuiet, TypeJoin DEF PayloadPrints, MainTypes
<1>15. CASE ChildGone
  BY <1>0, <1>15, SizesQuiet, InputQuiet, OutputQuiet, TypeJoin DEF ChildGone, MainTypes
<1>16. CASE ReadOutput
  <2>1. OutputTypes'
    <3>1. CASE \E n \in 1..Len(outq) :
                 /\ buffer' = SubSeq(outq, 1, n) /\ outq' = SubSeq(outq, n + 1, Len(outq))
                 /\ output' = "write"
      <4>1. PICK n \in 1..Len(outq) :
              /\ buffer' = SubSeq(outq, 1, n) /\ outq' = SubSeq(outq, n + 1, Len(outq))
              /\ output' = "write"
        BY <3>1
      <4>2. outq \in Seq(Nat) /\ Len(outq) \in Nat /\ n \in 0 .. Len(outq)
            /\ Len(outq) <= PtyBuffer
        BY <1>0 DEF OutputTypes
      <4>3. buffer' \in Seq(Nat) /\ outq' \in Seq(Nat) /\ Len(outq') = Len(outq) - n
        BY <4>1, <4>2, Cut
      <4>4. Len(outq') <= PtyBuffer
        BY <1>n, <4>2, <4>3
      <4> QED
        BY <1>0, <1>16, <4>1, <4>3, <4>4 DEF ReadOutput, OutputTypes
    <3>2. CASE output' = "done" /\ UNCHANGED <<buffer, outq>>
      BY <1>0, <1>16, <3>2 DEF ReadOutput, OutputTypes
    <3> QED
      BY <1>16, <3>1, <3>2 DEF ReadOutput
  <2> QED
    BY <1>0, <1>16, <2>1, SizesQuiet, InputQuiet, TypeJoin DEF ReadOutput, MainTypes
<1>17. CASE WriteOutput
  <2>1. /\ buffer' = <<>> /\ UNCHANGED <<printed, outq>>
        /\ output' \in {"read", "done"}
    BY <1>17 DEF WriteOutput
  <2>2. shown \in Seq(Nat) /\ buffer \in Seq(Nat) /\ Len(buffer) \in Nat
    BY <1>0 DEF OutputTypes
  <2>3. shown' \in Seq(Nat)
    <3>1. CASE shown' = shown \o buffer
      BY <2>2, <3>1, ConcatProperties
    <3>2. CASE \E n \in 0..(Len(buffer) - 1) : shown' = shown \o SubSeq(buffer, 1, n)
      <4>1. PICK n \in 0..(Len(buffer) - 1) : shown' = shown \o SubSeq(buffer, 1, n)
        BY <3>2
      <4>2. n \in 0 .. Len(buffer)
        BY <2>2
      <4>3. SubSeq(buffer, 1, n) \in Seq(Nat)
        BY <2>2, <4>2, Cut
      <4> QED
        BY <2>2, <4>1, <4>3, ConcatProperties
    <3> QED
      BY <1>17, <3>1, <3>2 DEF WriteOutput
  <2>4. <<>> \in Seq(Nat)
    OBVIOUS
  <2>5. OutputTypes'
    BY <1>0, <2>1, <2>3, <2>4 DEF OutputTypes
  <2> QED
    BY <1>0, <1>17, <2>5, SizesQuiet, InputQuiet, TypeJoin DEF WriteOutput, MainTypes
<1>18. CASE Finished \/ UNCHANGED vars
  BY <1>0, <1>18, SizesQuiet, InputQuiet, OutputQuiet, TypeJoin DEF Finished, vars, MainTypes
<1> QED
  BY <1>1, <1>2, <1>3, <1>4, <1>5, <1>6, <1>7, <1>8, <1>9, <1>10, <1>11, <1>12, <1>13,
     <1>14, <1>15, <1>16, <1>17, <1>18 DEF Next

\* Type correctness of the session: in particular no more bytes are in the pty
\* than it holds, and one signal at most waits for the goroutine of watchResize.
THEOREM TypeCorrect == Spec => []TypeOK
<1>1. TypeInv => TypeOK
  BY DEF TypeInv
<1> QED
  BY <1>1, TypeInit, TypeStep, PTL DEF Spec

-----------------------------------------------------------------------------
(* Sizes.                                                                  *)

\* The session knows the size of the pty, which has dimensions as soon as a child
\* is on it; before there is a session nothing but start measures.
SizeInv ==
  /\ size = pty
  /\ child => pty # Zero
  /\ main \in {"start", "open", "started"} => watcher = "none"
  /\ main = "open" => measured # Zero

\* Every step keeps the size the session knows that of the pty.
LEMMA SizeStep == SizeInv /\ [Next]_vars => SizeInv'
<1> SUFFICES ASSUME SizeInv, [Next]_vars PROVE SizeInv'
  OBVIOUS
<1>1. CASE CurrentTerminalSize
  <2>1. measured' # Zero
    BY <1>1, SizesAssumption DEF CurrentTerminalSize
  <2> QED
    BY <1>1, <2>1 DEF CurrentTerminalSize, SizeInv
<1>2. CASE StartWithAttrs
  BY <1>2 DEF StartWithAttrs, SizeInv
<1>3. CASE WatchResize \/ StopResize \/ ResizeStopped \/ Close
  BY <1>3 DEF WatchResize, StopResize, ResizeStopped, Close, SizeInv, sizeVars
<1>4. CASE HostResize \/ Deliver \/ ReadSize \/ SetSize \/ WatcherDone
  BY <1>4 DEF HostResize, Deliver, ReadSize, SetSize, WatcherDone, SizeInv
<1>5. CASE Type \/ ReadInput \/ WriteInput \/ EndInput \/ PayloadReads
  BY <1>5 DEF Type, ReadInput, WriteInput, EndInput, PayloadReads, SizeInv, sizeVars
<1>6. CASE PayloadPrints \/ ChildGone \/ ReadOutput \/ WriteOutput
  BY <1>6 DEF PayloadPrints, ChildGone, ReadOutput, WriteOutput, SizeInv, sizeVars
<1>7. CASE Finished \/ UNCHANGED vars
  BY <1>7 DEF Finished, vars, sizeVars, SizeInv
<1> QED
  BY <1>1, <1>2, <1>3, <1>4, <1>5, <1>6, <1>7 DEF Next

-----------------------------------------------------------------------------
(* Input.                                                                  *)

\* What was read from the host's terminal is at the payload, in the pty or still
\* in copyInput, in this order; copyInput reads again only when it has written
\* everything.
InputInv ==
  /\ (got \o inq) \o pending = Bytes(0, taken)
  /\ input \in {"none", "poll"} => pending = <<>>
  /\ main \in {"start", "open"} => input = "none"

\* Every step keeps the input in its order.
LEMMA InputStep == TypeInv /\ InputInv /\ [Next]_vars => InputInv'
<1> SUFFICES ASSUME TypeInv, InputInv, [Next]_vars PROVE InputInv'
  OBVIOUS
<1>0. InputTypes
  BY TypeParts
<1>a. /\ typed \in Nat /\ taken \in Nat /\ taken <= typed
      /\ pending \in Seq(Nat) /\ inq \in Seq(Nat) /\ got \in Seq(Nat)
      /\ Len(pending) \in Nat /\ Len(inq) \in Nat
      /\ got \o inq \in Seq(Nat)
  BY <1>0, ConcatProperties DEF InputTypes
<1>1. CASE UNCHANGED inputVars /\ (UNCHANGED main \/ main' \notin {"start", "open"})
  BY <1>1 DEF InputInv, inputVars
<1>2. CASE StartWithAttrs
  BY <1>2 DEF StartWithAttrs, InputInv
<1>3. CASE Type
  BY <1>3 DEF Type, InputInv
<1>4. CASE ReadInput
  <2>1. PICK n \in (taken + 1)..typed : pending' = Bytes(taken, n) /\ taken' = n
    BY <1>4 DEF ReadInput
  <2>2. n \in Nat /\ taken <= n
    BY <1>a, <2>1
  <2>3. /\ pending = <<>> /\ input' = "write" /\ UNCHANGED <<main, inq, got>>
        /\ main \notin {"start", "open"}
    BY <1>4 DEF ReadInput, InputInv
  <2>4. got \o inq = Bytes(0, taken)
    <3>1. (got \o inq) \o <<>> = got \o inq
      BY <1>a, ConcatEmptySeq
    <3> QED
      BY <2>3, <3>1 DEF InputInv
  <2>5. Bytes(0, taken) \o Bytes(taken, n) = Bytes(0, n)
    BY <1>a, <2>2, BytesContinue
  <2> QED
    BY <2>1, <2>3, <2>4, <2>5 DEF InputInv
<1>5. CASE WriteInput
  <2>1. CASE child
    <3>1. PICK n \in 1..Least(Len(pending), PtyBuffer - Len(inq)) :
            /\ inq' = inq \o SubSeq(pending, 1, n)
            /\ pending' = SubSeq(pending, n + 1, Len(pending))
            /\ input' = IF n = Len(pending) THEN "poll" ELSE "write"
      BY <1>5, <2>1 DEF WriteInput
    <3>2. n \in 0 .. Len(pending)
      BY <1>a, <3>1, BoundsAssumption DEF Least
    <3> DEFINE a == SubSeq(pending, 1, n)
               b == SubSeq(pending, n + 1, Len(pending))
    <3>3. /\ a \in Seq(Nat) /\ b \in Seq(Nat) /\ a \o b = pending
          /\ Len(b) = Len(pending) - n
      BY <1>a, <3>2, Cut
    <3> HIDE DEF a, b
    <3>4. (got \o (inq \o a)) \o b = (got \o inq) \o pending
      <4>1. got \o (inq \o a) = (got \o inq) \o a
        BY <1>a, <3>3, Associative
      <4>2. ((got \o inq) \o a) \o b = (got \o inq) \o (a \o b)
        BY <1>a, <3>3, Associative
      <4> QED
        BY <3>3, <4>1, <4>2
    <3>5. /\ inq' = inq \o a /\ pending' = b /\ UNCHANGED <<main, got, taken>>
          /\ main \notin {"start", "open"}
      BY <1>5, <3>1 DEF WriteInput, InputInv, a, b
    <3>6. input' \in {"none", "poll"} => pending' = <<>>
      <4> SUFFICES ASSUME n = Len(pending) PROVE b = <<>>
        BY <3>1, <3>5
      <4>1. Len(b) = 0
        BY <1>a, <3>3
      <4> QED
        BY <3>3, <4>1, EmptySeq
    <3>7. (got' \o inq') \o pending' = Bytes(0, taken')
      BY <3>4, <3>5 DEF InputInv
    <3> QED
      BY <3>5, <3>6, <3>7 DEF InputInv
  <2>2. CASE ~child
    BY <1>5, <2>2 DEF WriteInput, InputInv
  <2> QED
    BY <2>1, <2>2
<1>6. CASE EndInput
  BY <1>6 DEF EndInput, InputInv
<1>7. CASE PayloadReads
  <2>1. /\ got' = Append(got, Head(inq)) /\ inq' = Tail(inq) /\ inq # <<>>
        /\ UNCHANGED <<main, taken, pending, input>>
    BY <1>7 DEF PayloadReads
  <2>2. Append(got, Head(inq)) \o Tail(inq) = got \o inq
    BY <1>a, <2>1, HeadMoves
  <2> QED
    BY <2>1, <2>2 DEF InputInv
<1>8. CASE ReadOutput \/ WriteOutput \/ PayloadPrints \/ ChildGone \/ Finished
  BY <1>1, <1>8 DEF ReadOutput, WriteOutput, PayloadPrints, ChildGone, Finished, vars
<1>9. CASE CurrentTerminalSize \/ WatchResize \/ StopResize \/ ResizeStopped \/ Close
  <2>1. CASE CurrentTerminalSize
    BY <2>1 DEF CurrentTerminalSize, InputInv, inputVars
  <2>2. CASE ~CurrentTerminalSize
    BY <1>1, <1>9, <2>2 DEF WatchResize, StopResize, ResizeStopped, Close
  <2> QED
    BY <2>1, <2>2
<1>10. CASE HostResize \/ Deliver \/ ReadSize \/ SetSize \/ WatcherDone
  BY <1>1, <1>10 DEF HostResize, Deliver, ReadSize, SetSize, WatcherDone
<1>11. CASE UNCHANGED vars
  BY <1>1, <1>11 DEF vars
<1> QED
  BY <1>2, <1>3, <1>4, <1>5, <1>6, <1>7, <1>8, <1>9, <1>10, <1>11 DEF Next

\* So what the payload has read is what came first.
LEMMA InputHolds == TypeInv /\ InputInv => InputInOrder
<1> SUFFICES ASSUME TypeInv, InputInv PROVE InputInOrder
  OBVIOUS
<1>1. /\ taken \in Nat
      /\ pending \in Seq(Nat) /\ inq \in Seq(Nat) /\ got \in Seq(Nat)
  BY DEF TypeInv, StreamTypes
<1>2. got \o inq \in Seq(Nat) /\ Len(got \o inq) = Len(got) + Len(inq)
  BY <1>1, ConcatProperties
<1>3. Len(got \o inq) + Len(pending) = taken
  BY <1>1, <1>2, BytesBegin DEF InputInv
<1>4. Len(got) + Len(inq) + Len(pending) = taken
  BY <1>2, <1>3
<1> QED
  BY <1>4 DEF InputInv, InputInOrder

-----------------------------------------------------------------------------
(* Output.                                                                 *)

\* Unless the standard output has failed, what the payload printed has been shown,
\* is in io.Copy or in the pty, in this order.  copyOutput ends only after the
\* payload, with nothing left; and the session only after copyOutput.
OutputInv ==
  /\ shown = Bytes(0, Len(shown))
  /\ ~unwritten => (shown \o buffer) \o outq = Bytes(0, printed)
  /\ output # "write" => buffer = <<>>
  /\ output \in {"none", "done"} /\ ~unwritten => ~child /\ outq = <<>>
  /\ unwritten => output = "done"
  /\ main \in {"start", "open"} => output = "none" /\ ~child
  /\ main = "returned" => output \in {"none", "done"}

\* Every step keeps the output in its order.
LEMMA OutputStep == TypeInv /\ OutputInv /\ [Next]_vars => OutputInv'
<1> SUFFICES ASSUME TypeInv, OutputInv, [Next]_vars PROVE OutputInv'
  OBVIOUS
<1>0. OutputTypes
  BY TypeParts
<1>a. /\ printed \in Nat /\ printed + 1 \in Nat
      /\ outq \in Seq(Nat) /\ buffer \in Seq(Nat) /\ shown \in Seq(Nat)
      /\ Len(outq) \in Nat /\ Len(buffer) \in Nat /\ Len(shown) \in Nat
      /\ shown \o buffer \in Seq(Nat)
  BY <1>0, ConcatProperties DEF OutputTypes
<1>1. CASE UNCHANGED <<main, child, outputVars>>
  BY <1>1 DEF OutputInv, outputVars
<1>2. CASE CurrentTerminalSize \/ StartWithAttrs
  BY <1>2 DEF CurrentTerminalSize, StartWithAttrs, OutputInv, outputVars
<1>3. CASE WatchResize \/ StopResize \/ ResizeStopped \/ Close
  <2>1. /\ UNCHANGED <<child, outputVars>> /\ main' \notin {"start", "open"}
        /\ main' = "returned" => output = "done"
    BY <1>3 DEF WatchResize, StopResize, ResizeStopped, Close
  <2> QED
    BY <2>1 DEF OutputInv, outputVars
<1>4. CASE ChildGone
  BY <1>4 DEF ChildGone, OutputInv, outputVars
<1>5. CASE PayloadPrints
  <2>1. /\ child /\ printed' = printed + 1 /\ outq' = Append(outq, printed + 1)
        /\ UNCHANGED <<main, child, buffer, shown, output, unwritten>>
    BY <1>5 DEF PayloadPrints
  <2>2. ~unwritten' => (shown' \o buffer') \o outq' = Bytes(0, printed')
    <3> SUFFICES ASSUME ~unwritten
                 PROVE  (shown \o buffer) \o Append(outq, printed + 1) = Bytes(0, printed + 1)
      BY <2>1
    <3> DEFINE a == shown \o buffer
    <3>1. a \in Seq(Nat) /\ a \o outq = Bytes(0, printed)
      BY <1>a DEF OutputInv
    <3> HIDE DEF a
    <3>2. a \o Append(outq, printed + 1) = Append(a \o outq, printed + 1)
      <4>1. <<printed + 1>> \in Seq(Nat)
        BY <1>a
      <4>2. a \o outq \in Seq(Nat)
        BY <1>a, <3>1, ConcatProperties
      <4>3. /\ Append(outq, printed + 1) = outq \o <<printed + 1>>
            /\ Append(a \o outq, printed + 1) = (a \o outq) \o <<printed + 1>>
        BY <1>a, <4>2, AppendIsConcat
      <4>4. (a \o outq) \o <<printed + 1>> = a \o (outq \o <<printed + 1>>)
        BY <1>a, <3>1, <4>1, Associative
      <4> QED
        BY <4>3, <4>4
    <3>3. Append(Bytes(0, printed), printed + 1) = Bytes(0, printed + 1)
      BY <1>a, OneMoreByte
    <3> QED
      BY <3>1, <3>2, <3>3 DEF a
  <2> QED
    BY <2>1, <2>2 DEF OutputInv
<1>6. CASE ReadOutput
  <2>1. /\ output = "read" /\ buffer = <<>> /\ ~unwritten
        /\ UNCHANGED <<main, child, printed, shown, unwritten>>
        /\ main \notin {"start", "open", "returned"}
    BY <1>6 DEF ReadOutput, OutputInv
  <2>2. CASE output' = "done" /\ outq = <<>> /\ ~child /\ UNCHANGED <<buffer, outq>>
    BY <2>1, <2>2 DEF OutputInv
  <2>3. CASE \E n \in 1..Len(outq) :
               /\ buffer' = SubSeq(outq, 1, n) /\ outq' = SubSeq(outq, n + 1, Len(outq))
               /\ output' = "write"
    <3>1. PICK n \in 1..Len(outq) :
            /\ buffer' = SubSeq(outq, 1, n) /\ outq' = SubSeq(outq, n + 1, Len(outq))
            /\ output' = "write"
      BY <2>3
    <3>2. n \in 0 .. Len(outq)
      BY <1>a, <3>1
    <3>3. buffer' \in Seq(Nat) /\ outq' \in Seq(Nat) /\ buffer' \o outq' = outq
      BY <1>a, <3>1, <3>2, Cut
    <3>4. (shown \o buffer') \o outq' = shown \o outq
      <4>1. (shown \o buffer') \o outq' = shown \o (buffer' \o outq')
        BY <1>a, <3>3, Associative
      <4> QED
        BY <3>3, <4>1
    <3>5. shown \o buffer = shown
      BY <1>a, <2>1, ConcatEmptySeq
    <3>6. (shown' \o buffer') \o outq' = Bytes(0, printed')
      BY <2>1, <3>4, <3>5 DEF OutputInv
    <3> QED
      BY <2>1, <3>1, <3>6 DEF OutputInv
  <2> QED
    BY <1>6, <2>2, <2>3 DEF ReadOutput
<1>7. CASE WriteOutput
  <2>1. /\ output = "write" /\ buffer' = <<>> /\ ~unwritten
        /\ UNCHANGED <<main, child, printed, outq>>
        /\ main \notin {"start", "open", "returned"}
        /\ (shown \o buffer) \o outq = Bytes(0, printed)
    BY <1>7 DEF WriteOutput, OutputInv
  <2>2. CASE shown' = shown \o buffer /\ output' = "read" /\ UNCHANGED unwritten
    <3>1. shown' \in Seq(Nat) /\ shown' \o buffer' = shown'
      BY <1>a, <2>1, <2>2, ConcatEmptySeq
    <3>2. shown' \o outq = Bytes(0, printed)
      BY <2>1, <2>2
    <3>3. shown' = Bytes(0, Len(shown'))
      BY <1>a, <3>1, <3>2, BytesBegin
    <3> QED
      BY <2>1, <2>2, <3>1, <3>2, <3>3 DEF OutputInv
  <2>3. CASE /\ output' = "done" /\ unwritten' = TRUE
             /\ \E n \in 0..(Len(buffer) - 1) : shown' = shown \o SubSeq(buffer, 1, n)
    <3>1. PICK n \in 0..(Len(buffer) - 1) : shown' = shown \o SubSeq(buffer, 1, n)
      BY <2>3
    <3>2. n \in 0 .. Len(buffer)
      BY <1>a
    <3> DEFINE a == SubSeq(buffer, 1, n)
               b == SubSeq(buffer, n + 1, Len(buffer))
    <3>3. a \in Seq(Nat) /\ b \in Seq(Nat) /\ a \o b = buffer
      BY <1>a, <3>2, Cut
    <3>4. shown' = shown \o a
      BY <3>1
    <3> HIDE DEF a, b
    <3>5. shown' \in Seq(Nat) /\ b \o outq \in Seq(Nat)
      BY <1>a, <3>3, <3>4, ConcatProperties
    <3>6. shown' \o (b \o outq) = Bytes(0, printed)
      <4>1. shown' \o b = shown \o (a \o b)
        BY <1>a, <3>3, <3>4, Associative
      <4>2. (shown' \o b) \o outq = shown' \o (b \o outq)
        <5>1. shown' \in Seq(Nat) /\ b \in Seq(Nat) /\ outq \in Seq(Nat)
          BY <1>a, <3>3, <3>5
        <5> QED
          BY ONLY <5>1, Associative
      <4> QED
        BY <2>1, <3>3, <4>1, <4>2
    <3>7. shown' = Bytes(0, Len(shown'))
      BY <1>a, <3>5, <3>6, BytesBegin
    <3> QED
      BY <2>1, <2>3, <3>7 DEF OutputInv
  <2> QED
    BY <1>7, <2>2, <2>3 DEF WriteOutput
<1>8. CASE Type \/ ReadInput \/ WriteInput \/ EndInput \/ PayloadReads
  BY <1>1, <1>8 DEF Type, ReadInput, WriteInput, EndInput, PayloadReads
<1>9. CASE HostResize \/ Deliver \/ ReadSize \/ SetSize \/ WatcherDone
  BY <1>1, <1>9 DEF HostResize, Deliver, ReadSize, SetSize, WatcherDone
<1>10. CASE Finished \/ UNCHANGED vars
  BY <1>1, <1>10 DEF Finished, vars
<1> QED
  BY <1>2, <1>3, <1>4, <1>5, <1>6, <1>7, <1>8, <1>9, <1>10 DEF Next

\* So nothing of it is lost when the session ends.
LEMMA OutputHolds == TypeInv /\ OutputInv => OutputComplete
<1> SUFFICES ASSUME TypeInv, OutputInv, main = "returned", ~unwritten
             PROVE  Len(shown) = printed
  BY DEF OutputComplete, OutputInv
<1>1. printed \in Nat /\ shown \in Seq(Nat)
  BY DEF TypeInv, StreamTypes
<1>2. buffer = <<>> /\ outq = <<>>
  BY DEF OutputInv
<1>3. (shown \o <<>>) \o <<>> = shown
  BY <1>1, ConcatEmptySeq
<1>4. shown = Bytes(0, printed)
  BY <1>2, <1>3 DEF OutputInv
<1> QED
  BY <1>1, <1>4, BytesFromStart

-----------------------------------------------------------------------------

\* However the goroutines interleave, whatever is cut short and whichever calls
\* fail: no byte is lost, doubled or put out of order in either direction, all of
\* the output is shown before the session ends, and the payload's terminal has
\* dimensions, which the session knows (copyInput, copyOutput, close and resize).
THEOREM SessionKeepsAll == Spec => []SessionIntact
<1>1. Init => SizeInv /\ InputInv /\ OutputInv
  <2> SUFFICES ASSUME Init PROVE SizeInv /\ InputInv /\ OutputInv
    OBVIOUS
  <2>1. SizeInv
    BY DEF Init, SizeInv
  <2>2. (<<>> \o <<>>) \o <<>> = <<>> /\ Len(<<>>) = 0
    OBVIOUS
  <2>3. InputInv
    BY <2>2, NoBytes DEF Init, InputInv
  <2>4. OutputInv
    BY <2>2, NoBytes DEF Init, OutputInv
  <2> QED
    BY <2>1, <2>3, <2>4
<1>2. TypeInv /\ SizeInv /\ InputInv /\ OutputInv => SessionIntact
  BY InputHolds, OutputHolds DEF TypeInv, SizeInv, SizeUsable, SessionIntact
<1> QED
  BY <1>1, <1>2, TypeInit, TypeStep, SizeStep, InputStep, OutputStep, PTL DEF Spec
=============================================================================
