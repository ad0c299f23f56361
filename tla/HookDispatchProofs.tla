------------------------- MODULE HookDispatchProofs --------------------------
(***************************************************************************)
(* What HookDispatch promises for any functions, callbacks and threads and *)
(* for calls nested to any depth.  A step of a thread does one of five     *)
(* things to its stack, which the first lemmas tell apart: it changes the  *)
(* frame of an HL function at the top (Goes), pushes or removes a frame    *)
(* (Pushes, Pops), leaves several by an exception (Cuts), or enters HL     *)
(* from a call that has its arguments (Enters).  The passthrough stack     *)
(* follows the calls of originals (Rank), the bypass and the return value  *)
(* are where those calls have left them.                                   *)
(*                                                                         *)
(* The last part is about the jumps that carry a call of a native to its   *)
(* hook and its body (NativeHook), for any natives, functions and targets. *)
(***************************************************************************)
EXTENDS HookDispatch, NativeHook, Recursion, FiniteSetTheorems, SequenceTheorems, TLAPS

\* The first k frames are as they were.
Kept(t, k) == \A i \in 1 .. k : stack'[t][i] = stack[t][i]

\* The frame of an HL function, at the top, goes on.
Goes(t, from, to) ==
  /\ Depth(t) \in Nat \ {0}
  /\ stack' \in [Thread -> Seq(Frame)]
  /\ Len(stack'[t]) = Depth(t)
  /\ Kept(t, Depth(t) - 1)
  /\ Top(t) \in HLFrame
  /\ Top(t).at = from
  /\ stack'[t][Depth(t)] \in HLFrame
  /\ stack'[t][Depth(t)].at = to
  /\ stack'[t][Depth(t)].fun = Top(t).fun
  /\ \A u \in Thread : u # t => stack'[u] = stack[u]

\* A frame is pushed.
Pushes(t, frame) ==
  /\ Depth(t) \in Nat
  /\ Depth(t) < MaxDepth
  /\ stack' \in [Thread -> Seq(Frame)]
  /\ Len(stack'[t]) = Depth(t) + 1
  /\ Kept(t, Depth(t))
  /\ stack'[t][Depth(t) + 1] = frame
  /\ \A u \in Thread : u # t => stack'[u] = stack[u]

\* The frame at the top is removed.
Pops(t) ==
  /\ Depth(t) \in Nat \ {0}
  /\ Top(t) \in Frame
  /\ stack' \in [Thread -> Seq(Frame)]
  /\ Len(stack'[t]) = Depth(t) - 1
  /\ Kept(t, Depth(t) - 1)
  /\ \A u \in Thread : u # t => stack'[u] = stack[u]

\* Two frames are of the same call, of which only an exception is new.
SameCall(a, b) ==
  /\ a \in InvokeFrame /\ b \in InvokeFrame
  /\ a.at = "call" /\ b.at = "call"
  /\ a.fun = b.fun /\ a.original = b.original /\ a.direct = b.direct
  /\ a.bypass = b.bypass /\ a.saved = b.saved

\* An exception leaves the frames above the d-th.
Cuts(t, d) ==
  /\ Depth(t) \in Nat \ {0}
  /\ Top(t).at \in {"body", "fail", "override"}
  /\ \A i \in d + 1 .. Depth(t) - 1 : stack[t][i].at = "body"
  /\ stack' \in [Thread -> Seq(Frame)]
  /\ Len(stack'[t]) = d
  /\ Kept(t, d - 1)
  /\ d > 0 => \/ stack[t][d].at = "body" /\ stack'[t][d] = stack[t][d]
              \/ SameCall(stack[t][d], stack'[t][d])
  /\ \A u \in Thread : u # t => stack'[u] = stack[u]

\* A call from Python, which has its arguments, enters HL.
Enters(t) ==
  LET top == stack'[t][Depth(t)] IN
  /\ Depth(t) \in Nat \ {0}
  /\ Depth(t) < MaxDepth
  /\ Top(t) \in InvokeFrame
  /\ Top(t).at = "convert"
  /\ stack' \in [Thread -> Seq(Frame)]
  /\ Len(stack'[t]) = Depth(t) + 1
  /\ Kept(t, Depth(t) - 1)
  /\ top \in InvokeFrame
  /\ top.at = "call"
  /\ top.fun = Top(t).fun /\ top.original = Top(t).original /\ top.direct = Top(t).direct
  /\ top.bypass = bypass[t] /\ top.saved = return[t]
  /\ stack'[t][Depth(t) + 1] = Entered(Top(t).fun)
  /\ \A u \in Thread : u # t => stack'[u] = stack[u]

(* The frames of a stack are frames. *)
LEMMA Frames ==
  ASSUME TypeOK, NEW t \in Thread
  PROVE  /\ Depth(t) \in Nat
         /\ DOMAIN stack[t] = 1 .. Depth(t)
         /\ \A i \in 1 .. Depth(t) : stack[t][i] \in Frame
         /\ Depth(t) > 0 => Top(t) \in Frame
BY LenProperties, ElementOfSeq DEF TypeOK, Depth, Top

(* A frame is of one of the two kinds. *)
LEMMA FrameKind ==
  \A frame \in Frame :
    /\ frame \in HLFrame <=> frame.at \in Stage
    /\ frame \in InvokeFrame <=> frame.at \in {"convert", "call"}
    /\ frame.at \in Stage \/ frame.at \in {"convert", "call"}
    /\ frame.fun \in Function
BY DEF Frame, HLFrame, InvokeFrame, Stage

LEMMA Becomes ==
  ASSUME TypeOK, NEW t \in Thread, NEW frame \in Frame,
         Depth(t) > 0, Become(t, frame)
  PROVE  /\ stack' \in [Thread -> Seq(Frame)]
         /\ Len(stack'[t]) = Depth(t)
         /\ Kept(t, Depth(t) - 1)
         /\ stack'[t][Depth(t)] = frame
         /\ \A u \in Thread : u # t => stack'[u] = stack[u]
<1>1. stack[t] \in Seq(Frame) /\ Depth(t) \in 1 .. Len(stack[t])
  BY LenProperties DEF TypeOK, Depth
<1>2. stack'[t] = [stack[t] EXCEPT ![Depth(t)] = frame]
  BY DEF Become, TypeOK
<1>3. /\ stack'[t] \in Seq(Frame)
      /\ Len(stack'[t]) = Len(stack[t])
      /\ \A j \in 1 .. Len(stack[t]) :
           stack'[t][j] = IF j = Depth(t) THEN frame ELSE stack[t][j]
  BY <1>1, <1>2, ExceptSeq
<1> QED
  BY <1>1, <1>3, LenProperties DEF Become, TypeOK, Depth, Kept

LEMMA Pushed ==
  ASSUME TypeOK, NEW t \in Thread, NEW frame \in Frame, Push(t, frame)
  PROVE  Pushes(t, frame)
<1>1. stack[t] \in Seq(Frame) /\ Len(stack[t]) \in Nat
  BY LenProperties DEF TypeOK
<1>2. stack'[t] = Append(stack[t], frame)
  BY DEF Push, TypeOK
<1>3. /\ stack'[t] \in Seq(Frame)
      /\ Len(stack'[t]) = Len(stack[t]) + 1
      /\ \A i \in 1 .. Len(stack[t]) : stack'[t][i] = stack[t][i]
      /\ stack'[t][Len(stack[t]) + 1] = frame
  BY <1>1, <1>2, AppendProperties
<1> QED
  BY <1>1, <1>3 DEF Push, Pushes, TypeOK, Depth, Kept

LEMMA Popped ==
  ASSUME TypeOK, NEW t \in Thread, Depth(t) > 0, Pop(t)
  PROVE  Pops(t)
<1>1. stack[t] \in Seq(Frame) /\ Len(stack[t]) \in Nat
  BY LenProperties DEF TypeOK
<1>2. stack'[t] = SubSeq(stack[t], 1, Len(stack[t]) - 1)
  BY DEF Pop, TypeOK
<1>3. \A i \in 1 .. Len(stack[t]) : stack[t][i] \in Frame
  BY <1>1, ElementOfSeq
<1>4. /\ stack'[t] \in Seq(Frame)
      /\ Len(stack'[t]) = Len(stack[t]) - 1
      /\ \A i \in 1 .. Len(stack[t]) - 1 : stack'[t][i] = stack[t][i]
  BY <1>1, <1>2, <1>3, SubSeqProperties DEF Depth
<1> QED
  BY <1>1, <1>3, <1>4 DEF Pop, Pops, TypeOK, Depth, Kept, Top

(* A dispatch goes on. *)
LEMMA Going ==
  ASSUME TypeOK, NEW t \in Thread, NEW from \in Stage, NEW to \in Stage,
         TopIs(t, {from}), Goto(t, to)
  PROVE  Goes(t, from, to) /\ stack'[t][Depth(t)].callback = Top(t).callback
<1> DEFINE frame == [Top(t) EXCEPT !.at = to]
<1>1. Depth(t) > 0 /\ Depth(t) \in Nat \ {0} /\ Top(t) \in HLFrame /\ Top(t).at = from
  BY Frames, FrameKind DEF TopIs
<1>2. /\ frame \in HLFrame /\ frame.at = to /\ frame.fun = Top(t).fun
      /\ frame.callback = Top(t).callback
  BY <1>1 DEF HLFrame
<1>3. frame \in Frame /\ Become(t, frame)
  BY <1>2 DEF Frame, Goto
<1> HIDE DEF frame
<1> QED
  BY <1>1, <1>2, <1>3, Becomes DEF Goes

(* A dispatch has the callback. *)
LEMMA Hooking ==
  ASSUME TypeOK, NEW t \in Thread, TopIs(t, {"wait"}), NEW c \in Callback,
         Become(t, [Top(t) EXCEPT !.at = "hook", !.callback = c, !.saved = return[t]])
  PROVE  Goes(t, "wait", "hook") /\ stack'[t][Depth(t)].callback = c
<1> DEFINE frame == [Top(t) EXCEPT !.at = "hook", !.callback = c, !.saved = return[t]]
<1>1. Depth(t) > 0 /\ Depth(t) \in Nat \ {0} /\ Top(t) \in HLFrame /\ Top(t).at = "wait"
  BY Frames, FrameKind DEF TopIs, Stage
<1>2. /\ frame \in HLFrame /\ frame.at = "hook" /\ frame.fun = Top(t).fun
      /\ frame.callback = c
  BY <1>1 DEF HLFrame, Stage, TypeOK
<1>3. frame \in Frame /\ Become(t, frame)
  BY <1>2 DEF Frame
<1> HIDE DEF frame
<1> QED
  BY <1>1, <1>2, <1>3, Becomes DEF Goes

LEMMA Cutting ==
  ASSUME TypeOK, NEW t \in Thread, Throw(t)
  PROVE  \E d \in 0 .. Depth(t) - 1 : Cuts(t, d)
<1>1. /\ Depth(t) \in Nat \ {0} /\ Top(t).at \in {"body", "fail", "override"}
      /\ stack[t] \in Seq(Frame) /\ Len(stack[t]) = Depth(t)
      /\ \A i \in 1 .. Depth(t) : stack[t][i] \in Frame
      /\ stack \in [Thread -> Seq(Frame)]
  BY Frames DEF Throw, TopIs, TypeOK, Depth
<1>2. PICK d \in 0 .. Depth(t) - 1 :
        /\ \A i \in d + 1 .. Depth(t) - 1 : stack[t][i].at = "body"
        /\ \/ d = 0 /\ stack' = [stack EXCEPT ![t] = <<>>]
           \/ /\ d > 0
              /\ stack[t][d].at = "body"
              /\ stack' = [stack EXCEPT ![t] = SubSeq(@, 1, d)]
           \/ /\ d > 0
              /\ stack[t][d].at = "call"
              /\ stack' = [stack EXCEPT ![t] =
                             Append(SubSeq(@, 1, d - 1), [@[d] EXCEPT !.raised = TRUE])]
  BY DEF Throw
<1>3. CASE d = 0 /\ stack' = [stack EXCEPT ![t] = <<>>]
  BY <1>1, <1>2, <1>3, EmptySeq DEF Cuts, Kept
<1>4. CASE /\ d > 0
           /\ stack[t][d].at = "body"
           /\ stack' = [stack EXCEPT ![t] = SubSeq(@, 1, d)]
  <2>1. /\ SubSeq(stack[t], 1, d) \in Seq(Frame)
        /\ Len(SubSeq(stack[t], 1, d)) = d
        /\ \A i \in 1 .. d : SubSeq(stack[t], 1, d)[i] = stack[t][i]
    BY <1>1, <1>4, SubSeqProperties
  <2> QED
    BY <1>1, <1>2, <1>4, <2>1 DEF Cuts, Kept
<1>5. CASE /\ d > 0
           /\ stack[t][d].at = "call"
           /\ stack' = [stack EXCEPT ![t] =
                          Append(SubSeq(@, 1, d - 1), [@[d] EXCEPT !.raised = TRUE])]
  <2> DEFINE below == SubSeq(stack[t], 1, d - 1)
             frame == [stack[t][d] EXCEPT !.raised = TRUE]
  <2>1. /\ below \in Seq(Frame)
        /\ Len(below) = d - 1
        /\ \A i \in 1 .. d - 1 : below[i] = stack[t][i]
    BY <1>1, <1>5, SubSeqProperties
  <2>2. stack[t][d] \in InvokeFrame
    BY <1>1, <1>5, FrameKind
  <2>3. frame \in Frame /\ SameCall(stack[t][d], frame)
    BY <1>5, <2>2 DEF SameCall, InvokeFrame, Frame
  <2>4. stack'[t] = Append(below, frame)
    BY <1>1, <1>5
  <2> HIDE DEF below, frame
  <2>5. /\ Append(below, frame) \in Seq(Frame)
        /\ Len(Append(below, frame)) = d
        /\ \A i \in 1 .. d - 1 : Append(below, frame)[i] = stack[t][i]
        /\ Append(below, frame)[d] = frame
    BY <1>5, <2>1, <2>3, AppendProperties
  <2>6. stack' \in [Thread -> Seq(Frame)] /\ \A u \in Thread : u # t => stack'[u] = stack[u]
    <3>1. stack' = [stack EXCEPT ![t] = Append(below, frame)]
      BY <1>5 DEF below, frame
    <3> QED
      BY <1>1, <2>5, <3>1
  <2>7. \A i \in d + 1 .. Depth(t) - 1 : stack[t][i].at = "body"
    BY <1>2
  <2>8. /\ Len(stack'[t]) = d
        /\ Kept(t, d - 1)
        /\ SameCall(stack[t][d], stack'[t][d])
    BY <2>3, <2>4, <2>5 DEF Kept
  <2> QED
    BY <1>1, <2>6, <2>7, <2>8 DEF Cuts
<1> QED
  BY <1>2, <1>3, <1>4, <1>5

LEMMA Entering ==
  ASSUME TypeOK, NEW t \in Thread, InvokeEnter(t)
  PROVE  Enters(t)
<1> DEFINE below == SubSeq(stack[t], 1, Len(stack[t]) - 1)
           call == [Top(t) EXCEPT !.at = "call", !.bypass = bypass[t], !.saved = return[t]]
           entered == Entered(Top(t).fun)
<1>1. /\ Depth(t) \in Nat \ {0} /\ Depth(t) < MaxDepth
      /\ Top(t) \in InvokeFrame /\ Top(t).at = "convert"
      /\ stack[t] \in Seq(Frame) /\ Len(stack[t]) = Depth(t)
      /\ \A i \in 1 .. Depth(t) : stack[t][i] \in Frame
  <2>1. Depth(t) > 0 /\ Top(t) \in Frame /\ Top(t).at = "convert"
    BY Frames DEF InvokeEnter, TopIs
  <2> QED
    BY <2>1, Frames, FrameKind DEF InvokeEnter, TypeOK, Depth
<1>2. /\ call \in InvokeFrame /\ call.at = "call"
      /\ call.fun = Top(t).fun /\ call.original = Top(t).original
      /\ call.direct = Top(t).direct
      /\ call.bypass = bypass[t] /\ call.saved = return[t]
  BY <1>1 DEF InvokeFrame, TypeOK
<1>3. entered \in Frame /\ call \in Frame
  BY <1>1, <1>2 DEF Entered, InvokeFrame, HLFrame, Frame, Stage
<1>4. /\ below \in Seq(Frame)
      /\ Len(below) = Depth(t) - 1
      /\ \A i \in 1 .. Depth(t) - 1 : below[i] = stack[t][i]
  BY <1>1, SubSeqProperties
<1>5. stack'[t] = Append(below, call) \o <<entered>>
  BY DEF InvokeEnter, TypeOK
<1>6. \A u \in Thread : u # t => stack'[u] = stack[u]
  BY DEF InvokeEnter, TypeOK
<1>7. stack \in [Thread -> Seq(Frame)] /\ DOMAIN stack' = Thread /\ stack' = [u \in Thread |-> stack'[u]]
  BY DEF InvokeEnter, TypeOK
<1> HIDE DEF below, call, entered
<1>8. /\ Append(below, call) \in Seq(Frame)
      /\ Len(Append(below, call)) = Depth(t)
      /\ \A i \in 1 .. Depth(t) - 1 : Append(below, call)[i] = stack[t][i]
      /\ Append(below, call)[Depth(t)] = call
  BY <1>1, <1>3, <1>4, AppendProperties
<1>9. <<entered>> \in Seq(Frame) /\ Len(<<entered>>) = 1 /\ <<entered>>[1] = entered
  BY <1>3
<1>10. /\ stack'[t] \in Seq(Frame)
       /\ Len(stack'[t]) = Depth(t) + 1
       /\ \A i \in 1 .. Depth(t) - 1 : stack'[t][i] = stack[t][i]
       /\ stack'[t][Depth(t)] = call
       /\ stack'[t][Depth(t) + 1] = entered
  BY <1>1, <1>5, <1>8, <1>9, ConcatProperties
<1>11. stack' \in [Thread -> Seq(Frame)]
  BY <1>6, <1>7, <1>10
<1> QED
  BY <1>1, <1>2, <1>6, <1>10, <1>11 DEF Enters, Kept, entered
-----------------------------------------------------------------------------
(* The passthrough stack of a thread with the frames F is P.               *)

Matches(F, P) ==
  /\ Len(P) = Rank(F, Len(F))
  /\ \A i \in 1 .. Len(F) : Passing(F[i]) => P[Rank(F, i)] = F[i].original
  /\ \A k \in 1 .. Len(P) : \E i \in 1 .. Len(F) : Passing(F[i]) /\ Rank(F, i) = k

\* The same calls of originals are among the frames F and G.
SamePassing(F, G) ==
  /\ \A i \in 1 .. Len(F) :
       Passing(F[i]) => i <= Len(G) /\ Passing(G[i]) /\ G[i].original = F[i].original
  /\ \A i \in 1 .. Len(G) : Passing(G[i]) => i <= Len(F) /\ Passing(F[i])

LEMMA RankFinite ==
  ASSUME NEW F, NEW i \in Nat
  PROVE  IsFiniteSet({j \in 1 .. i : Passing(F[j])})
<1>1. IsFiniteSet(1 .. i)
  BY FS_Interval
<1>2. {j \in 1 .. i : Passing(F[j])} \in SUBSET (1 .. i)
  OBVIOUS
<1> QED
  BY <1>1, <1>2, FS_Subset

LEMMA RankNat ==
  ASSUME NEW F, NEW i \in Nat
  PROVE  Rank(F, i) \in Nat
<1>1. IsFiniteSet({j \in 1 .. i : Passing(F[j])})
  BY RankFinite
<1> QED
  BY <1>1, FS_CardinalityType DEF Rank

LEMMA RankNext ==
  ASSUME NEW F, NEW i \in Nat \ {0}
  PROVE  Rank(F, i) = IF Passing(F[i]) THEN Rank(F, i - 1) + 1 ELSE Rank(F, i - 1)
<1> DEFINE S(n) == {j \in 1 .. n : Passing(F[j])}
<1>1. IsFiniteSet(S(i - 1)) /\ i \notin S(i - 1)
  <2>1. i - 1 \in Nat
    OBVIOUS
  <2> QED
    BY <2>1, RankFinite
<1>2. CASE Passing(F[i])
  <2>1. S(i) = S(i - 1) \cup {i}
    BY <1>2
  <2>2. Cardinality(S(i - 1) \cup {i}) = Cardinality(S(i - 1)) + 1
    BY <1>1, FS_AddElement
  <2> QED
    BY <1>2, <2>1, <2>2 DEF Rank
<1>3. CASE ~ Passing(F[i])
  <2>1. S(i) = S(i - 1)
    BY <1>3
  <2> QED
    BY <1>3, <2>1 DEF Rank
<1> QED
  BY <1>2, <1>3

(* The rank of a call of an original is more than that of what is below. *)
LEMMA RankGrows ==
  ASSUME NEW F, NEW i \in Nat, NEW n \in Nat, i <= n
  PROVE  /\ Rank(F, i) <= Rank(F, n)
         /\ i > 0 /\ Passing(F[i]) => Rank(F, i) > 0
         /\ i < n /\ Passing(F[n]) => Rank(F, i) < Rank(F, n)
<1>1. ASSUME NEW m \in Nat, i <= m
      PROVE  Rank(F, i) <= Rank(F, m)
  <2>1. {j \in 1 .. i : Passing(F[j])} \in SUBSET {j \in 1 .. m : Passing(F[j])}
    BY <1>1
  <2> QED
    BY <2>1, RankFinite, FS_Subset DEF Rank
<1>2. i > 0 /\ Passing(F[i]) => Rank(F, i) > 0
  <2> SUFFICES ASSUME i > 0, Passing(F[i])
               PROVE  Rank(F, i) > 0
    OBVIOUS
  <2>1. Rank(F, i) = Rank(F, i - 1) + 1 /\ i - 1 \in Nat
    BY RankNext
  <2>2. Rank(F, i - 1) \in Nat
    BY <2>1, RankNat
  <2> QED
    BY <2>1, <2>2
<1>3. i < n /\ Passing(F[n]) => Rank(F, i) < Rank(F, n)
  <2> SUFFICES ASSUME i < n, Passing(F[n])
               PROVE  Rank(F, i) < Rank(F, n)
    OBVIOUS
  <2>1. Rank(F, n) = Rank(F, n - 1) + 1 /\ n - 1 \in Nat
    BY RankNext
  <2>2. Rank(F, i) <= Rank(F, n - 1)
    BY <1>1, <2>1
  <2>3. Rank(F, i) \in Nat /\ Rank(F, n - 1) \in Nat
    BY <2>1, RankNat
  <2> QED
    BY <2>1, <2>2, <2>3
<1> QED
  BY <1>1, <1>2, <1>3

LEMMA MatchesSame ==
  ASSUME NEW F \in Seq(Frame), NEW G \in Seq(Frame), NEW P \in Seq(Function),
         SamePassing(F, G), Matches(F, P)
  PROVE  Matches(G, P)
<1>1. Len(F) \in Nat /\ Len(G) \in Nat /\ Len(P) \in Nat
  BY LenProperties
<1>2. Rank(F, Len(F)) = Rank(G, Len(G))
  <2>1. {j \in 1 .. Len(F) : Passing(F[j])} = {j \in 1 .. Len(G) : Passing(G[j])}
    BY <1>1 DEF SamePassing
  <2> QED
    BY <2>1 DEF Rank
<1>3. \A i \in 1 .. Len(F) : i <= Len(G) => Rank(F, i) = Rank(G, i)
  <2> TAKE i \in 1 .. Len(F)
  <2> HAVE i <= Len(G)
  <2>1. \A j \in 1 .. i : Passing(F[j]) <=> Passing(G[j])
    BY <1>1 DEF SamePassing
  <2> QED
    BY <2>1 DEF Rank
<1> QED
  BY <1>1, <1>2, <1>3 DEF Matches, SamePassing

(* A function is passed through when a call of the original is in progress. *)
LEMMA PassesWhat ==
  ASSUME NEW F \in Seq(Frame), NEW P \in Seq(Function), Matches(F, P), NEW f
  PROVE  (\E k \in DOMAIN P : P[k] = f)
           <=> (\E i \in 1 .. Len(F) : Passing(F[i]) /\ F[i].original = f)
<1>1. Len(F) \in Nat /\ Len(P) \in Nat /\ DOMAIN P = 1 .. Len(P)
  BY LenProperties
<1>2. ASSUME NEW i \in 1 .. Len(F), Passing(F[i])
      PROVE  Rank(F, i) \in 1 .. Len(P) /\ P[Rank(F, i)] = F[i].original
  <2>1. i \in Nat /\ i > 0 /\ i <= Len(F)
    BY <1>1
  <2>2. Rank(F, i) <= Rank(F, Len(F)) /\ Rank(F, i) > 0
    BY <1>1, <1>2, <2>1, RankGrows
  <2>3. Rank(F, i) \in Nat
    BY <2>1, RankNat
  <2> QED
    BY <1>1, <1>2, <2>2, <2>3 DEF Matches
<1> QED
  BY <1>1, <1>2, SMTT(30) DEF Matches

LEMMA RankPrefix ==
  ASSUME NEW F, NEW G, NEW i \in Nat, \A j \in 1 .. i : F[j] = G[j]
  PROVE  Rank(F, i) = Rank(G, i)
<1>1. \A j \in 1 .. i : Passing(F[j]) <=> Passing(G[j])
  OBVIOUS
<1> QED
  BY <1>1 DEF Rank

(* A call of an original is entered. *)
LEMMA MatchesPush ==
  ASSUME NEW F \in Seq(Frame), NEW G \in Seq(Frame), NEW P \in Seq(Function),
         NEW f \in Function, Matches(F, P),
         Len(F) > 0, Len(G) = Len(F) + 1,
         \A i \in 1 .. Len(F) - 1 : F[i] = G[i],
         ~ Passing(F[Len(F)]), Passing(G[Len(F)]), ~ Passing(G[Len(F) + 1]),
         G[Len(F)].original = f
  PROVE  Matches(G, Append(P, f))
<1> DEFINE n == Len(F)
           Q == Append(P, f)
<1>1. n \in Nat \ {0} /\ Len(P) \in Nat
  BY LenProperties
<1>2. /\ Len(Q) = Len(P) + 1 /\ Q[Len(P) + 1] = f
      /\ \A k \in 1 .. Len(P) : Q[k] = P[k]
  BY AppendProperties
<1>3. \A i \in 0 .. n - 1 : Rank(G, i) = Rank(F, i)
  <2> TAKE i \in 0 .. n - 1
  <2>1. i \in Nat /\ \A j \in 1 .. i : F[j] = G[j]
    BY <1>1
  <2> QED
    BY <2>1, RankPrefix
<1>4. Rank(F, n) = Rank(F, n - 1)
  BY <1>1, RankNext
<1>5. Rank(G, n) = Rank(G, n - 1) + 1
  BY <1>1, RankNext
<1>6. Rank(G, n + 1) = Rank(G, n)
  <2>1. n + 1 \in Nat \ {0} /\ (n + 1) - 1 = n
    BY <1>1
  <2> QED
    BY <2>1, RankNext
<1>7. Rank(G, n) = Len(P) + 1
  BY <1>1, <1>3, <1>4, <1>5 DEF Matches
<1>8. ASSUME NEW i \in 1 .. n - 1, Passing(F[i])
      PROVE  Rank(F, i) \in 1 .. Len(P)
  <2>1. i \in Nat /\ i <= n /\ i > 0
    BY <1>1
  <2>2. Rank(F, i) <= Rank(F, n) /\ Rank(F, i) > 0
    BY <1>1, <1>8, <2>1, RankGrows
  <2>3. Rank(F, i) \in Nat
    BY <2>1, RankNat
  <2> QED
    BY <1>1, <2>2, <2>3 DEF Matches
<1> HIDE DEF Q
<1>9. ASSUME NEW i \in 1 .. n + 1, Passing(G[i])
      PROVE  Q[Rank(G, i)] = G[i].original
  <2>1. CASE i = n
    BY <1>2, <1>7, <2>1
  <2>2. CASE i # n
    <3>1. i \in 1 .. n - 1 /\ F[i] = G[i]
      BY <1>1, <1>9, <2>2
    <3>2. i \in 0 .. n - 1 /\ i \in 1 .. n /\ Passing(F[i])
      BY <1>1, <1>9, <3>1
    <3>3. Rank(G, i) = Rank(F, i)
      BY <1>3, <3>2
    <3>4. P[Rank(F, i)] = F[i].original
      BY <3>2 DEF Matches
    <3> QED
      BY <1>2, <1>8, <3>1, <3>2, <3>3, <3>4
  <2> QED
    BY <2>1, <2>2
<1>10. ASSUME NEW k \in 1 .. Len(P) + 1
       PROVE  \E i \in 1 .. n + 1 : Passing(G[i]) /\ Rank(G, i) = k
  <2>1. CASE k = Len(P) + 1
    BY <1>1, <1>7, <2>1
  <2>2. CASE k # Len(P) + 1
    <3>1. k \in 1 .. Len(P)
      BY <1>1, <2>2
    <3>2. PICK i \in 1 .. n : Passing(F[i]) /\ Rank(F, i) = k
      BY <3>1 DEF Matches
    <3>3. i \in 1 .. n - 1
      BY <1>1, <3>2
    <3> QED
      BY <1>1, <1>3, <3>2, <3>3
  <2> QED
    BY <2>1, <2>2
<1> QED
  BY <1>1, <1>2, <1>6, <1>7, <1>9, <1>10 DEF Matches, Q

(* A call of an original is left. *)
LEMMA MatchesPop ==
  ASSUME NEW F \in Seq(Frame), NEW G \in Seq(Frame), NEW P \in Seq(Function),
         Matches(F, P),
         Len(F) > 0, Len(G) = Len(F) - 1,
         \A i \in 1 .. Len(F) - 1 : F[i] = G[i],
         Passing(F[Len(F)])
  PROVE  Matches(G, SubSeq(P, 1, Len(P) - 1))
<1> DEFINE n == Len(F)
           Q == SubSeq(P, 1, Len(P) - 1)
<1>1. n \in Nat \ {0} /\ Len(P) \in Nat
  BY LenProperties
<1>2. \A i \in 0 .. n - 1 : Rank(G, i) = Rank(F, i)
  <2> TAKE i \in 0 .. n - 1
  <2>1. i \in Nat /\ \A j \in 1 .. i : F[j] = G[j]
    BY <1>1
  <2> QED
    BY <2>1, RankPrefix
<1>3. Len(P) = Rank(F, n - 1) + 1 /\ Rank(F, n) = Len(P) /\ Rank(F, n - 1) \in Nat
  BY <1>1, RankNext, RankNat DEF Matches
<1>4. \A k \in 1 .. Len(P) : P[k] \in Function
  BY ElementOfSeq
<1>5. /\ Len(Q) = Len(P) - 1
      /\ \A k \in 1 .. Len(P) - 1 : Q[k] = P[k]
  BY <1>1, <1>3, <1>4, SubSeqProperties
<1>6. ASSUME NEW i \in 1 .. n - 1, Passing(F[i])
      PROVE  Rank(F, i) \in 1 .. Len(P) - 1
  <2>1. i \in Nat /\ n - 1 \in Nat /\ i <= n - 1 /\ i > 0
    BY <1>1
  <2>2. Rank(F, i) <= Rank(F, n - 1) /\ Rank(F, i) > 0
    BY <1>6, <2>1, RankGrows
  <2>3. Rank(F, i) \in Nat
    BY <2>1, RankNat
  <2>4. Rank(F, n - 1) = Len(P) - 1 /\ Len(P) - 1 \in Nat
    BY <1>1, <1>3
  <2> QED
    BY <2>2, <2>3, <2>4
<1> HIDE DEF Q
<1>7. ASSUME NEW i \in 1 .. n - 1, Passing(G[i])
      PROVE  Q[Rank(G, i)] = G[i].original
  <2>1. F[i] = G[i] /\ Rank(G, i) = Rank(F, i) /\ i \in 1 .. n
    BY <1>1, <1>2
  <2>2. P[Rank(F, i)] = F[i].original
    BY <1>7, <2>1 DEF Matches
  <2>3. Q[Rank(F, i)] = P[Rank(F, i)]
    BY <1>5, <1>6, <1>7, <2>1
  <2> QED
    BY <2>1, <2>2, <2>3
<1>8. ASSUME NEW k \in 1 .. Len(P) - 1
      PROVE  \E i \in 1 .. n - 1 : Passing(G[i]) /\ Rank(G, i) = k
  <2>1. k \in 1 .. Len(P)
    BY <1>1
  <2>2. PICK i \in 1 .. n : Passing(F[i]) /\ Rank(F, i) = k
    BY <2>1 DEF Matches
  <2>3. i # n
    BY <1>1, <1>3, <2>2
  <2>4. i \in 1 .. n - 1 /\ i \in 0 .. n - 1
    BY <1>1, <2>3
  <2>5. Passing(G[i]) /\ Rank(G, i) = k
    BY <1>2, <2>2, <2>4
  <2> QED
    BY <2>4, <2>5
<1>9. Len(Q) = Rank(G, n - 1)
  BY <1>1, <1>2, <1>3, <1>5
<1> QED
  BY <1>1, <1>5, <1>7, <1>8, <1>9 DEF Matches, Q
-----------------------------------------------------------------------------
(* What the steps do to the stack of their thread.                         *)

LEMMA Shapes ==
  ASSUME TypeOK, NEW t \in Thread
  PROVE  /\ DispatchBody(t) => Goes(t, "enter", "body")
         /\ DispatchOverride(t) => Goes(t, "enter", "override")
         /\ DispatchHook(t) => Goes(t, "enter", "wait")
         /\ Fetch(t) =>
              \/ Goes(t, "wait", "body") /\ refs' = refs
              \/ /\ Goes(t, "wait", "hook")
                 /\ slot[Top(t).fun] # None
                 /\ stack'[t][Depth(t)].callback = slot[Top(t).fun]
                 /\ refs' = [refs EXCEPT ![slot[Top(t).fun]] = @ + 1]
         /\ HookReturn(t) => Goes(t, "hook", "release")
         /\ HookRaise(t) => Goes(t, "hook", "fail")
         /\ Released(t) => Goes(t, "release", "return")
         /\ OverrideReturn(t) => Goes(t, "override", "return")
         /\ Return(t) => Pops(t) /\ Top(t).at \in {"return", "body"}
         /\ InvokeRefused(t) => Pops(t) /\ Top(t).at = "convert"
         /\ InvokeReturn(t) => Pops(t) /\ Top(t) \in InvokeFrame /\ Top(t).at = "call"
<1>1. DispatchBody(t) => Goes(t, "enter", "body")
  BY Going DEF DispatchBody, Stage
<1>2. DispatchOverride(t) => Goes(t, "enter", "override")
  BY Going DEF DispatchOverride, Stage
<1>3. DispatchHook(t) => Goes(t, "enter", "wait")
  BY Going DEF DispatchHook, Stage
<1>4. ASSUME Fetch(t)
      PROVE  \/ Goes(t, "wait", "body") /\ refs' = refs
             \/ /\ Goes(t, "wait", "hook")
                /\ slot[Top(t).fun] # None
                /\ stack'[t][Depth(t)].callback = slot[Top(t).fun]
                /\ refs' = [refs EXCEPT ![slot[Top(t).fun]] = @ + 1]
  <2>1. TopIs(t, {"wait"}) /\ Top(t).fun \in Function
    BY <1>4, Frames, FrameKind DEF Fetch, TopIs
  <2>2. CASE slot[Top(t).fun] = None
    <3>1. Goto(t, "body") /\ refs' = refs
      BY <1>4, <2>2 DEF Fetch
    <3> QED
      BY <2>1, <3>1, Going DEF Stage
  <2>3. CASE slot[Top(t).fun] # None
    <3>1. slot[Top(t).fun] \in Callback
      BY <2>1, <2>3 DEF TypeOK
    <3>2. /\ Become(t, [Top(t) EXCEPT !.at = "hook", !.callback = slot[Top(t).fun],
                                      !.saved = return[t]])
          /\ refs' = [refs EXCEPT ![slot[Top(t).fun]] = @ + 1]
      BY <1>4, <2>3 DEF Fetch
    <3> QED
      BY <2>1, <2>3, <3>1, <3>2, Hooking
  <2> QED
    BY <2>2, <2>3
<1>5. HookReturn(t) => Goes(t, "hook", "release")
  BY Going DEF HookReturn, Stage
<1>6. HookRaise(t) => Goes(t, "hook", "fail")
  BY Going DEF HookRaise, Stage
<1>7. Released(t) => Goes(t, "release", "return")
  BY Going DEF Released, Stage
<1>8. OverrideReturn(t) => Goes(t, "override", "return")
  BY Going DEF OverrideReturn, Stage
<1>9. Return(t) => Pops(t) /\ Top(t).at \in {"return", "body"}
  BY Popped DEF Return, TopIs
<1>10. InvokeRefused(t) => Pops(t) /\ Top(t).at = "convert"
  BY Popped DEF InvokeRefused, TopIs
<1>11. InvokeReturn(t) => Pops(t) /\ Top(t) \in InvokeFrame /\ Top(t).at = "call"
  <2>1. InvokeReturn(t) => Pops(t) /\ Top(t) \in Frame /\ Top(t).at = "call"
    BY Popped, Frames DEF InvokeReturn, TopIs
  <2> QED
    BY <2>1, FrameKind
<1> QED
  BY <1>1, <1>2, <1>3, <1>4, <1>5, <1>6, <1>7, <1>8, <1>9, <1>10, <1>11

LEMMA Calls ==
  ASSUME TypeOK, NEW t \in Thread, NEW f \in Function, Call(t, f)
  PROVE  Pushes(t, Entered(f)) /\ (Depth(t) = 0 \/ Top(t).at = "body")
<1>1. Entered(f) \in Frame
  BY DEF Entered, Frame, HLFrame, Stage
<1> QED
  BY <1>1, Pushed DEF Call, RunsHL, TopIs

LEMMA Invokes ==
  ASSUME TypeOK, NEW t \in Thread, NEW f \in Function,
         NEW original \in {f, None}, NEW direct \in {f, None},
         Invoke(t, f, original, direct)
  PROVE  /\ Pushes(t, Calling(f, original, direct))
         /\ \/ Depth(t) = 0
            \/ Top(t).at \in {"hook", "release", "fail", "override", "convert"}
<1>1. Calling(f, original, direct) \in Frame
  BY DEF Calling, Frame, InvokeFrame
<1> QED
  BY <1>1, Pushed DEF Invoke, RunsPython, TopIs

(* What a thread does is one of these. *)
LEMMA ThreadSteps ==
  ASSUME Next
  PROVE  \/ \E f \in Function : Unregister(f) \/ \E c \in Callback : Register(f, c)
         \/ \E t \in Thread :
              \/ DispatchBody(t) \/ DispatchOverride(t) \/ DispatchHook(t)
              \/ Fetch(t) \/ HookReturn(t) \/ HookRaise(t) \/ Released(t)
              \/ OverrideReturn(t) \/ Return(t) \/ Throw(t)
              \/ InvokeRefused(t) \/ InvokeEnter(t) \/ InvokeReturn(t)
              \/ \E f \in Function : Call(t, f)
              \/ \E f \in Function : \E original, direct \in {f, None} :
                   Invoke(t, f, original, direct)
BY DEF Next, CallOriginal, CallFunction, CallClosure
-----------------------------------------------------------------------------
(* Types.                                                                  *)

(* The stacks stay stacks, of a bounded depth. *)
LEMMA StackType ==
  ASSUME TypeOK, Next
  PROVE  /\ stack' \in [Thread -> Seq(Frame)]
         /\ \A t \in Thread : Len(stack'[t]) <= MaxDepth
<1> DEFINE Good == /\ stack' \in [Thread -> Seq(Frame)]
                   /\ \A t \in Thread : Len(stack'[t]) <= MaxDepth
<1>1. MaxDepth \in Nat /\ \A u \in Thread : Depth(u) \in Nat /\ Depth(u) <= MaxDepth
  BY DepthAssumption, Frames DEF TypeOK, Depth
<1>2. ASSUME NEW t \in Thread, NEW from, NEW to, Goes(t, from, to)
      PROVE  Good
  BY <1>1, <1>2 DEF Goes, Depth
<1>3. ASSUME NEW t \in Thread, NEW frame, Pushes(t, frame)
      PROVE  Good
  BY <1>1, <1>3 DEF Pushes, Depth
<1>4. ASSUME NEW t \in Thread, Pops(t)
      PROVE  Good
  BY <1>1, <1>4 DEF Pops, Depth
<1>5. ASSUME NEW t \in Thread, Throw(t)
      PROVE  Good
  <2>1. PICK d \in 0 .. Depth(t) - 1 : Cuts(t, d)
    BY <1>5, Cutting
  <2> QED
    BY <1>1, <2>1 DEF Cuts, Depth
<1>6. ASSUME NEW t \in Thread, InvokeEnter(t)
      PROVE  Good
  BY <1>1, <1>6, Entering DEF Enters, Depth
<1>7. ASSUME UNCHANGED stack
      PROVE  Good
  BY <1>7 DEF TypeOK
<1> HIDE DEF Good
<1>8. ASSUME NEW t \in Thread,
             \/ DispatchBody(t) \/ DispatchOverride(t) \/ DispatchHook(t)
             \/ Fetch(t) \/ HookReturn(t) \/ HookRaise(t) \/ Released(t)
             \/ OverrideReturn(t) \/ Return(t) \/ InvokeRefused(t) \/ InvokeReturn(t)
      PROVE  Good
  BY <1>2, <1>4, <1>8, Shapes
<1>9. ASSUME NEW t \in Thread, NEW f \in Function,
             Call(t, f) \/ \E original, direct \in {f, None} : Invoke(t, f, original, direct)
      PROVE  Good
  BY <1>3, <1>9, Calls, Invokes
<1>10. (\E f \in Function : Unregister(f) \/ \E c \in Callback : Register(f, c)) => UNCHANGED stack
  BY DEF Unregister, Register
<1>11. Good
  BY <1>5, <1>6, <1>7, <1>8, <1>9, <1>10, ThreadSteps
<1> QED
  BY <1>11 DEF Good

(* An element less of a sequence. *)
LEMMA Shorter ==
  ASSUME NEW S, NEW s \in Seq(S)
  PROVE  SubSeq(s, 1, Len(s) - 1) \in Seq(S)
<1>1. Len(s) \in Nat /\ \A i \in 1 .. Len(s) - 1 : s[i] \in S
  BY LenProperties, ElementOfSeq
<1> QED
  BY <1>1, SubSeqProperties

(* A reference less. *)
LEMMA OneLess ==
  ASSUME TypeOK, NEW c
  PROVE  [refs EXCEPT ![c] = @ - 1] \in [Callback -> Int]
<1>1. CASE c \in Callback
  BY <1>1 DEF TypeOK
<1>2. CASE c \notin Callback
  BY <1>2 DEF TypeOK
<1> QED
  BY <1>1, <1>2

LEMMA TypeStep ==
  ASSUME TypeOK, [Next]_vars
  PROVE  TypeOK'
<1> SUFFICES ASSUME Next
             PROVE  TypeOK'
  BY DEF vars, TypeOK
<1> DEFINE Good == /\ passthrough' \in [Thread -> Seq(Function)]
                   /\ bypass' \in [Thread -> Function \cup {None}]
                   /\ return' \in [Thread -> Nat]
                   /\ slot' \in [Function -> Callback \cup {None}]
                   /\ refs' \in [Callback -> Int]
<1> USE DEF TypeOK
<1>1. ASSUME NEW f \in Function, Unregister(f)
      PROVE  Good
  BY <1>1 DEF Unregister
<1>2. ASSUME NEW f \in Function, NEW c \in Callback, Register(f, c)
      PROVE  Good
  BY <1>2 DEF Register
<1>3. ASSUME NEW t \in Thread,
             DispatchBody(t) \/ DispatchOverride(t) \/ DispatchHook(t) \/ Released(t)
               \/ Throw(t) \/ InvokeRefused(t)
      PROVE  Good
  BY <1>3 DEF DispatchBody, DispatchOverride, DispatchHook, Released, Throw, InvokeRefused
<1>4. ASSUME NEW t \in Thread, Fetch(t)
      PROVE  Good
  BY <1>4 DEF Fetch
<1>5. ASSUME NEW t \in Thread, OverrideReturn(t) \/ Return(t)
      PROVE  Good
  BY <1>5, Frames DEF OverrideReturn, Return
<1>6. ASSUME NEW t \in Thread, HookReturn(t)
      PROVE  Good
  <2>1. Depth(t) \in Nat /\ refs' \in [Callback -> Int]
    BY <1>6, Frames, OneLess DEF HookReturn
  <2> QED
    BY <1>6, <2>1 DEF HookReturn
<1>7. ASSUME NEW t \in Thread, HookRaise(t)
      PROVE  Good
  <2>1. Depth(t) > 0 /\ Top(t) \in HLFrame
    BY <1>7, Frames, FrameKind DEF HookRaise, TopIs, Stage
  <2>2. Top(t).saved \in Nat
    BY <2>1 DEF HLFrame
  <2>3. refs' \in [Callback -> Int]
    BY <1>7, OneLess DEF HookRaise
  <2> QED
    BY <1>7, <2>2, <2>3 DEF HookRaise
<1>8. ASSUME NEW t \in Thread, NEW f \in Function,
             Call(t, f) \/ \E original, direct \in {f, None} : Invoke(t, f, original, direct)
      PROVE  Good
  BY <1>8 DEF Call, Invoke
<1>9. ASSUME NEW t \in Thread, InvokeEnter(t)
      PROVE  Good
  <2>1. Top(t) \in InvokeFrame
    BY <1>9, Entering DEF Enters
  <2>2. Top(t).original \in Function \cup {None} /\ Top(t).direct \in Function \cup {None}
    BY <2>1 DEF InvokeFrame
  <2>3. Top(t).original # None => Append(passthrough[t], Top(t).original) \in Seq(Function)
    BY <2>2, AppendProperties
  <2> QED
    BY <1>9, <2>2, <2>3 DEF InvokeEnter
<1>10. ASSUME NEW t \in Thread, InvokeReturn(t)
       PROVE  Good
  <2>1. Top(t) \in InvokeFrame
    BY <1>10, Shapes
  <2>2. Top(t).saved \in Nat /\ Top(t).bypass \in Function \cup {None}
    BY <2>1 DEF InvokeFrame
  <2>3. SubSeq(passthrough[t], 1, Len(passthrough[t]) - 1) \in Seq(Function)
    BY Shorter
  <2> QED
    BY <1>10, <2>2, <2>3 DEF InvokeReturn
<1> HIDE DEF Good
<1>11. Good
  BY <1>1, <1>2, <1>3, <1>4, <1>5, <1>6, <1>7, <1>8, <1>9, <1>10, ThreadSteps
<1> QED
  BY <1>11, StackType DEF Good
-----------------------------------------------------------------------------
(* The passthrough stack.                                                  *)

LEMMA MatchesAll ==
  ASSUME TypeOK
  PROVE  (PassthroughMatches /\ NothingElsePasses)
           <=> \A t \in Thread : Matches(stack[t], passthrough[t])
<1>1. \A t \in Thread : /\ DOMAIN stack[t] = 1 .. Len(stack[t])
                        /\ DOMAIN passthrough[t] = 1 .. Len(passthrough[t])
  BY LenProperties DEF TypeOK
<1> QED
  BY <1>1 DEF PassthroughMatches, NothingElsePasses, Matches, Depth

(* Only the calls of originals matter. *)
LEMMA SameCalls ==
  ASSUME TypeOK, TypeOK', NEW t \in Thread
  PROVE  /\ \A from, to : Goes(t, from, to) => SamePassing(stack[t], stack'[t])
         /\ \A frame : Pushes(t, frame) /\ ~ Passing(frame)
              => SamePassing(stack[t], stack'[t])
         /\ Pops(t) /\ ~ Passing(Top(t)) => SamePassing(stack[t], stack'[t])
         /\ \A d \in 0 .. Depth(t) - 1 : Cuts(t, d) => SamePassing(stack[t], stack'[t])
         /\ Enters(t) /\ Top(t).original = None => SamePassing(stack[t], stack'[t])
<1> DEFINE n == Depth(t)
<1>1. n = Len(stack[t]) /\ n \in Nat
  BY LenProperties DEF TypeOK, Depth
<1>2. ASSUME NEW from, NEW to, Goes(t, from, to)
      PROVE  SamePassing(stack[t], stack'[t])
  <2>1. stack[t][n].at # "call" /\ stack'[t][n].at # "call"
    BY <1>2 DEF Goes, HLFrame, Stage, Top
  <2> QED
    BY <1>1, <1>2, <2>1 DEF Goes, Kept, SamePassing, Passing
<1>3. ASSUME NEW frame, Pushes(t, frame), ~ Passing(frame)
      PROVE  SamePassing(stack[t], stack'[t])
  BY <1>1, <1>3 DEF Pushes, Kept, SamePassing
<1>4. ASSUME Pops(t), ~ Passing(Top(t))
      PROVE  SamePassing(stack[t], stack'[t])
  BY <1>1, <1>4 DEF Pops, Kept, SamePassing, Top
<1>5. ASSUME NEW d \in 0 .. n - 1, Cuts(t, d)
      PROVE  SamePassing(stack[t], stack'[t])
  <2>1. \A i \in d + 1 .. n : ~ Passing(stack[t][i])
    <3>1. \A i \in d + 1 .. n - 1 : ~ Passing(stack[t][i])
      BY <1>5 DEF Cuts, Passing
    <3>2. ~ Passing(stack[t][n])
      BY <1>5 DEF Cuts, Passing, Top
    <3> QED
      BY <1>1, <3>1, <3>2
  <2>2. d > 0 => /\ Passing(stack[t][d]) <=> Passing(stack'[t][d])
                 /\ Passing(stack[t][d]) => stack'[t][d].original = stack[t][d].original
    BY <1>5 DEF Cuts, SameCall, Passing
  <2>3. Len(stack'[t]) = d /\ \A i \in 1 .. d - 1 : stack'[t][i] = stack[t][i]
    BY <1>5 DEF Cuts, Kept
  <2>4. ASSUME NEW i \in 1 .. d
        PROVE  /\ Passing(stack[t][i]) <=> Passing(stack'[t][i])
               /\ Passing(stack[t][i]) => stack'[t][i].original = stack[t][i].original
    <3>1. CASE i = d
      BY <1>1, <2>2, <3>1
    <3>2. CASE i # d
      <4>1. i \in 1 .. d - 1
        BY <1>1, <3>2
      <4> QED
        BY <2>3, <4>1
    <3> QED
      BY <3>1, <3>2
  <2>5. \A i \in 1 .. n : Passing(stack[t][i]) => i \in 1 .. d
    BY <1>1, <2>1
  <2>6. d \in Nat /\ d <= n
    BY <1>1
  <2> QED
    BY <1>1, <2>3, <2>4, <2>5, <2>6 DEF SamePassing
<1>6. ASSUME Enters(t), Top(t).original = None
      PROVE  SamePassing(stack[t], stack'[t])
  <2>1. ~ Passing(stack[t][n]) /\ ~ Passing(stack'[t][n]) /\ ~ Passing(stack'[t][n + 1])
    BY <1>6 DEF Enters, Passing, Top, Entered
  <2>2. /\ Len(stack'[t]) = n + 1
        /\ \A i \in 1 .. n - 1 : stack'[t][i] = stack[t][i]
    BY <1>6 DEF Enters, Kept
  <2>3. ASSUME NEW i \in 1 .. n + 1
        PROVE  /\ Passing(stack[t][i]) /\ i <= n => i \in 1 .. n - 1
               /\ Passing(stack'[t][i]) => i \in 1 .. n - 1
    BY <1>1, <2>1
  <2> QED
    BY <1>1, <2>2, <2>3, SMTT(30) DEF SamePassing
<1> QED
  BY <1>2, <1>3, <1>4, <1>5, <1>6

LEMMA MatchStep ==
  ASSUME TypeOK, TypeOK', Next, \A t \in Thread : Matches(stack[t], passthrough[t])
  PROVE  \A t \in Thread : Matches(stack'[t], passthrough'[t])
<1> DEFINE Same(t) == /\ SamePassing(stack[t], stack'[t])
                      /\ passthrough'[t] = passthrough[t]
                      /\ \A u \in Thread :
                           u # t => stack'[u] = stack[u] /\ passthrough'[u] = passthrough[u]
           Good == \A t \in Thread : Matches(stack'[t], passthrough'[t])
<1>0. \A t \in Thread : /\ stack[t] \in Seq(Frame) /\ stack'[t] \in Seq(Frame)
                        /\ passthrough[t] \in Seq(Function)
                        /\ Depth(t) = Len(stack[t])
  BY DEF TypeOK, Depth
<1>1. ASSUME NEW t \in Thread, Same(t)
      PROVE  Good
  <2> SUFFICES ASSUME NEW u \in Thread
               PROVE  Matches(stack'[u], passthrough'[u])
    OBVIOUS
  <2>1. CASE u = t
    BY <1>0, <1>1, <2>1, MatchesSame
  <2>2. CASE u # t
    BY <1>1, <2>2
  <2> QED
    BY <2>1, <2>2
<1>2. ASSUME NEW t \in Thread, NEW from, NEW to, Goes(t, from, to), UNCHANGED passthrough
      PROVE  Good
  BY <1>1, <1>2, SameCalls DEF Goes
<1>3. ASSUME NEW t \in Thread,
             \/ DispatchBody(t) \/ DispatchOverride(t) \/ DispatchHook(t)
             \/ Fetch(t) \/ HookReturn(t) \/ HookRaise(t) \/ Released(t)
             \/ OverrideReturn(t)
      PROVE  Good
  <2>1. UNCHANGED passthrough
    BY <1>3 DEF DispatchBody, DispatchOverride, DispatchHook, Fetch, HookReturn,
                HookRaise, Released, OverrideReturn
  <2>2. \E from, to : Goes(t, from, to)
    BY <1>3, Shapes
  <2> QED
    BY <1>2, <2>1, <2>2
<1>4. ASSUME NEW t \in Thread, Return(t) \/ InvokeRefused(t)
      PROVE  Good
  <2>1. Pops(t) /\ ~ Passing(Top(t))
    BY <1>4, Shapes DEF Passing
  <2>2. UNCHANGED passthrough
    BY <1>4 DEF Return, InvokeRefused
  <2> QED
    BY <1>1, <2>1, <2>2, SameCalls DEF Pops
<1>5. ASSUME NEW t \in Thread, Throw(t)
      PROVE  Good
  <2>1. PICK d \in 0 .. Depth(t) - 1 : Cuts(t, d)
    BY <1>5, Cutting
  <2>2. UNCHANGED passthrough
    BY <1>5 DEF Throw
  <2> QED
    BY <1>1, <2>1, <2>2, SameCalls DEF Cuts
<1>6. ASSUME NEW t \in Thread, NEW f \in Function,
             Call(t, f) \/ \E original, direct \in {f, None} : Invoke(t, f, original, direct)
      PROVE  Good
  <2>1. \E frame : Pushes(t, frame) /\ ~ Passing(frame)
    <3>1. CASE Call(t, f)
      <4>1. Pushes(t, Entered(f))
        BY <3>1, Calls
      <4>2. ~ Passing(Entered(f))
        BY DEF Entered, Passing
      <4> QED
        BY <4>1, <4>2
    <3>2. ASSUME NEW original \in {f, None}, NEW direct \in {f, None},
                 Invoke(t, f, original, direct)
          PROVE  \E frame : Pushes(t, frame) /\ ~ Passing(frame)
      <4>1. Pushes(t, Calling(f, original, direct))
        BY <3>2, Invokes
      <4>2. ~ Passing(Calling(f, original, direct))
        BY DEF Calling, Passing
      <4> QED
        BY <4>1, <4>2
    <3> QED
      BY <1>6, <3>1, <3>2
  <2>2. UNCHANGED passthrough
    BY <1>6 DEF Call, Invoke
  <2> QED
    BY <1>1, <2>1, <2>2, SameCalls DEF Pushes
<1>7. ASSUME NEW t \in Thread, InvokeEnter(t)
      PROVE  Good
  <2>1. Enters(t)
    BY <1>7, Entering
  <2>2. \A u \in Thread : u # t => stack'[u] = stack[u] /\ passthrough'[u] = passthrough[u]
    BY <1>7, <2>1 DEF InvokeEnter, Enters, TypeOK
  <2>3. CASE Top(t).original = None
    BY <1>1, <1>7, <2>1, <2>2, <2>3, SameCalls DEF InvokeEnter
  <2>4. CASE Top(t).original # None
    <3>1. Top(t).original \in Function
      BY <2>1, <2>4 DEF Enters, InvokeFrame
    <3>2. passthrough'[t] = Append(passthrough[t], Top(t).original)
      BY <1>7, <2>4 DEF InvokeEnter, TypeOK
    <3>3. /\ Len(stack[t]) > 0 /\ Len(stack'[t]) = Len(stack[t]) + 1
          /\ \A i \in 1 .. Len(stack[t]) - 1 : stack[t][i] = stack'[t][i]
          /\ ~ Passing(stack[t][Len(stack[t])])
          /\ Passing(stack'[t][Len(stack[t])])
          /\ ~ Passing(stack'[t][Len(stack[t]) + 1])
          /\ stack'[t][Len(stack[t])].original = Top(t).original
      BY <1>0, <2>1, <2>4 DEF Enters, Kept, Top, Passing, Entered
    <3>4. Matches(stack'[t], passthrough'[t])
      BY <1>0, <3>1, <3>2, <3>3, MatchesPush
    <3> QED
      BY <2>2, <3>4
  <2> QED
    BY <2>3, <2>4
<1>8. ASSUME NEW t \in Thread, InvokeReturn(t)
      PROVE  Good
  <2>1. Pops(t) /\ Top(t) \in InvokeFrame /\ Top(t).at = "call"
    BY <1>8, Shapes
  <2>2. \A u \in Thread : u # t => stack'[u] = stack[u] /\ passthrough'[u] = passthrough[u]
    BY <1>8, <2>1 DEF InvokeReturn, Pops, TypeOK
  <2>3. CASE Top(t).original = None
    BY <1>1, <1>8, <2>1, <2>2, <2>3, SameCalls DEF InvokeReturn, Passing
  <2>4. CASE Top(t).original # None
    <3>1. passthrough'[t] = SubSeq(passthrough[t], 1, Len(passthrough[t]) - 1)
      BY <1>8, <2>4 DEF InvokeReturn, TypeOK
    <3>2. /\ Len(stack[t]) > 0 /\ Len(stack'[t]) = Len(stack[t]) - 1
          /\ \A i \in 1 .. Len(stack[t]) - 1 : stack[t][i] = stack'[t][i]
          /\ Passing(stack[t][Len(stack[t])])
      BY <1>0, <2>1, <2>4 DEF Pops, Kept, Top, Passing
    <3>3. Matches(stack'[t], passthrough'[t])
      BY <1>0, <3>1, <3>2, MatchesPop
    <3> QED
      BY <2>2, <3>3
  <2> QED
    BY <2>3, <2>4
<1>9. (\E f \in Function : Unregister(f) \/ \E c \in Callback : Register(f, c)) => Good
  BY DEF Unregister, Register
<1> HIDE DEF Good
<1>10. Good
  BY <1>3, <1>4, <1>5, <1>6, <1>7, <1>8, <1>9, ThreadSteps
<1> QED
  BY <1>10 DEF Good
-----------------------------------------------------------------------------
(* The return value.                                                       *)

(* Below a frame of HL, something other than a conversion is above a value. *)
LEMMA Blocked ==
  ASSUME NEW F \in Seq(Frame), NEW r, Keeps(F, r), NEW n \in 1 .. Len(F),
         F[n].at \notin {"convert", "call"},
         NEW i \in 1 .. n - 1, Storing(F[i])
  PROVE  \E k \in i + 1 .. n - 1 : F[k].at # "convert"
<1>1. Len(F) \in Nat
  BY LenProperties
<1>2. i \in 1 .. Len(F) /\ n \in i + 1 .. Len(F)
  BY <1>1
<1>3. ~ AllConvert(F, i, n - 1)
  BY <1>2 DEF Keeps
<1> QED
  BY <1>3 DEF AllConvert

(* What is stored below the n-th frame, of HL, stays covered. *)
Covers(F, G, q, n) ==
  /\ n \in 1 .. Len(F) /\ n <= Len(G) + 1
  /\ F[n].at \notin {"convert", "call"}
  /\ \A i \in 1 .. n - 1 : G[i] = F[i]
  /\ \A i \in n .. Len(G) : Storing(G[i]) => i = Len(G) /\ q = i

LEMMA KeepsCovered ==
  ASSUME NEW F \in Seq(Frame), NEW G \in Seq(Frame), NEW r, Keeps(F, r),
         NEW q, NEW n, Covers(F, G, q, n)
  PROVE  Keeps(G, q)
<1>1. Len(F) \in Nat /\ Len(G) \in Nat
  BY LenProperties
<1> USE DEF Covers
<1> SUFFICES ASSUME NEW i \in 1 .. Len(G), Storing(G[i])
             PROVE  /\ \A j \in i + 1 .. Len(G) :
                         AllConvert(G, i, j - 1) =>
                           G[j].at = "convert" \/ (G[j].at = "call" /\ G[j].saved = i)
                    /\ AllConvert(G, i, Len(G)) => q = i
  BY DEF Keeps
<1>2. CASE i >= n
  BY <1>1, <1>2
<1>3. CASE i < n
  <2>1. i \in 1 .. n - 1 /\ Storing(F[i]) /\ i \in 1 .. Len(F)
    BY <1>1, <1>3
  <2>2. PICK k \in i + 1 .. n - 1 : F[k].at # "convert"
    BY <2>1, Blocked
  <2>3. G[k].at # "convert" /\ k <= Len(G)
    BY <1>1, <2>1, <2>2
  <2>4. ~ AllConvert(G, i, Len(G))
    BY <1>1, <2>2, <2>3 DEF AllConvert
  <2>5. ASSUME NEW j \in i + 1 .. Len(G), AllConvert(G, i, j - 1)
        PROVE  G[j].at = "convert" \/ (G[j].at = "call" /\ G[j].saved = i)
    <3>1. j <= k
      BY <1>1, <2>2, <2>3, <2>5 DEF AllConvert
    <3>2. j \in 1 .. n - 1 /\ j \in i + 1 .. Len(F) /\ G[j] = F[j]
      BY <1>1, <2>1, <2>2, <3>1
    <3>3. AllConvert(F, i, j - 1)
      BY <1>1, <2>1, <2>5, <3>2 DEF AllConvert
    <3> QED
      BY <2>1, <3>2, <3>3 DEF Keeps
  <2> QED
    BY <2>4, <2>5
<1> QED
  BY <1>1, <1>2, <1>3

(* A call from Python begins to convert its arguments. *)
LEMMA KeepsConvert ==
  ASSUME NEW F \in Seq(Frame), NEW G \in Seq(Frame), NEW r, Keeps(F, r),
         Len(G) = Len(F) + 1,
         \A i \in 1 .. Len(F) : G[i] = F[i],
         G[Len(F) + 1].at = "convert"
  PROVE  Keeps(G, r)
<1>1. Len(F) \in Nat
  BY LenProperties
<1> SUFFICES ASSUME NEW i \in 1 .. Len(F) + 1, Storing(G[i])
             PROVE  /\ \A j \in i + 1 .. Len(F) + 1 :
                         AllConvert(G, i, j - 1) =>
                           G[j].at = "convert" \/ (G[j].at = "call" /\ G[j].saved = i)
                    /\ AllConvert(G, i, Len(F) + 1) => r = i
  BY DEF Keeps
<1>2. i \in 1 .. Len(F) /\ Storing(F[i])
  BY <1>1 DEF Storing
<1>3. ASSUME NEW m \in i .. Len(F), AllConvert(G, i, m)
      PROVE  AllConvert(F, i, m)
  BY <1>1, <1>2, <1>3 DEF AllConvert
<1>4. ASSUME NEW j \in i + 1 .. Len(F) + 1, AllConvert(G, i, j - 1)
      PROVE  G[j].at = "convert" \/ (G[j].at = "call" /\ G[j].saved = i)
  <2>1. CASE j = Len(F) + 1
    <3>1. G[j] = G[Len(F) + 1]
      BY <2>1
    <3> QED
      BY <3>1
  <2>2. CASE j # Len(F) + 1
    <3>1. j \in i + 1 .. Len(F) /\ j - 1 \in i .. Len(F) /\ G[j] = F[j]
      BY <1>1, <1>2, <2>2
    <3> QED
      BY <1>2, <1>3, <1>4, <3>1 DEF Keeps
  <2> QED
    BY <2>1, <2>2
<1>5. AllConvert(G, i, Len(F) + 1) => AllConvert(G, i, Len(F))
  BY <1>1 DEF AllConvert
<1>6. Len(F) \in i .. Len(F)
  BY <1>1, <1>2
<1> QED
  BY <1>2, <1>3, <1>4, <1>5, <1>6 DEF Keeps

(* A conversion is refused, or a call from Python is left. *)
LEMMA KeepsPop ==
  ASSUME NEW F \in Seq(Frame), NEW G \in Seq(Frame), NEW r, NEW q, Keeps(F, r),
         Len(F) > 0, Len(G) = Len(F) - 1,
         \A i \in 1 .. Len(F) - 1 : G[i] = F[i],
         \/ F[Len(F)].at = "convert" /\ q = r
         \/ F[Len(F)].at = "call" /\ q = F[Len(F)].saved
  PROVE  Keeps(G, q)
<1> DEFINE n == Len(F)
<1>1. n \in Nat \ {0}
  BY LenProperties
<1> SUFFICES ASSUME NEW i \in 1 .. n - 1, Storing(G[i])
             PROVE  /\ \A j \in i + 1 .. n - 1 :
                         AllConvert(G, i, j - 1) =>
                           G[j].at = "convert" \/ (G[j].at = "call" /\ G[j].saved = i)
                    /\ AllConvert(G, i, n - 1) => q = i
  BY DEF Keeps
<1>2. i \in 1 .. n /\ Storing(F[i])
  BY <1>1
<1>3. ASSUME NEW m \in i .. n - 1, AllConvert(G, i, m)
      PROVE  AllConvert(F, i, m)
  BY <1>1, <1>3 DEF AllConvert
<1>4. ASSUME NEW j \in i + 1 .. n - 1, AllConvert(G, i, j - 1)
      PROVE  G[j].at = "convert" \/ (G[j].at = "call" /\ G[j].saved = i)
  <2>1. j \in i + 1 .. n /\ j - 1 \in i .. n - 1 /\ j \in 1 .. Len(F) - 1
    BY <1>1, <1>2
  <2>2. G[j] = F[j]
    BY <2>1
  <2> QED
    BY <1>2, <1>3, <1>4, <2>1, <2>2 DEF Keeps
<1>5. ASSUME AllConvert(G, i, n - 1)
      PROVE  q = i
  <2>1. AllConvert(F, i, n - 1) /\ n \in i + 1 .. n
    BY <1>1, <1>3, <1>5
  <2>2. CASE F[n].at = "call" /\ q = F[n].saved
    BY <1>2, <2>1, <2>2 DEF Keeps
  <2>3. CASE F[n].at = "convert" /\ q = r
    <3>1. AllConvert(F, i, n)
      BY <1>1, <2>1, <2>3 DEF AllConvert
    <3> QED
      BY <1>2, <2>3, <3>1 DEF Keeps
  <2> QED
    BY <2>2, <2>3
<1> QED
  BY <1>4, <1>5

(* A call from Python goes on, and saves the value; or an exception is in it. *)
Saves(F, G, r, n) ==
  /\ n \in 1 .. Len(F) /\ n <= Len(G)
  /\ \A i \in 1 .. n - 1 : G[i] = F[i]
  /\ G[n].at = "call"
  /\ \/ F[n].at = "convert" /\ n = Len(F) /\ G[n].saved = r
     \/ F[n].at = "call" /\ G[n].saved = F[n].saved
  /\ \A i \in n + 1 .. Len(G) : ~ Storing(G[i])

LEMMA KeepsCall ==
  ASSUME NEW F \in Seq(Frame), NEW G \in Seq(Frame), NEW r, Keeps(F, r),
         NEW n, Saves(F, G, r, n), NEW q
  PROVE  Keeps(G, q)
<1>1. Len(F) \in Nat /\ Len(G) \in Nat
  BY LenProperties
<1> USE DEF Saves
<1> SUFFICES ASSUME NEW i \in 1 .. Len(G), Storing(G[i])
             PROVE  /\ \A j \in i + 1 .. Len(G) :
                         AllConvert(G, i, j - 1) =>
                           G[j].at = "convert" \/ (G[j].at = "call" /\ G[j].saved = i)
                    /\ AllConvert(G, i, Len(G)) => q = i
  BY DEF Keeps
<1>2. i \in 1 .. n - 1
  BY <1>1 DEF Storing
<1>3. Storing(F[i]) /\ i \in 1 .. Len(F) /\ i < n
  BY <1>1, <1>2
<1>4. ~ AllConvert(G, i, Len(G))
  BY <1>1, <1>3 DEF AllConvert
<1>5. ASSUME NEW j \in i + 1 .. Len(G), AllConvert(G, i, j - 1)
      PROVE  G[j].at = "convert" \/ (G[j].at = "call" /\ G[j].saved = i)
  <2>1. j <= n
    BY <1>1, <1>3, <1>5, SMTT(30) DEF AllConvert
  <2>2. AllConvert(F, i, j - 1) /\ j \in i + 1 .. Len(F)
    BY <1>1, <1>3, <1>5, <2>1 DEF AllConvert
  <2>3. CASE j < n
    BY <1>1, <1>3, <2>2, <2>3 DEF Keeps
  <2>4. CASE j = n /\ F[n].at = "call" /\ G[n].saved = F[n].saved
    BY <1>3, <2>2, <2>4 DEF Keeps
  <2>5. CASE j = n /\ F[n].at = "convert" /\ n = Len(F) /\ G[n].saved = r
    <3>1. AllConvert(F, i, n)
      BY <1>1, <1>3, <2>2, <2>5 DEF AllConvert
    <3> QED
      BY <1>3, <2>5, <3>1 DEF Keeps
  <2> QED
    BY <2>1, <2>3, <2>4, <2>5
<1> QED
  BY <1>4, <1>5

LEMMA KeepsStep ==
  ASSUME TypeOK, TypeOK', Next, \A t \in Thread : Keeps(stack[t], return[t])
  PROVE  \A t \in Thread : Keeps(stack'[t], return'[t])
<1> DEFINE Good == \A t \in Thread : Keeps(stack'[t], return'[t])
           Rest(t) == \A u \in Thread :
                        u # t => stack'[u] = stack[u] /\ return'[u] = return[u]
<1>1. \A t \in Thread : /\ stack[t] \in Seq(Frame) /\ stack'[t] \in Seq(Frame)
                        /\ Depth(t) = Len(stack[t]) /\ Depth(t) \in Nat
                        /\ Len(stack'[t]) \in Nat
  BY LenProperties DEF TypeOK, Depth
<1>2. ASSUME NEW t \in Thread, Rest(t), Keeps(stack'[t], return'[t])
      PROVE  Good
  BY <1>2
<1>3. ASSUME NEW t \in Thread, NEW from, NEW to, Goes(t, from, to), Rest(t),
             to \in {"release", "return"} => return'[t] = Depth(t)
      PROVE  Good
  <2> DEFINE n == Depth(t)
  <2>1. /\ n \in 1 .. Len(stack[t]) /\ Len(stack'[t]) = n
        /\ n <= Len(stack'[t]) + 1
    BY <1>1, <1>3 DEF Goes
  <2>2. stack[t][n].at \notin {"convert", "call"} /\ stack'[t][n].at = to
    BY <1>3 DEF Goes, Top, HLFrame, Stage
  <2>3. \A i \in 1 .. n - 1 : stack'[t][i] = stack[t][i]
    BY <1>3 DEF Goes, Kept
  <2>4. \A i \in n .. Len(stack'[t]) : Storing(stack'[t][i]) => i = Len(stack'[t]) /\ return'[t] = i
    BY <1>3, <2>1, <2>2 DEF Storing
  <2> HIDE DEF n
  <2>5. Covers(stack[t], stack'[t], return'[t], n)
    BY <2>1, <2>2, <2>3, <2>4 DEF Covers
  <2>6. Keeps(stack'[t], return'[t])
    BY <1>1, <2>5, KeepsCovered
  <2> QED
    BY <1>2, <1>3, <2>6
<1>4. ASSUME NEW t \in Thread,
             \/ DispatchBody(t) \/ DispatchOverride(t) \/ DispatchHook(t)
             \/ Fetch(t) \/ HookReturn(t) \/ HookRaise(t) \/ OverrideReturn(t)
      PROVE  Good
  <2>1. Rest(t)
    BY <1>4, Shapes DEF Goes, DispatchBody, DispatchOverride, DispatchHook, Fetch,
                        HookReturn, HookRaise, OverrideReturn, TypeOK
  <2>2. HookReturn(t) \/ OverrideReturn(t) => return'[t] = Depth(t)
    BY DEF HookReturn, OverrideReturn, TypeOK
  <2>3. PICK from, to : /\ Goes(t, from, to)
                        /\ to \in {"release", "return"} => return'[t] = Depth(t)
    BY <1>4, <2>2, Shapes
  <2> QED
    BY <1>3, <2>1, <2>3, SMTT(30)
<1>5. ASSUME NEW t \in Thread, Released(t)
      PROVE  Good
  <2>1. Goes(t, "release", "return") /\ UNCHANGED return
    BY <1>5, Shapes DEF Released
  <2>2. Depth(t) \in 1 .. Len(stack[t]) /\ Storing(stack[t][Depth(t)])
    BY <1>1, <2>1 DEF Goes, Top, Storing
  <2>3. AllConvert(stack[t], Depth(t), Len(stack[t]))
    BY <1>1 DEF AllConvert
  <2>4. return[t] = Depth(t)
    BY <2>2, <2>3 DEF Keeps
  <2> QED
    BY <1>3, <2>1, <2>4 DEF Goes
<1>6. ASSUME NEW t \in Thread, Return(t)
      PROVE  Good
  <2> DEFINE n == Depth(t)
  <2>1. Pops(t) /\ Top(t).at \in {"return", "body"}
    BY <1>6, Shapes
  <2>2. Rest(t)
    BY <1>6, <2>1 DEF Pops, Return, TypeOK
  <2>3. /\ n \in 1 .. Len(stack[t]) /\ Len(stack'[t]) = n - 1
        /\ n <= Len(stack'[t]) + 1
        /\ stack[t][n].at \notin {"convert", "call"}
        /\ \A i \in 1 .. n - 1 : stack'[t][i] = stack[t][i]
    BY <1>1, <2>1 DEF Pops, Kept, Top
  <2>4. \A i \in n .. Len(stack'[t]) : Storing(stack'[t][i]) => i = Len(stack'[t]) /\ return'[t] = i
    BY <1>1, <2>3
  <2> HIDE DEF n
  <2>5. Covers(stack[t], stack'[t], return'[t], n)
    BY <2>3, <2>4 DEF Covers
  <2>6. Keeps(stack'[t], return'[t])
    BY <1>1, <2>5, KeepsCovered
  <2> QED
    BY <1>2, <2>2, <2>6
<1>7. ASSUME NEW t \in Thread, InvokeRefused(t) \/ InvokeReturn(t)
      PROVE  Good
  <2>1. Pops(t)
    BY <1>7, Shapes
  <2>2. Rest(t)
    BY <1>7, <2>1 DEF Pops, InvokeRefused, InvokeReturn, TypeOK
  <2>3. \/ Top(t).at = "convert" /\ return'[t] = return[t]
        \/ Top(t).at = "call" /\ return'[t] = Top(t).saved
    BY <1>7, Shapes DEF InvokeRefused, InvokeReturn, TypeOK
  <2>4. /\ Len(stack[t]) > 0 /\ Len(stack'[t]) = Len(stack[t]) - 1
        /\ \A i \in 1 .. Len(stack[t]) - 1 : stack'[t][i] = stack[t][i]
    BY <1>1, <2>1 DEF Pops, Kept
  <2>5. Top(t) = stack[t][Len(stack[t])]
    BY <1>1 DEF Top
  <2>6. Keeps(stack'[t], return'[t])
    BY <1>1, <2>3, <2>4, <2>5, KeepsPop
  <2> QED
    BY <1>2, <2>2, <2>6
<1>8. ASSUME NEW t \in Thread, Throw(t)
      PROVE  Good
  <2>1. PICK d \in 0 .. Depth(t) - 1 : Cuts(t, d)
    BY <1>8, Cutting
  <2>2. Rest(t) /\ Len(stack'[t]) = d /\ \A i \in 1 .. d - 1 : stack'[t][i] = stack[t][i]
    BY <1>8, <2>1 DEF Cuts, Kept, Throw
  <2>3. CASE d = 0
    <3>1. Keeps(stack'[t], return'[t])
      BY <2>2, <2>3 DEF Keeps
    <3> QED
      BY <1>2, <2>2, <3>1
  <2>4. CASE d > 0 /\ stack[t][d].at = "body" /\ stack'[t][d] = stack[t][d]
    <3>1. d \in 1 .. Len(stack[t]) /\ d <= Len(stack'[t]) + 1
      BY <1>1, <2>2, <2>4
    <3>2. \A i \in d .. Len(stack'[t]) : ~ Storing(stack'[t][i])
      BY <2>2, <2>4 DEF Storing
    <3>3. Covers(stack[t], stack'[t], return'[t], d)
      BY <1>1, <2>2, <2>4, <3>1, <3>2 DEF Covers
    <3>4. Keeps(stack'[t], return'[t])
      BY <1>1, <3>3, KeepsCovered
    <3> QED
      BY <1>2, <2>2, <3>4
  <2>5. CASE d > 0 /\ SameCall(stack[t][d], stack'[t][d])
    <3>1. d \in 1 .. Len(stack[t]) /\ d <= Len(stack'[t])
      BY <1>1, <2>2, <2>5
    <3>2. \A i \in d + 1 .. Len(stack'[t]) : ~ Storing(stack'[t][i])
      BY <2>2
    <3>3. /\ stack[t][d].at = "call" /\ stack'[t][d].at = "call"
          /\ stack'[t][d].saved = stack[t][d].saved
      BY <2>5 DEF SameCall
    <3>4. Saves(stack[t], stack'[t], return[t], d)
      BY <1>1, <2>2, <3>1, <3>2, <3>3 DEF Saves
    <3>5. Keeps(stack'[t], return'[t])
      BY <1>1, <3>4, KeepsCall
    <3> QED
      BY <1>2, <2>2, <3>5
  <2> QED
    BY <2>1, <2>3, <2>4, <2>5 DEF Cuts
<1>9. ASSUME NEW t \in Thread, NEW f \in Function, Call(t, f)
      PROVE  Good
  <2> DEFINE n == Depth(t)
  <2>1. Pushes(t, Entered(f)) /\ (Depth(t) = 0 \/ Top(t).at = "body")
    BY <1>9, Calls
  <2>2. Rest(t)
    BY <1>9, <2>1 DEF Pushes, Call
  <2>3. /\ Len(stack'[t]) = n + 1
        /\ \A i \in 1 .. n : stack'[t][i] = stack[t][i]
        /\ ~ Storing(stack'[t][n + 1])
    BY <2>1 DEF Pushes, Kept, Entered, Storing
  <2>4. CASE n = 0
    <3>1. Keeps(stack'[t], return'[t])
      BY <2>3, <2>4 DEF Keeps
    <3> QED
      BY <1>2, <2>2, <3>1
  <2>5. CASE n # 0
    <3>1. stack[t][n].at = "body"
      BY <2>1, <2>5 DEF Top
    <3>2. n \in 1 .. Len(stack[t]) /\ n <= Len(stack'[t]) + 1 /\ n \in 1 .. n
      BY <1>1, <2>3, <2>5
    <3>3. ~ Storing(stack'[t][n])
      BY <2>3, <3>1, <3>2 DEF Storing
    <3>4. \A i \in n .. Len(stack'[t]) : ~ Storing(stack'[t][i])
      BY <1>1, <2>3, <3>3
    <3>5. \A i \in 1 .. n - 1 : stack'[t][i] = stack[t][i]
      BY <1>1, <2>3
    <3> HIDE DEF n
    <3>6. Covers(stack[t], stack'[t], return'[t], n)
      BY <1>1, <3>1, <3>2, <3>4, <3>5 DEF Covers
    <3>7. Keeps(stack'[t], return'[t])
      BY <1>1, <3>6, KeepsCovered
    <3> QED
      BY <1>2, <2>2, <3>7
  <2> QED
    BY <2>4, <2>5
<1>10. ASSUME NEW t \in Thread, NEW f \in Function,
              NEW original \in {f, None}, NEW direct \in {f, None},
              Invoke(t, f, original, direct)
       PROVE  Good
  <2>1. Pushes(t, Calling(f, original, direct))
    BY <1>10, Invokes
  <2>2. Rest(t) /\ return'[t] = return[t]
    BY <1>10, <2>1 DEF Pushes, Invoke
  <2>3. /\ Len(stack'[t]) = Len(stack[t]) + 1
        /\ \A i \in 1 .. Len(stack[t]) : stack'[t][i] = stack[t][i]
        /\ stack'[t][Len(stack[t]) + 1].at = "convert"
    <3>1. Calling(f, original, direct).at = "convert"
      BY DEF Calling
    <3> QED
      BY <1>1, <2>1, <3>1 DEF Pushes, Kept
  <2>4. Keeps(stack'[t], return'[t])
    BY <1>1, <2>2, <2>3, KeepsConvert
  <2> QED
    BY <1>2, <2>2, <2>4
<1>11. ASSUME NEW t \in Thread, InvokeEnter(t)
       PROVE  Good
  <2> DEFINE n == Depth(t)
  <2>1. Enters(t)
    BY <1>11, Entering
  <2>2. Rest(t)
    BY <1>11, <2>1 DEF Enters, InvokeEnter
  <2>3. /\ n \in 1 .. Len(stack[t]) /\ n = Len(stack[t]) /\ n <= Len(stack'[t])
        /\ Len(stack'[t]) = n + 1
    BY <1>1, <2>1 DEF Enters
  <2>4. /\ \A i \in 1 .. n - 1 : stack'[t][i] = stack[t][i]
        /\ stack[t][n].at = "convert" /\ stack'[t][n].at = "call"
        /\ stack'[t][n].saved = return[t]
        /\ ~ Storing(stack'[t][n + 1])
    BY <2>1 DEF Enters, Kept, Top, Entered, Storing
  <2>5. \A i \in n + 1 .. Len(stack'[t]) : ~ Storing(stack'[t][i])
    BY <2>3, <2>4
  <2> HIDE DEF n
  <2>6. Saves(stack[t], stack'[t], return[t], n)
    BY <1>1, <2>3, <2>4, <2>5 DEF Saves
  <2>7. Keeps(stack'[t], return'[t])
    BY <1>1, <2>6, KeepsCall
  <2> QED
    BY <1>2, <2>2, <2>7
<1>12. (\E f \in Function : Unregister(f) \/ \E c \in Callback : Register(f, c)) => Good
  BY DEF Unregister, Register
<1> HIDE DEF Good
<1>13. Good
  BY <1>4, <1>5, <1>6, <1>7, <1>8, <1>9, <1>10, <1>11, <1>12, ThreadSteps
<1> QED
  BY <1>13 DEF Good
-----------------------------------------------------------------------------
(* The frames of a stack, together.                                        *)

(* What a step does to the stacks, whatever it does to the rest. *)
LEMMA StackShapes ==
  ASSUME TypeOK, Next
  PROVE  \/ UNCHANGED stack
         \/ \E t \in Thread :
              \/ \E from, to :
                   /\ Goes(t, from, to)
                   /\ to \in {"wait", "hook", "override"} =>
                        from = "wait" \/ ~ Passes(t, Top(t).fun)
              \/ \E f \in Function : Pushes(t, Entered(f))
              \/ \E f \in Function : \E original, direct \in {f, None} :
                   Pushes(t, Calling(f, original, direct))
              \/ Pops(t)
              \/ \E d \in 0 .. Depth(t) - 1 : Cuts(t, d)
              \/ Enters(t)
<1> DEFINE Turn(t) == \E from, to :
                        /\ Goes(t, from, to)
                        /\ to \in {"wait", "hook", "override"} =>
                             from = "wait" \/ ~ Passes(t, Top(t).fun)
<1>1. ASSUME NEW t \in Thread,
             \/ DispatchBody(t) \/ DispatchOverride(t) \/ DispatchHook(t)
             \/ Fetch(t) \/ HookReturn(t) \/ HookRaise(t) \/ Released(t)
             \/ OverrideReturn(t)
      PROVE  Turn(t)
  <2>1. DispatchOverride(t) \/ DispatchHook(t) => ~ Passes(t, Top(t).fun)
    BY DEF DispatchOverride, DispatchHook
  <2> QED
    BY <1>1, <2>1, Shapes
<1>2. ASSUME NEW t \in Thread, Return(t) \/ InvokeRefused(t) \/ InvokeReturn(t)
      PROVE  Pops(t)
  BY <1>2, Shapes
<1>3. (\E f \in Function : Unregister(f) \/ \E c \in Callback : Register(f, c)) => UNCHANGED stack
  BY DEF Unregister, Register
<1> HIDE DEF Turn
<1>4. \/ UNCHANGED stack
      \/ \E t \in Thread :
           \/ Turn(t)
           \/ \E f \in Function : Pushes(t, Entered(f))
           \/ \E f \in Function : \E original, direct \in {f, None} :
                Pushes(t, Calling(f, original, direct))
           \/ Pops(t)
           \/ \E d \in 0 .. Depth(t) - 1 : Cuts(t, d)
           \/ Enters(t)
  BY <1>1, <1>2, <1>3, ThreadSteps, Calls, Invokes, Cutting, Entering
<1> QED
  BY <1>4 DEF Turn

\* Directed, of a frame.
DirectedFrame(frame) ==
  frame.at \in {"convert", "call"} => frame.direct \in {frame.fun, None}

LEMMA DirectedStep ==
  ASSUME TypeOK, TypeOK', Next, Directed
  PROVE  Directed'
<1>1. \A t \in Thread : /\ DOMAIN stack[t] = 1 .. Depth(t) /\ Depth(t) \in Nat
                        /\ DOMAIN stack'[t] = 1 .. Len(stack'[t])
                        /\ Len(stack'[t]) \in Nat
  BY LenProperties DEF TypeOK, Depth
<1>2. \A t \in Thread : \A i \in 1 .. Depth(t) : DirectedFrame(stack[t][i])
  BY <1>1 DEF Directed, DirectedFrame
<1> DEFINE Good(t) == \A i \in 1 .. Len(stack'[t]) : DirectedFrame(stack'[t][i])
           Rest(t) == \A u \in Thread : u # t => stack'[u] = stack[u]
<1>3. ASSUME NEW t \in Thread, NEW from, NEW to, Goes(t, from, to)
      PROVE  Good(t) /\ Rest(t)
  <2>1. DirectedFrame(stack'[t][Depth(t)])
    BY <1>3 DEF Goes, DirectedFrame, HLFrame, Stage
  <2> QED
    BY <1>1, <1>2, <1>3, <2>1 DEF Goes, Kept
<1>4. ASSUME NEW t \in Thread, NEW frame, Pushes(t, frame), DirectedFrame(frame)
      PROVE  Good(t) /\ Rest(t)
  BY <1>1, <1>2, <1>4 DEF Pushes, Kept
<1>5. ASSUME NEW t \in Thread, Pops(t)
      PROVE  Good(t) /\ Rest(t)
  BY <1>1, <1>2, <1>5 DEF Pops, Kept
<1>6. ASSUME NEW t \in Thread, NEW d \in 0 .. Depth(t) - 1, Cuts(t, d)
      PROVE  Good(t) /\ Rest(t)
  <2>1. d > 0 => DirectedFrame(stack'[t][d])
    <3>1. d > 0 => DirectedFrame(stack[t][d])
      BY <1>1, <1>2
    <3> QED
      BY <1>6, <3>1 DEF Cuts, SameCall, DirectedFrame
  <2> QED
    BY <1>1, <1>2, <1>6, <2>1 DEF Cuts, Kept
<1>7. ASSUME NEW t \in Thread, Enters(t)
      PROVE  Good(t) /\ Rest(t)
  <2>1. DirectedFrame(Top(t)) /\ Top(t).at = "convert"
    BY <1>1, <1>2, <1>7 DEF Enters, Top
  <2>2. DirectedFrame(stack'[t][Depth(t)])
    BY <1>7, <2>1 DEF Enters, DirectedFrame
  <2>3. DirectedFrame(stack'[t][Depth(t) + 1])
    BY <1>7 DEF Enters, DirectedFrame, Entered
  <2> QED
    BY <1>1, <1>2, <1>7, <2>2, <2>3, SMTT(30) DEF Enters, Kept
<1>8. /\ \A f : DirectedFrame(Entered(f))
      /\ \A f : \A original, direct \in {f, None} :
           DirectedFrame(Calling(f, original, direct))
  BY DEF DirectedFrame, Entered, Calling
<1>9. UNCHANGED stack \/ \E t \in Thread : Good(t) /\ Rest(t)
  BY <1>3, <1>4, <1>5, <1>6, <1>7, <1>8, StackShapes
<1>10. \A u \in Thread : \A i \in 1 .. Len(stack'[u]) : DirectedFrame(stack'[u][i])
  BY <1>1, <1>2, <1>9 DEF Depth
<1> QED
  BY <1>1, <1>10 DEF Directed, DirectedFrame
(* What is passed through on a thread. *)
LEMMA PassesOn ==
  ASSUME TypeOK, NEW t \in Thread, Matches(stack[t], passthrough[t]), NEW f
  PROVE  Passes(t, f)
           <=> \E i \in 1 .. Depth(t) : Passing(stack[t][i]) /\ stack[t][i].original = f
<1>1. stack[t] \in Seq(Frame) /\ passthrough[t] \in Seq(Function)
  BY DEF TypeOK
<1> DEFINE some == \E k \in DOMAIN passthrough[t] : passthrough[t][k] = f
<1>2. some <=> \E i \in 1 .. Len(stack[t]) :
                 Passing(stack[t][i]) /\ stack[t][i].original = f
  BY <1>1, PassesWhat, ZenonT(30)
<1> QED
  BY <1>2 DEF Passes, Depth

-----------------------------------------------------------------------------
(* Hooks are not triggered again.                                          *)

\* NoRetrigger, of the frames of a thread.
Once(F) ==
  \A i, j \in 1 .. Len(F) :
    i < j /\ F[i].at = "call" /\ F[j].at \in {"wait", "hook", "override"} =>
      F[i].original # F[j].fun

LEMMA OnceStep ==
  ASSUME TypeOK, TypeOK', Next, NoRetrigger,
         \A t \in Thread : Matches(stack[t], passthrough[t])
  PROVE  NoRetrigger'
<1>1. \A t \in Thread : /\ DOMAIN stack[t] = 1 .. Depth(t) /\ Depth(t) \in Nat
                        /\ Len(stack[t]) = Depth(t)
                        /\ stack[t] \in Seq(Frame) /\ passthrough[t] \in Seq(Function)
                        /\ DOMAIN stack'[t] = 1 .. Len(stack'[t])
                        /\ Len(stack'[t]) \in Nat
  BY LenProperties DEF TypeOK, Depth
<1>2. \A t \in Thread : Once(stack[t])
  BY <1>1 DEF NoRetrigger, Once
<1> DEFINE Good(t) == Once(stack'[t])
           Rest(t) == \A u \in Thread : u # t => stack'[u] = stack[u]
<1>3. ASSUME NEW t \in Thread, NEW from, NEW to, Goes(t, from, to),
             to \in {"wait", "hook", "override"} =>
               from = "wait" \/ ~ Passes(t, Top(t).fun)
      PROVE  Good(t) /\ Rest(t)
  <2> DEFINE n == Depth(t)
  <2>1. /\ stack'[t][n].at \notin {"convert", "call"} /\ stack'[t][n].at = to
        /\ stack[t][n].at = from /\ stack'[t][n].fun = stack[t][n].fun
        /\ stack[t][n].fun \in Function
    BY <1>3 DEF Goes, HLFrame, Stage, Top
  <2>2. ASSUME to \in {"wait", "hook", "override"},
               NEW i \in 1 .. n - 1, stack[t][i].at = "call"
        PROVE  stack[t][i].original # stack[t][n].fun
    <3>1. CASE from = "wait"
      <4>1. i \in 1 .. Len(stack[t]) /\ n \in 1 .. Len(stack[t]) /\ i < n
        BY <1>1
      <4>2. stack[t][n].at = "wait"
        BY <2>1, <3>1
      <4> HIDE DEF n
      <4> QED
        BY <1>2, <2>2, <4>1, <4>2 DEF Once
    <3>2. CASE ~ Passes(t, Top(t).fun)
      <4>1. i \in 1 .. Len(stack[t])
        BY <1>1
      <4>2. ~ (Passing(stack[t][i]) /\ stack[t][i].original = stack[t][n].fun)
        BY <1>1, <3>2, <4>1, PassesOn DEF Top
      <4> QED
        BY <2>1, <2>2, <4>2, NoneAssumption DEF Passing
    <3> QED
      BY <1>3, <2>2, <3>1, <3>2
  <2>3. Len(stack'[t]) = n /\ \A i \in 1 .. n - 1 : stack'[t][i] = stack[t][i]
    BY <1>3 DEF Goes, Kept
  <2> HIDE DEF n
  <2>4. ASSUME NEW i \in 1 .. n, NEW j \in 1 .. n, i < j,
               stack'[t][i].at = "call", stack'[t][j].at \in {"wait", "hook", "override"}
        PROVE  stack'[t][i].original # stack'[t][j].fun
    <3>1. n \in Nat /\ n = Len(stack[t])
      BY <1>1 DEF n
    <3>2. i \in 1 .. n - 1 /\ stack'[t][i] = stack[t][i]
      BY <2>3, <2>4, <3>1
    <3>3. CASE j = n
      BY <2>1, <2>2, <2>4, <3>2, <3>3
    <3>4. CASE j # n
      <4>1. j \in 1 .. n - 1 /\ stack'[t][j] = stack[t][j]
        BY <2>3, <3>1, <3>4
      <4> QED
        BY <1>2, <2>4, <3>1, <3>2, <4>1 DEF Once
    <3> QED
      BY <3>3, <3>4
  <2> QED
    BY <1>3, <2>3, <2>4 DEF Once, Goes
<1>4. ASSUME NEW t \in Thread, NEW frame, Pushes(t, frame),
             frame.at \notin {"wait", "hook", "override"}
      PROVE  Good(t) /\ Rest(t)
  <2>1. \A j \in 1 .. Depth(t) + 1 :
          stack'[t][j].at \in {"wait", "hook", "override"} => j \in 1 .. Depth(t)
    BY <1>1, <1>4 DEF Pushes
  <2>2. \A i, j \in 1 .. Depth(t) + 1 : i < j /\ j \in 1 .. Depth(t) => i \in 1 .. Depth(t)
    BY <1>1
  <2> QED
    BY <1>1, <1>2, <1>4, <2>1, <2>2 DEF Pushes, Kept, Once
<1>5. ASSUME NEW t \in Thread, Pops(t)
      PROVE  Good(t) /\ Rest(t)
  BY <1>1, <1>2, <1>5, SMTT(30) DEF Pops, Kept, Once
<1>6. ASSUME NEW t \in Thread, NEW d \in 0 .. Depth(t) - 1, Cuts(t, d)
      PROVE  Good(t) /\ Rest(t)
  <2>1. /\ Len(stack'[t]) = d
        /\ \A i \in 1 .. d - 1 : stack'[t][i] = stack[t][i]
        /\ d > 0 => stack'[t][d].at \notin {"wait", "hook", "override"}
    BY <1>6 DEF Cuts, Kept, SameCall
  <2>2. \A i, j \in 1 .. d :
          i < j /\ stack'[t][j].at \in {"wait", "hook", "override"} =>
            /\ i \in 1 .. d - 1 /\ j \in 1 .. d - 1
            /\ i \in 1 .. Depth(t) /\ j \in 1 .. Depth(t)
    BY <1>1, <2>1
  <2> QED
    BY <1>1, <1>2, <1>6, <2>1, <2>2 DEF Cuts, Once
<1>7. ASSUME NEW t \in Thread, Enters(t)
      PROVE  Good(t) /\ Rest(t)
  <2> DEFINE n == Depth(t)
  <2>1. /\ Len(stack'[t]) = n + 1
        /\ \A i \in 1 .. n - 1 : stack'[t][i] = stack[t][i]
        /\ stack'[t][n].at = "call" /\ stack'[t][n + 1].at = "enter"
    BY <1>7 DEF Enters, Kept, Entered
  <2>2. n \in Nat /\ n = Len(stack[t])
    BY <1>1
  <2>3. ASSUME NEW t2 \in Thread, t2 # t
        PROVE  stack'[t2] = stack[t2]
    BY <1>7, <2>3 DEF Enters
  <2> HIDE DEF n
  <2>4. ASSUME NEW i \in 1 .. n + 1, NEW j \in 1 .. n + 1, i < j,
               stack'[t][i].at = "call", stack'[t][j].at \in {"wait", "hook", "override"}
        PROVE  stack'[t][i].original # stack'[t][j].fun
    <3>1. j # n + 1 /\ j # n
      BY <2>1, <2>4
    <3>2. i \in 1 .. n - 1 /\ j \in 1 .. n - 1
      BY <2>2, <2>4, <3>1
    <3>3. i \in 1 .. n /\ j \in 1 .. n
      BY <2>2, <3>2
    <3> QED
      BY <1>2, <2>1, <2>2, <2>4, <3>2, <3>3 DEF Once
  <2> QED
    BY <2>1, <2>3, <2>4 DEF Once
<1>8. /\ \A f : Entered(f).at \notin {"wait", "hook", "override"}
      /\ \A f, original, direct :
           Calling(f, original, direct).at \notin {"wait", "hook", "override"}
  BY DEF Entered, Calling
<1>9. UNCHANGED stack \/ \E t \in Thread : Good(t) /\ Rest(t)
  BY <1>3, <1>4, <1>5, <1>6, <1>7, <1>8, StackShapes
<1>10. \A u \in Thread : Once(stack'[u])
  BY <1>2, <1>9
<1> QED
  BY <1>1, <1>10 DEF NoRetrigger, Once
-----------------------------------------------------------------------------
(* The bypass.                                                             *)

(* What calls from Python will restore is passed through below them. *)
LEMMA SavedStep ==
  ASSUME TypeOK, TypeOK', Next, BypassWaits,
         \A t \in Thread : Matches(stack[t], passthrough[t])
  PROVE  \A t \in Thread : SavedPasses(stack'[t])
<1>1. \A t \in Thread : /\ Depth(t) \in Nat /\ Len(stack[t]) = Depth(t)
                        /\ Len(stack'[t]) \in Nat
  BY LenProperties DEF TypeOK, Depth
<1>2. \A t \in Thread : SavedPasses(stack[t])
  BY DEF BypassWaits
<1> DEFINE Good(t) == SavedPasses(stack'[t])
           Rest(t) == \A u \in Thread : u # t => stack'[u] = stack[u]
<1>3. ASSUME NEW t \in Thread, NEW d \in 0 .. Depth(t), d <= Len(stack'[t]),
             \A i \in 1 .. d : stack'[t][i] = stack[t][i],
             \A i \in d + 1 .. Len(stack'[t]) :
               stack'[t][i].at = "call" /\ stack'[t][i].bypass # None =>
                 /\ i = d + 1
                 /\ \E k \in 1 .. d : Passing(stack[t][k])
                                        /\ stack[t][k].original = stack'[t][i].bypass
      PROVE  Good(t)
  <2> SUFFICES ASSUME NEW i \in 1 .. Len(stack'[t]),
                      stack'[t][i].at = "call", stack'[t][i].bypass # None
               PROVE  \E k \in 1 .. i - 1 :
                        Passing(stack'[t][k]) /\ stack'[t][k].original = stack'[t][i].bypass
    BY DEF SavedPasses
  <2>1. CASE i <= d
    <3>1. i \in 1 .. d /\ i \in 1 .. Len(stack[t]) /\ stack'[t][i] = stack[t][i]
      BY <1>1, <1>3, <2>1
    <3>2. PICK k \in 1 .. i - 1 :
            Passing(stack[t][k]) /\ stack[t][k].original = stack[t][i].bypass
      BY <1>2, <3>1 DEF SavedPasses
    <3>3. k \in 1 .. d
      BY <1>1, <3>1
    <3>4. stack'[t][k] = stack[t][k]
      BY <1>3, <3>3
    <3> QED
      BY <3>1, <3>2, <3>4
  <2>2. CASE i > d
    <3>1. i \in d + 1 .. Len(stack'[t])
      BY <1>1, <2>2
    <3>2. PICK k \in 1 .. d :
            Passing(stack[t][k]) /\ stack[t][k].original = stack'[t][i].bypass
      BY <1>3, <3>1
    <3>3. i = d + 1
      BY <1>3, <3>1
    <3>4. k \in 1 .. i - 1 /\ stack'[t][k] = stack[t][k]
      BY <1>1, <1>3, <3>3
    <3> QED
      BY <3>2, <3>4
  <2> QED
    BY <1>1, <2>1, <2>2
<1>4. ASSUME NEW t \in Thread, NEW from, NEW to, Goes(t, from, to)
      PROVE  Good(t) /\ Rest(t)
  <2>1. stack'[t][Depth(t)].at # "call"
    BY <1>4 DEF Goes, HLFrame, Stage
  <2>2. Depth(t) - 1 \in 0 .. Depth(t) /\ Depth(t) - 1 <= Len(stack'[t])
    BY <1>1, <1>4 DEF Goes
  <2>3. \A i \in (Depth(t) - 1) + 1 .. Len(stack'[t]) : stack'[t][i].at # "call"
    BY <1>1, <1>4, <2>1 DEF Goes
  <2>4. \A i \in 1 .. Depth(t) - 1 : stack'[t][i] = stack[t][i]
    BY <1>4 DEF Goes, Kept
  <2>5. Good(t)
    BY <1>3, <2>2, <2>3, <2>4
  <2> QED
    BY <1>4, <2>5 DEF Goes
<1>5. ASSUME NEW t \in Thread, NEW frame, Pushes(t, frame), frame.at # "call"
      PROVE  Good(t) /\ Rest(t)
  <2>1. Depth(t) \in 0 .. Depth(t) /\ Depth(t) <= Len(stack'[t])
    BY <1>1, <1>5 DEF Pushes
  <2>2. \A i \in 1 .. Depth(t) : stack'[t][i] = stack[t][i]
    BY <1>5 DEF Pushes, Kept
  <2>3. \A i \in Depth(t) + 1 .. Len(stack'[t]) : stack'[t][i].at # "call"
    BY <1>1, <1>5 DEF Pushes
  <2>4. Good(t)
    BY <1>3, <2>1, <2>2, <2>3
  <2> QED
    BY <1>5, <2>4 DEF Pushes
<1>6. ASSUME NEW t \in Thread, Pops(t)
      PROVE  Good(t) /\ Rest(t)
  <2>1. Depth(t) - 1 \in 0 .. Depth(t) /\ Depth(t) - 1 <= Len(stack'[t])
    BY <1>1, <1>6 DEF Pops
  <2>2. \A i \in 1 .. Depth(t) - 1 : stack'[t][i] = stack[t][i]
    BY <1>6 DEF Pops, Kept
  <2>3. (Depth(t) - 1) + 1 .. Len(stack'[t]) = {}
    BY <1>1, <1>6 DEF Pops
  <2>4. Good(t)
    BY <1>3, <2>1, <2>2, <2>3
  <2> QED
    BY <1>6, <2>4 DEF Pops
<1>7. ASSUME NEW t \in Thread, NEW d \in 0 .. Depth(t) - 1, Cuts(t, d)
      PROVE  Good(t) /\ Rest(t)
  <2>1. CASE d = 0
    BY <1>7, <2>1 DEF Cuts, SavedPasses
  <2>2. CASE d > 0
    <3>1. d - 1 \in 0 .. Depth(t) /\ d - 1 <= Len(stack'[t])
      BY <1>1, <1>7, <2>2 DEF Cuts
    <3>2. \A i \in 1 .. d - 1 : stack'[t][i] = stack[t][i]
      BY <1>7 DEF Cuts, Kept
    <3>3. \A i \in (d - 1) + 1 .. Len(stack'[t]) : i = d /\ i = (d - 1) + 1
      BY <1>1, <1>7 DEF Cuts
    <3>4. stack'[t][d].at = "call" =>
            stack[t][d].at = "call" /\ stack'[t][d].bypass = stack[t][d].bypass
      BY <1>7, <2>2 DEF Cuts, SameCall
    <3>5. d \in 1 .. Len(stack[t])
      BY <1>1, <2>2
    <3>6. stack'[t][d].at = "call" /\ stack'[t][d].bypass # None =>
            \E k \in 1 .. d - 1 : Passing(stack[t][k])
                                    /\ stack[t][k].original = stack'[t][d].bypass
      BY <1>2, <3>4, <3>5 DEF SavedPasses
    <3>7. Good(t)
      BY <1>3, <3>1, <3>2, <3>3, <3>6
    <3> QED
      BY <1>7, <3>7 DEF Cuts
  <2> QED
    BY <1>1, <2>1, <2>2
<1>8. ASSUME NEW t \in Thread, Enters(t)
      PROVE  Good(t) /\ Rest(t)
  <2> DEFINE n == Depth(t)
  <2>1. /\ n \in Nat \ {0} /\ Len(stack'[t]) = n + 1
        /\ \A i \in 1 .. n - 1 : stack'[t][i] = stack[t][i]
        /\ stack[t][n].at = "convert"
        /\ stack'[t][n].bypass = bypass[t] /\ stack'[t][n + 1].at = "enter"
    BY <1>8 DEF Enters, Kept, Entered, Top
  <2>2. ASSUME bypass[t] # None
        PROVE  \E k \in 1 .. n - 1 : Passing(stack[t][k]) /\ stack[t][k].original = bypass[t]
    <3>1. Passes(t, bypass[t])
      BY <1>8, <2>2 DEF BypassWaits, BypassIsAhead, TopIs, Enters
    <3>2. PICK k \in 1 .. n : Passing(stack[t][k]) /\ stack[t][k].original = bypass[t]
      BY <3>1, PassesOn
    <3>3. k # n
      BY <2>1, <3>2 DEF Passing
    <3> QED
      BY <2>1, <3>2, <3>3
  <2>3. n - 1 \in 0 .. n /\ n - 1 <= Len(stack'[t])
    BY <2>1
  <2>4. ASSUME NEW i \in (n - 1) + 1 .. Len(stack'[t]),
               stack'[t][i].at = "call", stack'[t][i].bypass # None
        PROVE  i = (n - 1) + 1 /\ i = n
    BY <2>1, <2>4
  <2>5. Good(t)
    BY <1>3, <2>1, <2>2, <2>3, <2>4
  <2> QED
    BY <1>8, <2>5 DEF Enters
<1>9. /\ \A f : Entered(f).at # "call"
      /\ \A f, original, direct : Calling(f, original, direct).at # "call"
  BY DEF Entered, Calling
<1>10. UNCHANGED stack \/ \E t \in Thread : Good(t) /\ Rest(t)
  BY <1>4, <1>5, <1>6, <1>7, <1>8, <1>9, StackShapes
<1> QED
  BY <1>2, <1>10

(* The bypass is ahead of the call it was set for. *)
LEMMA AheadStep ==
  ASSUME TypeOK, TypeOK', Next, BypassWaits, Directed,
         \A t \in Thread : Matches(stack[t], passthrough[t]),
         \A t \in Thread : Matches(stack'[t], passthrough'[t])
  PROVE  \A t \in Thread : BypassIsAhead(t)'
<1> DEFINE Good == \A t \in Thread : BypassIsAhead(t)'
           Rest(t) == \A u \in Thread :
                        u # t => /\ stack'[u] = stack[u] /\ bypass'[u] = bypass[u]
                                 /\ passthrough'[u] = passthrough[u]
<1>1. ASSUME NEW t \in Thread, Rest(t), BypassIsAhead(t)'
      PROVE  Good
  <2> SUFFICES ASSUME NEW u \in Thread, u # t
               PROVE  BypassIsAhead(u)'
    BY <1>1
  <2>1. BypassIsAhead(u)
    BY DEF BypassWaits
  <2> QED
    BY <1>1, <2>1 DEF BypassIsAhead, Passes, TopIs, Top, Depth
<1>2. ASSUME NEW t \in Thread, Rest(t), passthrough'[t] = passthrough[t],
             bypass'[t] # None => bypass'[t] = bypass[t] /\ Passes(t, bypass[t])
      PROVE  Good
  <2>1. BypassIsAhead(t)'
    BY <1>2 DEF BypassIsAhead, Passes
  <2> QED
    BY <1>1, <1>2, <2>1
\* Only a dispatch can be that call.
<1>3. ASSUME NEW t \in Thread, ~ TopIs(t, {"enter"}), bypass[t] # None
      PROVE  Passes(t, bypass[t])
  BY <1>3 DEF BypassWaits, BypassIsAhead
<1>4. ASSUME NEW t \in Thread, Rest(t), ~ TopIs(t, {"enter"}),
             passthrough'[t] = passthrough[t], bypass'[t] = bypass[t]
      PROVE  Good
  BY <1>2, <1>3, <1>4
<1>5. ASSUME NEW t \in Thread, DispatchBody(t) \/ DispatchHook(t)
      PROVE  Good
  <2> DEFINE f == Top(t).fun
  <2>1. Rest(t) /\ passthrough'[t] = passthrough[t]
    BY <1>5, Shapes DEF Goes, DispatchBody, DispatchHook, TypeOK
  <2>2. bypass'[t] = IF ~ Passes(t, f) /\ bypass[t] = f THEN None ELSE bypass[t]
    BY <1>5 DEF DispatchBody, DispatchHook, TypeOK
  <2>3. bypass[t] # None => Passes(t, bypass[t]) \/ f = bypass[t]
    BY DEF BypassWaits, BypassIsAhead
  <2> QED
    BY <1>2, <2>1, <2>2, <2>3
<1>6. ASSUME NEW t \in Thread, DispatchOverride(t)
      PROVE  Good
  <2>1. Rest(t) /\ passthrough'[t] = passthrough[t] /\ bypass'[t] = bypass[t]
    BY <1>6, Shapes DEF Goes, DispatchOverride
  <2>2. bypass[t] # None => Passes(t, bypass[t])
    BY <1>6 DEF BypassWaits, BypassIsAhead, DispatchOverride
  <2> QED
    BY <1>2, <2>1, <2>2
<1>7. ASSUME NEW t \in Thread,
             \/ Fetch(t) \/ HookReturn(t) \/ HookRaise(t) \/ Released(t)
             \/ OverrideReturn(t) \/ Return(t) \/ InvokeRefused(t)
      PROVE  Good
  <2>1. /\ ~ TopIs(t, {"enter"}) /\ bypass'[t] = bypass[t]
        /\ passthrough'[t] = passthrough[t]
    BY <1>7, SMTT(30) DEF Fetch, HookReturn, HookRaise, Released, OverrideReturn, Return,
                InvokeRefused, TopIs
  <2>2. Rest(t)
    BY <1>7, Shapes DEF Goes, Pops, Fetch, HookReturn, HookRaise, Released,
                        OverrideReturn, Return, InvokeRefused
  <2> QED
    BY <1>4, <2>1, <2>2
<1>8. ASSUME NEW t \in Thread, Throw(t)
      PROVE  Good
  <2>1. ~ TopIs(t, {"enter"}) /\ bypass' = bypass /\ passthrough' = passthrough
    BY <1>8 DEF Throw, TopIs
  <2>2. \A u \in Thread : u # t => stack'[u] = stack[u]
    BY <1>8, Cutting DEF Cuts
  <2> QED
    BY <1>4, <2>1, <2>2
<1>9. ASSUME NEW t \in Thread, NEW f \in Function,
             Call(t, f) \/ \E original, direct \in {f, None} : Invoke(t, f, original, direct)
      PROVE  Good
  <2>1. ~ TopIs(t, {"enter"}) /\ bypass' = bypass /\ passthrough' = passthrough
    BY <1>9 DEF Call, Invoke, RunsHL, RunsPython, TopIs
  <2>2. \A u \in Thread : u # t => stack'[u] = stack[u]
    BY <1>9, Calls, Invokes DEF Pushes
  <2> QED
    BY <1>4, <2>1, <2>2
<1>10. ASSUME NEW t \in Thread, InvokeEnter(t)
       PROVE  Good
  <2> DEFINE n == Depth(t)
  <2>1. Enters(t)
    BY <1>10, Entering
  <2>2. Rest(t)
    BY <1>10, <2>1 DEF Enters, InvokeEnter, TypeOK
  <2>3. CASE Top(t).direct = None
    <3>1. bypass'[t] = bypass[t] /\ ~ TopIs(t, {"enter"})
      BY <1>10, <2>1, <2>3 DEF InvokeEnter, Enters, TopIs
    <3>2. ASSUME bypass[t] # None
          PROVE  Passes(t, bypass[t])'
      <4>1. PICK k \in 1 .. n : Passing(stack[t][k]) /\ stack[t][k].original = bypass[t]
        BY <1>3, <3>1, <3>2, PassesOn
      <4>2. k # n
        BY <2>1, <4>1 DEF Enters, Top, Passing
      <4>3. k \in 1 .. n - 1 /\ k \in 1 .. Len(stack'[t])
        BY <2>1, <4>2 DEF Enters
      <4>4. stack'[t][k] = stack[t][k]
        BY <2>1, <4>3 DEF Enters, Kept
      <4>5. passthrough'[t] \in Seq(Function) /\ stack'[t] \in Seq(Frame)
        BY DEF TypeOK
      <4>6. \E i \in 1 .. Len(stack'[t]) :
              Passing(stack'[t][i]) /\ stack'[t][i].original = bypass[t]
        BY <4>1, <4>3, <4>4
      <4>7. \E m \in DOMAIN passthrough'[t] : passthrough'[t][m] = bypass[t]
        BY <4>5, <4>6, PassesWhat, ZenonT(30)
      <4> QED
        BY <3>1, <4>7 DEF Passes
    <3>3. BypassIsAhead(t)'
      BY <3>1, <3>2 DEF BypassIsAhead
    <3> QED
      BY <1>1, <2>2, <3>3
  <2>4. CASE Top(t).direct # None
    <3>1. bypass'[t] = Top(t).direct
      BY <1>10, <2>4 DEF InvokeEnter, TypeOK
    <3>2. n \in 1 .. n /\ DOMAIN stack[t] = 1 .. n
      BY <2>1, Frames DEF Enters
    <3>3. Top(t).direct = Top(t).fun
      BY <2>1, <2>4, <3>2 DEF Directed, Enters, Top
    <3>4. /\ Len(stack'[t]) = n + 1 /\ n \in Nat \ {0}
          /\ stack'[t][n].at = "call" /\ stack'[t][n].direct = Top(t).fun
          /\ stack'[t][n + 1].at = "enter" /\ stack'[t][n + 1].fun = Top(t).fun
      BY <2>1, <3>3 DEF Enters, Entered
    <3> HIDE DEF n
    <3>5. BypassIsAhead(t)'
      BY <3>1, <3>3, <3>4 DEF BypassIsAhead, TopIs, Top, Depth
    <3> QED
      BY <1>1, <2>2, <3>5
  <2> QED
    BY <2>3, <2>4
<1>11. ASSUME NEW t \in Thread, InvokeReturn(t)
       PROVE  Good
  <2> DEFINE n == Depth(t)
  <2>1. Pops(t) /\ Top(t).at = "call"
    BY <1>11, Shapes
  <2>2. Rest(t) /\ bypass'[t] = Top(t).bypass
    BY <1>11, <2>1 DEF Pops, InvokeReturn, TypeOK
  <2>3. ASSUME Top(t).bypass # None
        PROVE  Passes(t, bypass[t])'
    <3>1. n \in 1 .. Len(stack[t]) /\ Len(stack'[t]) = n - 1
      BY <2>1, Frames DEF Pops, Depth
    <3>2. PICK k \in 1 .. n - 1 :
            Passing(stack[t][k]) /\ stack[t][k].original = Top(t).bypass
      BY <2>1, <2>3, <3>1 DEF BypassWaits, SavedPasses, Top
    <3>3. stack'[t][k] = stack[t][k]
      BY <2>1, <3>2 DEF Pops, Kept
    <3>4. passthrough'[t] \in Seq(Function) /\ stack'[t] \in Seq(Frame)
      BY DEF TypeOK
    <3>5. \E i \in 1 .. Len(stack'[t]) :
            Passing(stack'[t][i]) /\ stack'[t][i].original = Top(t).bypass
      BY <3>1, <3>2, <3>3
    <3>6. \E m \in DOMAIN passthrough'[t] : passthrough'[t][m] = Top(t).bypass
      BY <3>4, <3>5, PassesWhat, ZenonT(30)
    <3> QED
      BY <2>2, <3>6 DEF Passes
  <2>4. BypassIsAhead(t)'
    BY <2>2, <2>3 DEF BypassIsAhead
  <2> QED
    BY <1>1, <2>2, <2>4
<1>12. (\E f \in Function : Unregister(f) \/ \E c \in Callback : Register(f, c)) => Good
  <2>1. \A t \in Thread : BypassIsAhead(t)
    BY DEF BypassWaits
  <2>2. (\E f \in Function : Unregister(f) \/ \E c \in Callback : Register(f, c))
          => UNCHANGED <<stack, passthrough, bypass>>
    BY DEF Unregister, Register
  <2> QED
    BY <2>1, <2>2 DEF BypassIsAhead, Passes, TopIs, Top, Depth
<1> HIDE DEF Good
<1>13. Good
  BY <1>5, <1>6, <1>7, <1>8, <1>9, <1>10, <1>11, <1>12, ThreadSteps
<1> QED
  BY <1>13 DEF Good
-----------------------------------------------------------------------------
(* The references.                                                         *)

Slots(c) == {f \in Function : slot[f] = c}

LEMMA RefsFinite ==
  ASSUME NEW c
  PROVE  /\ IsFiniteSet(Slots(c)) /\ Cardinality(Slots(c)) \in Nat
         /\ IsFiniteSet(Running(c)) /\ Cardinality(Running(c)) \in Nat
<1>1. Slots(c) \in SUBSET Function
  BY DEF Slots
<1>2. IsFiniteSet(Slots(c))
  BY <1>1, FiniteAssumption, FS_Subset
<1>3. IsFiniteSet(1 .. MaxDepth)
  BY DepthAssumption, FS_Interval
<1>4. IsFiniteSet(Thread \X (1 .. MaxDepth))
  BY <1>3, FiniteAssumption, FS_Product
<1>5. Running(c) \in SUBSET (Thread \X (1 .. MaxDepth))
  BY DEF Running
<1>6. IsFiniteSet(Running(c))
  BY <1>4, <1>5, FS_Subset
<1> QED
  BY <1>2, <1>6, FS_CardinalityType

\* No callback begins to run, and none ends.
SameHooks(t) ==
  \A u \in Thread : \A i \in 1 .. MaxDepth : \A c \in Callback :
    Runs(u, i, c)' <=> Runs(u, i, c)

LEMMA HooksSame ==
  ASSUME TypeOK, TypeOK', NEW t \in Thread
  PROVE  /\ \A from, to : Goes(t, from, to) /\ from # "hook" /\ to # "hook" => SameHooks(t)
         /\ \A frame : Pushes(t, frame) /\ frame.at # "hook" => SameHooks(t)
         /\ Pops(t) /\ Top(t).at # "hook" => SameHooks(t)
         /\ \A d \in 0 .. Depth(t) - 1 : Cuts(t, d) => SameHooks(t)
         /\ Enters(t) => SameHooks(t)
<1> DEFINE n == Depth(t)
           Other == \A u \in Thread : u # t => stack'[u] = stack[u]
           Same(i) == \A c \in Callback : Runs(t, i, c)' <=> Runs(t, i, c)
<1>1. /\ n \in Nat /\ DOMAIN stack[t] = 1 .. n
      /\ DOMAIN stack'[t] = 1 .. Len(stack'[t]) /\ Len(stack'[t]) \in Nat
  BY LenProperties DEF TypeOK, Depth
<1>2. ASSUME Other, \A i \in 1 .. MaxDepth : Same(i)
      PROVE  SameHooks(t)
  BY <1>2 DEF SameHooks, Runs
\* A frame that stays, that is gone, or that is not of a hook.
<1>3. ASSUME NEW i \in 1 .. MaxDepth,
             \/ i \in 1 .. n /\ i \in 1 .. Len(stack'[t]) /\ stack'[t][i] = stack[t][i]
             \/ /\ i \in 1 .. n => stack[t][i].at # "hook"
                /\ i \in 1 .. Len(stack'[t]) => stack'[t][i].at # "hook"
      PROVE  Same(i)
  BY <1>1, <1>3 DEF Runs
<1> HIDE DEF n, Same
<1>4. ASSUME NEW from, NEW to, Goes(t, from, to), from # "hook", to # "hook"
      PROVE  SameHooks(t)
  <2>1. /\ Len(stack'[t]) = n /\ Other
        /\ stack[t][n].at # "hook" /\ stack'[t][n].at # "hook"
        /\ \A i \in 1 .. n - 1 : stack'[t][i] = stack[t][i]
    BY <1>4 DEF Goes, Kept, Top, n
  <2>2. \A i \in 1 .. MaxDepth : Same(i)
    BY <1>1, <1>3, <2>1
  <2> QED
    BY <1>2, <2>1, <2>2
<1>5. ASSUME NEW frame, Pushes(t, frame), frame.at # "hook"
      PROVE  SameHooks(t)
  <2>1. /\ Len(stack'[t]) = n + 1 /\ Other
        /\ stack'[t][n + 1].at # "hook"
        /\ \A i \in 1 .. n : stack'[t][i] = stack[t][i]
    BY <1>5 DEF Pushes, Kept, n
  <2>2. \A i \in 1 .. MaxDepth : Same(i)
    BY <1>1, <1>3, <2>1
  <2> QED
    BY <1>2, <2>1, <2>2
<1>6. ASSUME Pops(t), Top(t).at # "hook"
      PROVE  SameHooks(t)
  <2>1. /\ Len(stack'[t]) = n - 1 /\ Other
        /\ stack[t][n].at # "hook"
        /\ \A i \in 1 .. n - 1 : stack'[t][i] = stack[t][i]
    BY <1>6 DEF Pops, Kept, Top, n
  <2>2. \A i \in 1 .. MaxDepth : Same(i)
    BY <1>1, <1>3, <2>1
  <2> QED
    BY <1>2, <2>1, <2>2
<1>7. ASSUME NEW d \in 0 .. Depth(t) - 1, Cuts(t, d)
      PROVE  SameHooks(t)
  <2>1. /\ Len(stack'[t]) = d /\ Other /\ d < n
        /\ \A i \in d + 1 .. n - 1 : stack[t][i].at # "hook"
        /\ stack[t][n].at # "hook"
        /\ \A i \in 1 .. d - 1 : stack'[t][i] = stack[t][i]
        /\ d > 0 => stack[t][d].at # "hook" /\ stack'[t][d].at # "hook"
    BY <1>1, <1>7 DEF Cuts, Kept, Top, SameCall, n
  <2>2. \A i \in 1 .. MaxDepth : Same(i)
    BY <1>1, <1>3, <2>1
  <2> QED
    BY <1>2, <2>1, <2>2
<1>8. ASSUME Enters(t)
      PROVE  SameHooks(t)
  <2>1. /\ Len(stack'[t]) = n + 1 /\ Other
        /\ stack[t][n].at # "hook" /\ stack'[t][n].at # "hook"
        /\ stack'[t][n + 1].at # "hook"
        /\ \A i \in 1 .. n - 1 : stack'[t][i] = stack[t][i]
    BY <1>8 DEF Enters, Kept, Top, Entered, n
  <2>2. ASSUME NEW i \in 1 .. MaxDepth
        PROVE  Same(i)
    <3>1. CASE i \in 1 .. n - 1
      <4>1. i \in 1 .. n /\ i \in 1 .. Len(stack'[t]) /\ stack'[t][i] = stack[t][i]
        BY <1>1, <2>1, <3>1
      <4> QED
        BY <1>3, <4>1
    <3>2. CASE i \notin 1 .. n - 1
      <4>1. /\ i \in 1 .. n => stack[t][i].at # "hook"
            /\ i \in 1 .. Len(stack'[t]) => stack'[t][i].at # "hook"
        BY <1>1, <2>1, <3>2
      <4> QED
        BY <1>3, <4>1
    <3> QED
      BY <3>1, <3>2
  <2> QED
    BY <1>2, <2>1, <2>2
<1> QED
  BY <1>4, <1>5, <1>6, <1>7, <1>8

(* The dispatch at the top of a stack has or has not a callback; no other changes. *)
LEMMA HooksGo ==
  ASSUME TypeOK, TypeOK', NEW t \in Thread, NEW from, NEW to, Goes(t, from, to),
         NEW u \in Thread, NEW i \in 1 .. MaxDepth, NEW c
  PROVE  /\ Depth(t) \in 1 .. MaxDepth
         /\ u # t \/ i # Depth(t) => (Runs(u, i, c)' <=> Runs(u, i, c))
         /\ Runs(t, Depth(t), c) <=> from = "hook" /\ Top(t).callback = c
         /\ Runs(t, Depth(t), c)' <=> to = "hook" /\ stack'[t][Depth(t)].callback = c
<1>1. /\ Depth(t) \in Nat \ {0} /\ DOMAIN stack[t] = 1 .. Depth(t)
      /\ DOMAIN stack'[t] = 1 .. Depth(t) /\ Depth(t) <= MaxDepth
  BY LenProperties DEF TypeOK, Depth, Goes
<1>2. /\ Top(t).at = from /\ stack'[t][Depth(t)].at = to
      /\ \A k \in 1 .. Depth(t) - 1 : stack'[t][k] = stack[t][k]
      /\ \A v \in Thread : v # t => stack'[v] = stack[v]
  BY DEF Goes, Kept
<1>3. /\ Depth(t) \in 1 .. MaxDepth /\ Depth(t) \in 1 .. Depth(t)
  BY <1>1, DepthAssumption
<1>4. Runs(t, Depth(t), c) <=> from = "hook" /\ Top(t).callback = c
  BY <1>1, <1>2, <1>3 DEF Runs, Top
<1> DEFINE n == Depth(t)
<1> HIDE DEF n
<1>5. /\ DOMAIN stack[t] = 1 .. n /\ DOMAIN stack'[t] = 1 .. n /\ n \in 1 .. n /\ n \in Nat
      /\ stack'[t][n].at = to
      /\ \A k \in 1 .. n - 1 : stack'[t][k] = stack[t][k]
  BY <1>1, <1>2, <1>3 DEF n
<1>6. Runs(t, n, c)' <=> to = "hook" /\ stack'[t][n].callback = c
  <2>1. n' = n
    BY <1>1 DEF n, Goes, Depth
  <2> QED
    BY <1>5, <2>1 DEF Runs
<1>7. u = t /\ i # n => (Runs(u, i, c)' <=> Runs(u, i, c))
  <2>1. i \in 1 .. n - 1 \/ i \notin 1 .. n \/ i = n
    BY <1>5
  <2> QED
    BY <1>5, <2>1 DEF Runs
<1>8. u # t => (Runs(u, i, c)' <=> Runs(u, i, c))
  BY <1>2 DEF Runs
<1> QED
  BY <1>3, <1>4, <1>6, <1>7, <1>8 DEF n

(* One dispatch more, or one less, runs a callback. *)
LEMMA Added ==
  ASSUME NEW t \in Thread, NEW c, Depth(t) \in 1 .. MaxDepth, Depth(t)' = Depth(t),
         \A u \in Thread : \A i \in 1 .. MaxDepth :
           u # t \/ i # Depth(t) => (Runs(u, i, c)' <=> Runs(u, i, c)),
         ~ Runs(t, Depth(t), c), Runs(t, Depth(t), c)'
  PROVE  /\ Running(c)' = Running(c) \cup {<<t, Depth(t)>>}
         /\ <<t, Depth(t)>> \notin Running(c)
<1> DEFINE n == Depth(t)
           P == Thread \X (1 .. MaxDepth)
<1>1. <<t, n>> \in P /\ \A p \in P : p # <<t, n>> => p[1] # t \/ p[2] # n
  OBVIOUS
<1>2. \A p \in P : p[1] \in Thread /\ p[2] \in 1 .. MaxDepth
  OBVIOUS
<1>3. Runs(t, n, c)' = Runs(t, Depth(t), c)' /\ n' = n
  OBVIOUS
<1>4. \A p \in P : Runs(p[1], p[2], c)' <=> (p = <<t, n>> \/ Runs(p[1], p[2], c))
  BY <1>1, <1>2, <1>3 DEF Runs
<1> QED
  BY <1>1, <1>4 DEF Running

LEMMA Taken ==
  ASSUME NEW t \in Thread, NEW c, Depth(t) \in 1 .. MaxDepth, Depth(t)' = Depth(t),
         \A u \in Thread : \A i \in 1 .. MaxDepth :
           u # t \/ i # Depth(t) => (Runs(u, i, c)' <=> Runs(u, i, c)),
         Runs(t, Depth(t), c), ~ Runs(t, Depth(t), c)'
  PROVE  /\ Running(c)' = Running(c) \ {<<t, Depth(t)>>}
         /\ <<t, Depth(t)>> \in Running(c)
<1> DEFINE n == Depth(t)
           P == Thread \X (1 .. MaxDepth)
<1>1. <<t, n>> \in P /\ \A p \in P : p # <<t, n>> => p[1] # t \/ p[2] # n
  OBVIOUS
<1>2. \A p \in P : p[1] \in Thread /\ p[2] \in 1 .. MaxDepth
  OBVIOUS
<1>3. Runs(t, n, c)' = Runs(t, Depth(t), c)' /\ n' = n
  OBVIOUS
<1>4. \A p \in P : Runs(p[1], p[2], c)' <=> (p # <<t, n>> /\ Runs(p[1], p[2], c))
  BY <1>1, <1>2, <1>3 DEF Runs
<1> QED
  BY <1>1, <1>4 DEF Running

LEMMA RefsStep ==
  ASSUME TypeOK, TypeOK', Next, RefsExact
  PROVE  RefsExact'
<1> DEFINE Exact(c) == refs'[c] = Cardinality(Slots(c)') + Cardinality(Running(c)')
           Good == \A c \in Callback : Exact(c)
<1>1. \A c \in Callback : refs[c] = Cardinality(Slots(c)) + Cardinality(Running(c))
  BY DEF RefsExact, Slots
<1>2. ASSUME NEW c,
             \A u \in Thread : \A i \in 1 .. MaxDepth : Runs(u, i, c)' <=> Runs(u, i, c)
      PROVE  Running(c)' = Running(c)
  <2>1. \A p \in Thread \X (1 .. MaxDepth) : Runs(p[1], p[2], c)' <=> Runs(p[1], p[2], c)
    BY <1>2
  <2> QED
    BY <2>1 DEF Running
<1>3. ASSUME NEW c, UNCHANGED slot
      PROVE  Slots(c)' = Slots(c)
  BY <1>3 DEF Slots
<1>4. ASSUME NEW t \in Thread, SameHooks(t), UNCHANGED <<slot, refs>>
      PROVE  Good
  BY <1>1, <1>2, <1>3, <1>4 DEF SameHooks
<1>5. ASSUME NEW f \in Function, NEW b \in Callback, Register(f, b)
      PROVE  Good
  <2> SUFFICES ASSUME NEW c \in Callback
               PROVE  Exact(c)
    OBVIOUS
  <2>1. Running(c)' = Running(c)
    BY <1>2, <1>5 DEF Register, Runs
  <2>2. CASE c = b
    <3>1. Slots(c)' = Slots(c) \cup {f} /\ f \notin Slots(c)
      BY <1>5, <2>2, NoneAssumption DEF Register, Slots, TypeOK
    <3>2. Cardinality(Slots(c) \cup {f}) = Cardinality(Slots(c)) + 1
      BY <3>1, RefsFinite, FS_AddElement
    <3>3. refs'[c] = refs[c] + 1
      BY <1>5, <2>2 DEF Register, TypeOK
    <3> QED
      BY <1>1, <2>1, <3>1, <3>2, <3>3, RefsFinite
  <2>3. CASE c # b
    <3>1. Slots(c)' = Slots(c)
      BY <1>5, <2>3, NoneAssumption DEF Register, Slots, TypeOK
    <3>2. refs'[c] = refs[c]
      BY <1>5, <2>3 DEF Register, TypeOK
    <3> QED
      BY <1>1, <2>1, <3>1, <3>2
  <2> QED
    BY <2>2, <2>3
<1>6. ASSUME NEW f \in Function, Unregister(f)
      PROVE  Good
  <2> SUFFICES ASSUME NEW c \in Callback
               PROVE  Exact(c)
    OBVIOUS
  <2>1. Running(c)' = Running(c)
    BY <1>2, <1>6 DEF Unregister, Runs
  <2>2. CASE c = slot[f]
    <3>1. Slots(c)' = Slots(c) \ {f} /\ f \in Slots(c)
      BY <1>6, <2>2, NoneAssumption DEF Unregister, Slots, TypeOK
    <3>2. Cardinality(Slots(c) \ {f}) = Cardinality(Slots(c)) - 1
      BY <3>1, RefsFinite, FS_RemoveElement
    <3>3. refs'[c] = refs[c] - 1
      BY <1>6, <2>2 DEF Unregister, TypeOK
    <3> QED
      BY <1>1, <2>1, <3>1, <3>2, <3>3, RefsFinite
  <2>3. CASE c # slot[f]
    <3>1. Slots(c)' = Slots(c)
      BY <1>6, <2>3, NoneAssumption DEF Unregister, Slots, TypeOK
    <3>2. refs'[c] = refs[c]
      BY <1>6, <2>3 DEF Unregister, TypeOK
    <3> QED
      BY <1>1, <2>1, <3>1, <3>2
  <2> QED
    BY <2>2, <2>3
<1>7. ASSUME NEW t \in Thread, Fetch(t)
      PROVE  Good
  <2>1. CASE Goes(t, "wait", "body") /\ refs' = refs
    BY <1>4, <1>7, <2>1, HooksSame DEF Fetch
  <2>2. CASE /\ Goes(t, "wait", "hook")
             /\ slot[Top(t).fun] # None
             /\ stack'[t][Depth(t)].callback = slot[Top(t).fun]
             /\ refs' = [refs EXCEPT ![slot[Top(t).fun]] = @ + 1]
    <3> SUFFICES ASSUME NEW c \in Callback
                 PROVE  Exact(c)
      OBVIOUS
    <3>1. Slots(c)' = Slots(c)
      BY <1>3, <1>7 DEF Fetch
    <3>2. \A u \in Thread : \A i \in 1 .. MaxDepth :
            u # t \/ i # Depth(t) => (Runs(u, i, c)' <=> Runs(u, i, c))
      BY <2>2, HooksGo
    <3>3. /\ Depth(t) \in 1 .. MaxDepth /\ Depth(t)' = Depth(t)
          /\ ~ Runs(t, Depth(t), c)
          /\ Runs(t, Depth(t), c)' <=> c = slot[Top(t).fun]
      <4>1. \E i \in 1 .. MaxDepth : TRUE
        BY <2>2 DEF Goes, TypeOK, Depth
      <4> QED
        BY <2>2, <4>1, HooksGo DEF Goes, Depth
    <3>4. CASE c = slot[Top(t).fun]
      <4>1. Running(c)' = Running(c) \cup {<<t, Depth(t)>>} /\ <<t, Depth(t)>> \notin Running(c)
        BY <3>2, <3>3, <3>4, Added
      <4>2. Cardinality(Running(c) \cup {<<t, Depth(t)>>}) = Cardinality(Running(c)) + 1
        BY <4>1, RefsFinite, FS_AddElement
      <4>3. refs'[c] = refs[c] + 1
        BY <2>2, <3>4 DEF TypeOK
      <4> QED
        BY <1>1, <3>1, <4>1, <4>2, <4>3, RefsFinite
    <3>5. CASE c # slot[Top(t).fun]
      <4>1. \A u \in Thread : \A i \in 1 .. MaxDepth : Runs(u, i, c)' <=> Runs(u, i, c)
        BY <3>2, <3>3, <3>5
      <4>2. refs'[c] = refs[c]
        BY <2>2, <3>5 DEF TypeOK
      <4> QED
        BY <1>1, <1>2, <3>1, <4>1, <4>2
    <3> QED
      BY <3>4, <3>5
  <2> QED
    BY <1>7, <2>1, <2>2, Shapes
<1>8. ASSUME NEW t \in Thread, HookReturn(t) \/ HookRaise(t)
      PROVE  Good
  <2>1. PICK to : Goes(t, "hook", to) /\ to # "hook"
    BY <1>8, Shapes
  <2>2. UNCHANGED slot /\ refs' = [refs EXCEPT ![Top(t).callback] = @ - 1]
    BY <1>8 DEF HookReturn, HookRaise
  <2> SUFFICES ASSUME NEW c \in Callback
               PROVE  Exact(c)
    OBVIOUS
  <2>3. Slots(c)' = Slots(c)
    BY <1>3, <2>2
  <2>4. \A u \in Thread : \A i \in 1 .. MaxDepth :
          u # t \/ i # Depth(t) => (Runs(u, i, c)' <=> Runs(u, i, c))
    BY <2>1, HooksGo
  <2>5. /\ Depth(t) \in 1 .. MaxDepth /\ Depth(t)' = Depth(t)
        /\ ~ Runs(t, Depth(t), c)'
        /\ Runs(t, Depth(t), c) <=> c = Top(t).callback
    <3>1. \E i \in 1 .. MaxDepth : TRUE
      BY <2>1 DEF Goes, TypeOK, Depth
    <3>2. Depth(t)' = Depth(t)
      BY <2>1 DEF Goes, Depth
    <3> QED
      BY <2>1, <3>1, <3>2, HooksGo
  <2>6. CASE c = Top(t).callback
    <3>1. Running(c)' = Running(c) \ {<<t, Depth(t)>>} /\ <<t, Depth(t)>> \in Running(c)
      BY <2>4, <2>5, <2>6, Taken
    <3>2. Cardinality(Running(c) \ {<<t, Depth(t)>>}) = Cardinality(Running(c)) - 1
      BY <3>1, RefsFinite, FS_RemoveElement
    <3>3. refs'[c] = refs[c] - 1
      BY <2>2, <2>6 DEF TypeOK
    <3> QED
      BY <1>1, <2>3, <3>1, <3>2, <3>3, RefsFinite
  <2>7. CASE c # Top(t).callback
    <3>1. \A u \in Thread : \A i \in 1 .. MaxDepth : Runs(u, i, c)' <=> Runs(u, i, c)
      BY <2>4, <2>5, <2>7
    <3>2. refs'[c] = refs[c]
      BY <2>2, <2>7 DEF TypeOK
    <3> QED
      BY <1>1, <1>2, <2>3, <3>1, <3>2
  <2> QED
    BY <2>6, <2>7
<1>9. ASSUME NEW t \in Thread,
             \/ DispatchBody(t) \/ DispatchOverride(t) \/ DispatchHook(t)
             \/ Released(t) \/ OverrideReturn(t)
      PROVE  Good
  <2>1. UNCHANGED <<slot, refs>>
    BY <1>9 DEF DispatchBody, DispatchOverride, DispatchHook, Released, OverrideReturn
  <2>2. \E from, to : Goes(t, from, to) /\ from # "hook" /\ to # "hook"
    BY <1>9, Shapes
  <2> QED
    BY <1>4, <2>1, <2>2, HooksSame
<1>10. ASSUME NEW t \in Thread, Return(t) \/ InvokeRefused(t) \/ InvokeReturn(t)
       PROVE  Good
  <2>1. UNCHANGED <<slot, refs>>
    BY <1>10 DEF Return, InvokeRefused, InvokeReturn
  <2>2. Pops(t) /\ Top(t).at # "hook"
    BY <1>10, Shapes
  <2> QED
    BY <1>4, <2>1, <2>2, HooksSame
<1>11. ASSUME NEW t \in Thread, Throw(t) \/ InvokeEnter(t)
       PROVE  Good
  <2>1. UNCHANGED <<slot, refs>>
    BY <1>11 DEF Throw, InvokeEnter
  <2> QED
    BY <1>4, <1>11, <2>1, Cutting, Entering, HooksSame
<1>12. ASSUME NEW t \in Thread, NEW f \in Function,
              Call(t, f) \/ \E original, direct \in {f, None} : Invoke(t, f, original, direct)
       PROVE  Good
  <2>1. UNCHANGED <<slot, refs>>
    BY <1>12 DEF Call, Invoke
  <2>2. /\ Entered(f).at # "hook"
        /\ \A original, direct : Calling(f, original, direct).at # "hook"
    BY DEF Entered, Calling
  <2>3. \E frame : Pushes(t, frame) /\ frame.at # "hook"
    BY <1>12, <2>2, Calls, Invokes
  <2> QED
    BY <1>4, <2>1, <2>3, HooksSame
<1> HIDE DEF Good
<1>13. Good
  BY <1>5, <1>6, <1>7, <1>8, <1>9, <1>10, <1>11, <1>12, ThreadSteps
<1> QED
  BY <1>13 DEF Good, RefsExact, Slots
-----------------------------------------------------------------------------
(* What is always the case.                                                *)

LEMMA InitHolds == Init => IInv
<1> SUFFICES ASSUME Init
             PROVE  IInv
  OBVIOUS
<1>1. /\ <<>> \in Seq(Frame) /\ <<>> \in Seq(Function) /\ Len(<<>>) = 0
      /\ DOMAIN <<>> = {}
  BY EmptySeq
<1>2. TypeOK
  BY <1>1, DepthAssumption DEF Init, TypeOK
<1>3. Rank(<<>>, 0) = 0
  <2>1. {j \in 1 .. 0 : Passing(<<>>[j])} = {}
    OBVIOUS
  <2> QED
    BY <2>1, FS_EmptySet DEF Rank
<1>4. \A t \in Thread : Matches(stack[t], passthrough[t])
  BY <1>1, <1>3 DEF Init, Matches
<1>5. PassthroughMatches /\ NothingElsePasses
  BY <1>2, <1>4, MatchesAll
<1>6. Directed /\ NoRetrigger
  BY <1>1 DEF Init, Directed, NoRetrigger
<1>7. BypassWaits
  BY <1>1 DEF Init, BypassWaits, BypassIsAhead, SavedPasses
<1>8. ReturnIsKept
  BY <1>1 DEF Init, ReturnIsKept, Keeps
<1>9. RefsExact
  <2> SUFFICES ASSUME NEW c \in Callback
               PROVE  refs[c] = Cardinality({f \in Function : slot[f] = c})
                                  + Cardinality(Running(c))
    BY DEF RefsExact
  <2>1. {f \in Function : slot[f] = c} = {}
    BY NoneAssumption DEF Init
  <2>2. Running(c) = {}
    <3>1. ASSUME NEW u \in Thread, NEW i
          PROVE  ~ Runs(u, i, c)
      <4>1. DOMAIN stack[u] = {}
        BY <1>1 DEF Init
      <4> QED
        BY <4>1 DEF Runs
    <3>2. \A p \in Thread \X (1 .. MaxDepth) : p[1] \in Thread /\ ~ Runs(p[1], p[2], c)
      BY <3>1
    <3> QED
      BY <3>2 DEF Running
  <2> QED
    <3>1. refs[c] = 0
      BY DEF Init
    <3> QED
      BY <2>1, <2>2, <3>1, FS_EmptySet
<1> QED
  BY <1>2, <1>5, <1>6, <1>7, <1>8, <1>9 DEF IInv

LEMMA StepHolds == IInv /\ [Next]_vars => IInv'
<1> SUFFICES ASSUME IInv, [Next]_vars
             PROVE  IInv'
  OBVIOUS
<1>1. TypeOK /\ TypeOK'
  BY TypeStep DEF IInv
<1>2. CASE UNCHANGED vars
  <2> USE <1>2 DEF vars
  <2>1. PassthroughMatches' /\ NothingElsePasses' /\ NoRetrigger' /\ Directed'
    BY DEF IInv, PassthroughMatches, NothingElsePasses, NoRetrigger, Directed, Depth
  <2>2. BypassWaits' /\ ReturnIsKept' /\ RefsExact'
    BY DEF IInv, BypassWaits, BypassIsAhead, TopIs, Top, Depth, Passes, ReturnIsKept,
           RefsExact, Running, Runs
  <2> QED
    BY <1>1, <2>1, <2>2 DEF IInv
<1>3. CASE Next
  <2>1. \A t \in Thread : Matches(stack[t], passthrough[t])
    BY <1>1, MatchesAll DEF IInv
  <2>2. \A t \in Thread : Matches(stack'[t], passthrough'[t])
    BY <1>1, <1>3, <2>1, MatchStep
  <2>3. PassthroughMatches' /\ NothingElsePasses'
    <3>1. (TypeOK => ((PassthroughMatches /\ NothingElsePasses)
                        <=> \A t \in Thread : Matches(stack[t], passthrough[t])))'
      BY MatchesAll, PTL
    <3> QED
      BY <1>1, <2>2, <3>1
  <2>4. Directed'
    BY <1>1, <1>3, DirectedStep DEF IInv
  <2>5. NoRetrigger'
    BY <1>1, <1>3, <2>1, OnceStep DEF IInv
  <2>6. BypassWaits'
    <3>1. \A t \in Thread : SavedPasses(stack'[t])
      BY <1>1, <1>3, <2>1, SavedStep DEF IInv
    <3>2. \A t \in Thread : BypassIsAhead(t)'
      BY <1>1, <1>3, <2>1, <2>2, AheadStep DEF IInv
    <3> QED
      BY <3>1, <3>2 DEF BypassWaits
  <2>7. ReturnIsKept'
    BY <1>1, <1>3, KeepsStep DEF IInv, ReturnIsKept
  <2>8. RefsExact'
    BY <1>1, <1>3, RefsStep DEF IInv
  <2> QED
    BY <1>1, <2>3, <2>4, <2>5, <2>6, <2>7, <2>8 DEF IInv
<1> QED
  BY <1>2, <1>3

(* IInv holds in every state: the frames of every thread, its passthrough  *)
(* stack, its bypass and its return value agree (hlmod_invoke and          *)
(* jit_dispatch_hook, however their calls nest).                           *)
THEOREM Invariance == Spec => []IInv
<1>1. Init => IInv
  BY InitHolds
<1>2. IInv /\ [Next]_vars => IInv'
  BY StepHolds
<1> QED
  BY <1>1, <1>2, PTL DEF Spec

(* Every call of an original takes back exactly the findex it has pushed,   *)
(* by whatever way it is left (push_passthrough and pop_passthrough).      *)
THEOREM PassthroughsMatch == Spec => []PassthroughMatches
<1>1. IInv => PassthroughMatches
  BY DEF IInv
<1> QED
  BY <1>1, Invariance, PTL

(* A passthrough call never triggers the hook it comes from again, at any  *)
(* depth and through any other hooks (jit_dispatch_hook, is_passthrough).  *)
THEOREM NoRetriggers == Spec => []NoRetrigger
<1>1. IInv => NoRetrigger
  BY DEF IInv
<1> QED
  BY <1>1, Invariance, PTL

(* The one-shot bypass is taken by the call it was set for, and by no      *)
(* other that is nested in what runs before (hlmod_invoke).                *)
THEOREM BypassHits == Spec => []BypassHitsItsCall
<1>1. IInv => BypassHitsItsCall
  <2> SUFFICES ASSUME IInv, NEW t \in Thread,
                      TopIs(t, {"enter"}), bypass[t] = Top(t).fun, ~ Passes(t, Top(t).fun)
               PROVE  /\ Depth(t) > 1
                      /\ stack[t][Depth(t) - 1].at = "call"
                      /\ stack[t][Depth(t) - 1].direct = Top(t).fun
    BY DEF BypassHitsItsCall
  <2>1. Top(t).fun \in Function
    BY Frames, FrameKind DEF IInv, TopIs
  <2>2. bypass[t] # None
    BY <2>1, NoneAssumption
  <2> QED
    BY <2>2 DEF IInv, BypassWaits, BypassIsAhead
<1> QED
  BY <1>1, Invariance, PTL

(* A dispatch returns to the JIT the value that it has stored, whatever    *)
(* ran between (jit_dispatch_hook, and what hlmod_invoke restores).        *)
THEOREM ReturnsOwn == Spec => []ReturnIsOwn
<1>1. IInv => ReturnIsOwn
  <2> SUFFICES ASSUME IInv, NEW t \in Thread, TopIs(t, {"return"})
               PROVE  return[t] = Depth(t)
    BY DEF ReturnIsOwn
  <2>1. /\ Depth(t) \in 1 .. Len(stack[t]) /\ Depth(t) = Len(stack[t])
        /\ Depth(t) \in Nat /\ Storing(stack[t][Depth(t)])
    BY Frames DEF IInv, TopIs, Top, Storing, Depth
  <2>2. AllConvert(stack[t], Depth(t), Len(stack[t]))
    BY <2>1 DEF AllConvert
  <2> QED
    BY <2>1, <2>2 DEF IInv, ReturnIsKept, Keeps
<1> QED
  BY <1>1, Invariance, PTL

(* A callback has a reference for each slot it is in and each dispatch that *)
(* runs it: it is not freed while it runs, and it is freed after           *)
(* (hlmod_hook_callback, hlmod_py_unregister_hook).                        *)
THEOREM RefsAreExact == Spec => []RefsExact
<1>1. IInv => RefsExact
  BY DEF IInv
<1> QED
  BY <1>1, Invariance, PTL
-----------------------------------------------------------------------------
(* The jumps from a native function to its body (NativeHook).              *)

(* Where an entry may be patched. *)
Place == CFunction \cup DOMAIN stubs

(* Where the processor may be. *)
Position == [at : {"entry", "past"}, of : Place]

(* What a position is. *)
LEMMA Positions ==
  /\ \A p \in Place : Enter(p) \in Position /\ Past(p) \in Position
  /\ \A pos \in Position : pos.of \in Place /\ (pos = Enter(pos.of) \/ pos = Past(pos.of))
  /\ \A p, q : Enter(p) # Past(q)
  /\ \A p, q : (Enter(p) = Enter(q) => p = q) /\ (Past(p) = Past(q) => p = q)
  /\ \A p : Enter(p).of = p /\ Past(p).of = p
  BY DEF Enter, Past, Position

(* Functions are not stubs, and stubs are numbered. *)
LEMMA Places ==
  ASSUME DetourTypeOK
  PROVE  /\ Len(stubs) \in Nat /\ DOMAIN stubs = 1 .. Len(stubs)
         /\ entry \in [Place -> {Own} \cup DOMAIN stubs]
         /\ Own \notin DOMAIN stubs
         /\ \A p \in Place : p \notin CFunction => p \in 1 .. Len(stubs)
         /\ \A p \in DOMAIN stubs : p \notin CFunction /\ p \in Place
  BY LenProperties, PlaceAssumption DEF DetourTypeOK, Place

(* A stub is one of a native. *)
LEMMA Natives ==
  ASSUME DetourTypeOK
  PROVE  \A n \in DOMAIN stubs : stubs[n].native \in Native
<1> DEFINE R == [native : Native, resume : [first : {Own} \cup Nat, then : CFunction \cup Nat]]
<1>1. stubs \in Seq(R)
  BY DEF DetourTypeOK
<1> HIDE DEF R
<1>2. \A n \in DOMAIN stubs : stubs[n] \in R
  BY <1>1, LenProperties
<1> QED
  BY <1>2 DEF R

(* One step of the processor. *)
LEMMA Follows ==
  ASSUME DetourTypeOK, StubsChained
  PROVE  /\ \A p \in Place : Follow(Enter(p)) = IF entry[p] = Own THEN Past(p) ELSE Enter(entry[p])
         /\ \A p \in CFunction : Follow(Past(p)) = Past(p)
         /\ \A p \in DOMAIN stubs : Follow(Past(p)) = Past(stubs[p].resume.then)
         /\ \A p \in DOMAIN stubs : stubs[p].resume.then \in Place
         /\ \A pos \in Position : Follow(pos) \in Position
<1>1. \A p \in Place : Follow(Enter(p)) = IF entry[p] = Own THEN Past(p) ELSE Enter(entry[p])
  BY DEF Follow, Jump, Enter, Past
<1>2. \A p \in CFunction : Follow(Past(p)) = Past(p)
  BY DEF Follow, Past
<1>3. \A p \in DOMAIN stubs : Follow(Past(p)) = Past(stubs[p].resume.then)
  BY Places DEF Follow, Past, StubsChained
<1>4. \A p \in DOMAIN stubs : stubs[p].resume.then \in Place
  BY Places DEF StubsChained, Place
<1>5. ASSUME NEW pos \in Position PROVE Follow(pos) \in Position
  <2>1. pos.of \in Place /\ (pos = Enter(pos.of) \/ pos = Past(pos.of))
    BY Positions
  <2>2. CASE pos = Enter(pos.of)
    <3>1. entry[pos.of] # Own => entry[pos.of] \in Place
      BY <2>1, Places
    <3> QED
      BY <1>1, <2>1, <2>2, <3>1, Positions
  <2>3. CASE pos = Past(pos.of)
    <3>1. CASE pos.of \in CFunction
      BY <1>2, <2>1, <2>3, <3>1, Positions
    <3>2. CASE pos.of \notin CFunction
      <4>1. pos.of \in DOMAIN stubs
        BY <2>1, <3>2 DEF Place
      <4> QED
        BY <1>3, <1>4, <2>3, <4>1, Positions
    <3> QED
      BY <3>1, <3>2
  <2> QED
    BY <2>1, <2>2, <2>3
<1> QED
  BY <1>1, <1>2, <1>3, <1>4, <1>5

(* walk is the way of a call of native f. *)
Walk(f, walk) ==
  /\ walk \in [Nat -> Position]
  /\ walk[0] = Enter(Target[f])
  /\ \A n \in Nat : walk[n + 1] = Follow(walk[n])

(* A call has a way, of which Route has the places. *)
LEMMA Walks ==
  ASSUME DetourTypeOK, StubsChained, NEW f \in Native
  PROVE  \E walk : Walk(f, walk) /\ Route(f) = {walk[n] : n \in 0 .. 2 * Len(stubs) + 2}
<1> DEFINE Is(w) == w = [n \in Nat |-> IF n = 0 THEN Enter(Target[f]) ELSE Follow(w[n - 1])]
           step == [n \in Nat |-> [pos \in Position |-> Follow(pos)]]
<1>1. Enter(Target[f]) \in Position
  BY NativeAssumption, Positions DEF Place
<1>2. step \in [Nat -> [Position -> Position]]
  BY Follows
<1>3. PICK w : Iterates(w, Position, Enter(Target[f]), step)
  <2> HIDE DEF step
  <2> QED
    BY <1>1, <1>2, Iteration, Zenon
<1>4. Walk(f, w)
  <2>1. \A n \in Nat : w[n] \in Position /\ n + 1 \in Nat
    BY <1>3 DEF Iterates
  <2>2. \A n \in Nat, pos \in Position : step[n][pos] = Follow(pos)
    OBVIOUS
  <2> HIDE DEF step
  <2>3. \A n \in Nat : w[n + 1] = Follow(w[n])
    BY <1>3, <2>1, <2>2, Zenon DEF Iterates
  <2> QED
    BY <1>3, <2>3 DEF Iterates, Walk
<1>5. Is(w)
  <2>1. ASSUME NEW n \in Nat
        PROVE  w[n] = IF n = 0 THEN Enter(Target[f]) ELSE Follow(w[n - 1])
    <3>1. CASE n = 0
      BY <1>4, <3>1 DEF Walk
    <3>2. CASE n # 0
      <4>1. n - 1 \in Nat /\ (n - 1) + 1 = n
        BY <3>2
      <4> QED
        BY <1>4, <3>2, <4>1 DEF Walk
    <3> QED
      BY <3>1, <3>2
  <2> QED
    BY <1>4, <2>1 DEF Walk
<1> DEFINE walk == CHOOSE v : Is(v)
<1>6. Is(walk)
  <2> HIDE DEF Is
  <2> QED
    BY <1>5, Zenon
<1>7. Route(f) = {walk[n] : n \in 0 .. 2 * Len(stubs) + 2}
  BY DEF Route
<1> HIDE DEF walk
<1>8. walk[0] = Enter(Target[f]) /\ \A n \in Nat : walk[n + 1] = Follow(walk[n])
  <2>1. ASSUME NEW n \in Nat PROVE walk[n + 1] = Follow(walk[n])
    <3>1. n + 1 \in Nat /\ n + 1 # 0 /\ (n + 1) - 1 = n
      OBVIOUS
    <3> QED
      BY <1>6, <3>1
  <2> QED
    BY <1>6, <2>1
<1>9. walk \in [Nat -> Position]
  <2> DEFINE T == {n \in Nat : walk[n] \in Position}
  <2>1. 0 \in T /\ \A n \in Nat : n \in T => n + 1 \in T
    BY <1>1, <1>8, Follows
  <2>2. \A n \in Nat : n \in T
    <3> HIDE DEF T
    <3> QED
      BY <2>1, Induction
  <2>3. DOMAIN walk = Nat /\ walk = [n \in Nat |-> walk[n]]
    BY <1>6
  <2> QED
    BY <2>2, <2>3
<1> QED
  BY <1>7, <1>8, <1>9 DEF Walk

(* A position behind an entry is reached through that entry, and the only
   function on the way is the native's own. *)
LEMMA GoesOn ==
  ASSUME DetourTypeOK, StubsChained, NEW f \in Native, NEW walk, Walk(f, walk)
  PROVE  \A n \in Nat : /\ \E i \in 0 .. n : walk[i] = Enter(walk[n].of)
                        /\ walk[n].of \in CFunction => walk[n].of = Target[f]
<1> DEFINE T == {n \in Nat : \E i \in 0 .. n : walk[i] = Enter(walk[n].of)}
<1>1. Target[f] \in CFunction
  BY NativeAssumption
<1>2. /\ \A n \in Nat : walk[n] \in Position /\ walk[n + 1] = Follow(walk[n])
      /\ walk[0] = Enter(Target[f])
  BY DEF Walk
<1>3. ASSUME NEW n \in Nat, NEW p \in Place, walk[n + 1] = Enter(p)
      PROVE  /\ p \in DOMAIN stubs
             /\ walk[n] = Enter(stubs[p].resume.then)
  <2>1. /\ walk[n].of \in Place
        /\ walk[n] = Enter(walk[n].of) \/ walk[n] = Past(walk[n].of)
    BY <1>2, Positions
  <2>2. CASE walk[n] = Enter(walk[n].of)
    <3> DEFINE q == walk[n].of
    <3>1. entry[q] # Own /\ entry[q] = p
      BY <1>2, <1>3, <2>1, <2>2, Follows, Positions
    <3>2. q \in DOMAIN entry /\ p \in DOMAIN stubs
      BY <2>1, <3>1, Places
    <3>3. stubs[p].resume.then = q
      BY <3>1, <3>2 DEF StubsChained
    <3> QED
      BY <2>2, <3>2, <3>3
  <2>3. CASE walk[n] = Past(walk[n].of)
    <3>1. CASE walk[n].of \in CFunction
      BY <1>2, <1>3, <2>3, <3>1, Follows, Positions
    <3>2. CASE walk[n].of \notin CFunction
      <4>1. walk[n].of \in DOMAIN stubs
        BY <2>1, <3>2 DEF Place
      <4> QED
        BY <1>2, <1>3, <2>3, <4>1, Follows, Positions
    <3> QED
      BY <3>1, <3>2
  <2> QED
    BY <2>1, <2>2, <2>3
<1>4. 0 \in T
  BY <1>2, Positions
<1>5. ASSUME NEW n \in Nat, n \in T PROVE n + 1 \in T
  <2>1. PICK i \in 0 .. n : walk[i] = Enter(walk[n].of)
    BY <1>5
  <2>2. /\ walk[n].of \in Place
        /\ walk[n] = Enter(walk[n].of) \/ walk[n] = Past(walk[n].of)
    BY <1>2, Positions
  <2>3. /\ walk[n + 1].of \in Place
        /\ walk[n + 1] = Enter(walk[n + 1].of) \/ walk[n + 1] = Past(walk[n + 1].of)
    BY <1>2, Positions
  <2>4. CASE walk[n + 1] = Enter(walk[n + 1].of)
    BY <2>4
  <2>5. CASE walk[n + 1].of = walk[n].of
    BY <2>1, <2>5
  <2>6. CASE walk[n + 1] = Past(walk[n + 1].of) /\ walk[n + 1].of # walk[n].of
    <3> DEFINE p == walk[n].of
    <3>1. walk[n] = Past(p)
      <4> SUFFICES ASSUME walk[n] = Enter(p) PROVE FALSE
        BY <2>2
      <4>1. entry[p] = Own => walk[n + 1] = Past(p)
        BY <1>2, <2>2, Follows
      <4>2. entry[p] # Own => walk[n + 1] = Enter(entry[p])
        BY <1>2, <2>2, Follows
      <4> QED
        BY <2>6, <4>1, <4>2, Positions
    <3>2. p \in DOMAIN stubs
      <4>1. p \in CFunction => walk[n + 1] = Past(p)
        BY <1>2, <3>1, Follows
      <4> QED
        BY <2>2, <2>6, <4>1, Positions DEF Place
    <3>3. walk[n + 1] = Past(stubs[p].resume.then)
      BY <1>2, <3>1, <3>2, Follows
    <3>4. i - 1 \in Nat /\ (i - 1) + 1 = i
      <4>1. i # 0
        BY <1>1, <1>2, <2>1, <3>2, Places, Positions
      <4> QED
        BY <4>1
    <3>5. walk[i - 1] = Enter(stubs[p].resume.then)
      BY <1>3, <2>1, <2>2, <3>4
    <3>6. stubs[p].resume.then = walk[n + 1].of
      BY <3>3, Positions
    <3>7. i - 1 \in 0 .. n + 1
      BY <3>4
    <3> QED
      BY <3>5, <3>6, <3>7
  <2> QED
    BY <2>3, <2>4, <2>5, <2>6
<1>6. \A n \in Nat : n \in T
  <2> HIDE DEF T
  <2> QED
    BY <1>4, <1>5, Induction
<1>7. ASSUME NEW n \in Nat, walk[n].of \in CFunction PROVE walk[n].of = Target[f]
  <2>1. PICK i \in 0 .. n : walk[i] = Enter(walk[n].of)
    BY <1>6
  <2>2. CASE i = 0
    BY <1>2, <2>1, <2>2, Positions
  <2>3. CASE i # 0
    <3>1. i - 1 \in Nat /\ (i - 1) + 1 = i
      BY <2>3
    <3>2. walk[n].of \in DOMAIN stubs
      BY <1>3, <1>7, <2>1, <3>1 DEF Place
    <3> QED
      BY <1>7, <3>2, Places
  <2> QED
    BY <2>2, <2>3
<1> QED
  BY <1>6, <1>7

(* How many steps there are to the body of a function, at most: up the stubs
   to one that nobody has patched, then down again. *)
Ahead(pos) ==
  CASE pos.at = "entry" /\ pos.of \in CFunction -> 2 * Len(stubs) + 1
    [] pos.at = "entry" /\ pos.of \notin CFunction -> 2 * Len(stubs) + 1 - pos.of
    [] pos.at = "past" /\ pos.of \notin CFunction -> pos.of
    [] OTHER -> 0

(* Every step is one less. *)
LEMMA Nears ==
  ASSUME DetourTypeOK, StubsChained
  PROVE  \A pos \in Position :
           /\ Ahead(pos) \in 0 .. 2 * Len(stubs) + 1
           /\ Ahead(pos) = 0 => pos.of \in CFunction /\ Follow(pos) = pos /\ pos = Past(pos.of)
           /\ Ahead(pos) # 0 => Ahead(Follow(pos)) < Ahead(pos)
<1> TAKE pos \in Position
<1> DEFINE N == Len(stubs)
           p == pos.of
<1>1. /\ p \in Place /\ (pos = Enter(p) \/ pos = Past(p))
      /\ p \notin CFunction => p \in 1 .. N
      /\ N \in Nat
  BY Positions, Places
<1>2. \A q : /\ Ahead(Enter(q)) = IF q \in CFunction THEN 2 * N + 1 ELSE 2 * N + 1 - q
             /\ Ahead(Past(q)) = IF q \in CFunction THEN 0 ELSE q
  BY DEF Ahead, Enter, Past
<1>3. CASE pos = Enter(p)
  <2>1. Ahead(pos) \in N + 1 .. 2 * N + 1
    BY <1>1, <1>2, <1>3
  <2>2. CASE entry[p] = Own
    <3>1. Follow(pos) = Past(p)
      BY <1>1, <1>3, <2>2, Follows
    <3>2. Ahead(Past(p)) \in 0 .. N
      BY <1>1, <1>2
    <3> QED
      BY <1>1, <2>1, <3>1, <3>2
  <2>3. CASE entry[p] # Own
    <3>1. Follow(pos) = Enter(entry[p])
      BY <1>1, <1>3, <2>3, Follows
    <3>2. entry[p] \in 1 .. N /\ entry[p] \notin CFunction
      BY <1>1, <2>3, Places
    <3>3. stubs[entry[p]].resume.then = p
      BY <1>1, <2>3, Places DEF StubsChained
    <3>4. p \in CFunction \cup 1 .. entry[p] - 1
      BY <3>2, <3>3, Places DEF StubsChained
    <3>5. Ahead(Enter(entry[p])) = 2 * N + 1 - entry[p]
      BY <1>2, <3>2
    <3>6. CASE p \in CFunction
      <4>1. Ahead(pos) = 2 * N + 1
        BY <1>2, <1>3, <3>6
      <4> QED
        BY <1>1, <2>1, <3>1, <3>2, <3>5, <4>1
    <3>7. CASE p \notin CFunction
      <4>1. Ahead(pos) = 2 * N + 1 - p /\ p \in 1 .. entry[p] - 1
        BY <1>2, <1>3, <3>4, <3>7
      <4> QED
        BY <1>1, <2>1, <3>1, <3>2, <3>5, <4>1
    <3> QED
      BY <3>6, <3>7
  <2> QED
    BY <2>2, <2>3
<1>4. CASE pos = Past(p)
  <2>1. CASE p \in CFunction
    BY <1>1, <1>2, <1>4, <2>1, Follows
  <2>2. CASE p \notin CFunction
    <3> DEFINE c == stubs[p].resume.then
    <3>1. Ahead(pos) = p /\ p \in 1 .. N /\ Follow(pos) = Past(c)
      BY <1>1, <1>2, <1>4, <2>2, Follows, Places
    <3>2. c \in CFunction \cup 1 .. p - 1
      BY <3>1, Places DEF StubsChained
    <3>3. Ahead(Past(c)) = IF c \in CFunction THEN 0 ELSE c
      BY <1>2
    <3> QED
      BY <1>1, <3>1, <3>2, <3>3
  <2> QED
    BY <2>1, <2>2
<1> QED
  BY <1>1, <1>3, <1>4

(* Through any detours, a call comes to the body of its function: BodyIsReached
   of native_hook.c. *)
LEMMA Arrives ==
  ASSUME DetourTypeOK, StubsChained, NEW f \in Native
  PROVE  Past(Target[f]) \in Route(f)
<1>1. PICK walk : Walk(f, walk) /\ Route(f) = {walk[n] : n \in 0 .. 2 * Len(stubs) + 2}
  BY Walks
<1> DEFINE N == Len(stubs)
           T == {n \in Nat : Ahead(walk[n]) = 0 \/ Ahead(walk[n]) + n <= 2 * N + 1}
<1>2. \A n \in Nat : walk[n] \in Position /\ walk[n + 1] = Follow(walk[n])
  BY <1>1 DEF Walk
<1>3. N \in Nat
  BY Places
<1>4. \A n \in Nat :
        LET pos == walk[n] IN
        /\ Ahead(pos) \in 0 .. 2 * Len(stubs) + 1
        /\ Ahead(pos) = 0 => pos.of \in CFunction /\ Follow(pos) = pos /\ pos = Past(pos.of)
        /\ Ahead(pos) # 0 => Ahead(Follow(pos)) < Ahead(pos)
  BY <1>2, Nears, Zenon
<1>5. 0 \in T
  BY <1>4
<1>6. ASSUME NEW n \in Nat, n \in T PROVE n + 1 \in T
  <2>1. /\ Ahead(walk[n]) \in 0 .. 2 * N + 1 /\ Ahead(walk[n + 1]) \in 0 .. 2 * N + 1
        /\ Ahead(walk[n]) = 0 => walk[n + 1] = walk[n]
        /\ Ahead(walk[n]) # 0 => Ahead(walk[n + 1]) < Ahead(walk[n])
    BY <1>2, <1>4
  <2> HIDE DEF N
  <2> QED
    BY <1>3, <1>6, <2>1
<1>7. \A n \in Nat : n \in T
  <2> HIDE DEF T
  <2> QED
    BY <1>5, <1>6, Induction
<1>8. 2 * N + 2 \in Nat /\ 2 * N + 2 \in T
  BY <1>3, <1>7
<1> DEFINE pos == walk[2 * N + 2]
<1>9. pos.of \in CFunction /\ pos = Past(pos.of)
  <2>1. ASSUME NEW k \in Nat, k = 2 * N + 2 PROVE Ahead(walk[k]) = 0
    <3> HIDE DEF N
    <3> QED
      BY <1>3, <1>4, <1>7, <2>1
  <2>2. Ahead(pos) = 0
    BY <1>8, <2>1
  <2> HIDE DEF N
  <2> QED
    BY <1>4, <1>8, <2>2
<1>10. pos.of = Target[f]
  BY <1>1, <1>8, <1>9, GoesOn
<1> QED
  BY <1>1, <1>3, <1>9, <1>10

(* What the jumps from a native's function lead to, its call comes through. *)
LEMMA ComesThrough ==
  ASSUME DetourTypeOK, StubsChained, NEW f \in Native, NEW p \in Place,
         LeadsTo(entry, Target[f], p)
  PROVE  Past(p) \in Route(f)
<1>1. PICK walk : Walk(f, walk) /\ Route(f) = {walk[n] : n \in 0 .. 2 * Len(stubs) + 2}
  BY Walks
<1> DEFINE S == {q \in Place : Past(q) \in Route(f)}
<1>2. S \in SUBSET DOMAIN entry
  BY Places
<1>3. Target[f] \in S
  BY Arrives, NativeAssumption DEF Place
<1>4. ASSUME NEW q \in S, entry[q] # Own PROVE entry[q] \in S
  <2>1. PICK n \in 0 .. 2 * Len(stubs) + 2 :
          walk[n] = Past(q) /\ \A i \in 0 .. n - 1 : walk[i] # Past(q)
    <3> DEFINE M == {n \in 0 .. 2 * Len(stubs) + 2 : walk[n] = Past(q)}
    <3>1. M \subseteq Nat /\ M # {}
      BY <1>1
    <3>2. PICK n \in M : \A i \in M : n <= i
      BY <3>1, First
    <3>3. ASSUME NEW i \in 0 .. n - 1 PROVE walk[i] # Past(q)
      <4>1. i \in 0 .. 2 * Len(stubs) + 2 /\ ~ (n <= i)
        BY <3>2, Places
      <4> QED
        BY <3>2, <4>1
    <3> QED
      BY <3>2, <3>3
  <2>2. n # 0
    BY <1>1, <2>1, Positions DEF Walk
  <2>3. /\ Len(stubs) \in Nat /\ n - 1 \in Nat /\ (n - 1) + 1 = n
        /\ n - 1 \in 0 .. 2 * Len(stubs) + 2
    BY <2>2, Places
  <2> DEFINE pos == walk[n - 1]
  <2>4. pos \in Position /\ Past(q) = Follow(pos)
    BY <1>1, <2>1, <2>3 DEF Walk
  <2>5. pos.of \in Place /\ (pos = Enter(pos.of) \/ pos = Past(pos.of))
    BY <2>4, Positions
  <2>6. CASE pos = Enter(pos.of)
    <3>1. entry[pos.of] = Own => pos.of = q
      BY <2>4, <2>5, <2>6, Follows, Positions
    <3>2. entry[pos.of] = Own
      BY <2>4, <2>5, <2>6, Follows, Positions
    <3> QED
      BY <1>4, <3>1, <3>2
  <2>7. CASE pos = Past(pos.of) /\ pos.of \in DOMAIN stubs
    <3>1. stubs[pos.of].resume.then = q
      BY <2>4, <2>7, Follows, Positions
    <3>2. entry[q] = pos.of
      BY <2>7, <3>1 DEF StubsChained
    <3> QED
      BY <1>1, <2>3, <2>5, <2>7, <3>2
  <2>8. CASE pos = Past(pos.of) /\ pos.of \in CFunction
    <3>1. pos = Past(q)
      BY <2>4, <2>8, Follows
    <3>2. n - 1 \in 0 .. n - 1
      BY <2>3
    <3> QED
      BY <2>1, <3>1, <3>2
  <2> QED
    BY <2>5, <2>6, <2>7, <2>8 DEF Place
<1>5. p \in S
  BY <1>2, <1>3, <1>4 DEF LeadsTo
<1> QED
  BY <1>5

(* Where resolve_jmp_chain comes out is on the way from where it went in. *)
LEMMA Resolved ==
  ASSUME DetourTypeOK, NEW c \in CFunction
  PROVE  Resolve(c) \in Place /\ LeadsTo(entry, c, Resolve(c))
<1> DEFINE On(p) == IF entry[p] = Own THEN p ELSE entry[p]
           Is(h) == h = [n \in Nat |-> IF n = 0 THEN c ELSE On(h[n - 1])]
           step == [n \in Nat |-> [p \in Place |-> On(p)]]
<1>1. c \in Place /\ \A p \in Place : On(p) \in Place
  BY Places DEF Place
<1>2. step \in [Nat -> [Place -> Place]]
  BY <1>1
<1>3. PICK h : Iterates(h, Place, c, step)
  <2> HIDE DEF step
  <2> QED
    BY <1>1, <1>2, Iteration, Zenon
<1> HIDE DEF On
<1>4. \A n \in Nat : h[n] \in Place /\ n + 1 \in Nat
  BY <1>3 DEF Iterates
<1>5. \A n \in Nat : h[n + 1] = On(h[n])
  <2>1. \A n \in Nat, p \in Place : step[n][p] = On(p)
    OBVIOUS
  <2> HIDE DEF step
  <2> QED
    BY <1>3, <1>4, <2>1, Zenon DEF Iterates
<1>6. Is(h)
  <2>1. ASSUME NEW n \in Nat PROVE h[n] = IF n = 0 THEN c ELSE On(h[n - 1])
    <3>1. CASE n = 0
      BY <1>3, <3>1 DEF Iterates
    <3>2. CASE n # 0
      <4>1. n - 1 \in Nat /\ (n - 1) + 1 = n
        BY <3>2
      <4> QED
        BY <1>5, <3>2, <4>1
    <3> QED
      BY <3>1, <3>2
  <2>2. h \in [Nat -> Place]
    BY <1>3 DEF Iterates
  <2> QED
    BY <2>1, <2>2
<1> DEFINE hop == CHOOSE g : Is(g)
<1>7. Resolve(c) = hop[MaxHops]
  BY DEF Resolve, On
<1>8. Is(hop)
  <2> HIDE DEF Is
  <2> QED
    BY <1>6, Zenon
<1> HIDE DEF hop
<1>9. hop[0] = c /\ \A n \in Nat : hop[n + 1] = On(hop[n])
  <2>1. ASSUME NEW n \in Nat PROVE hop[n + 1] = On(hop[n])
    <3>1. n + 1 \in Nat /\ n + 1 # 0 /\ (n + 1) - 1 = n
      OBVIOUS
    <3> QED
      BY <1>8, <3>1
  <2> QED
    BY <1>8, <2>1
<1>10. ASSUME NEW S \in SUBSET Place, c \in S, \A p \in S : On(p) \in S
       PROVE  \A n \in Nat : hop[n] \in S
  <2> DEFINE T == {n \in Nat : hop[n] \in S}
  <2>1. 0 \in T /\ \A n \in Nat : n \in T => n + 1 \in T
    BY <1>9, <1>10
  <2>2. \A n \in Nat : n \in T
    <3> HIDE DEF T
    <3> QED
      BY <2>1, Induction
  <2> QED
    BY <2>2
<1>11. MaxHops \in Nat
  BY NativeAssumption
<1>12. hop[MaxHops] \in Place
  BY <1>1, <1>10, <1>11
<1>13. ASSUME NEW S \in SUBSET DOMAIN entry, c \in S,
              \A q \in S : entry[q] # Own => entry[q] \in S
       PROVE  hop[MaxHops] \in S
  <2>1. S \in SUBSET Place /\ \A p \in S : On(p) \in S
    BY <1>13, Places DEF On
  <2> QED
    BY <1>10, <1>11, <1>13, <2>1
<1> QED
  BY <1>7, <1>12, <1>13 DEF LeadsTo

(* Jumps that are added to a place without one lead to no fewer places. *)
LEMMA StillLeads ==
  ASSUME NEW jumps, NEW more, DOMAIN jumps \subseteq DOMAIN more,
         \A q \in DOMAIN jumps : jumps[q] # Own => more[q] = jumps[q] /\ jumps[q] \in DOMAIN jumps,
         NEW c \in DOMAIN jumps, NEW p, LeadsTo(jumps, c, p)
  PROVE  LeadsTo(more, c, p)
<1> SUFFICES ASSUME NEW S \in SUBSET DOMAIN more, c \in S,
                    \A q \in S : more[q] # Own => more[q] \in S
             PROVE  p \in S
  BY DEF LeadsTo
<1> DEFINE R == S \cap DOMAIN jumps
<1>1. R \in SUBSET DOMAIN jumps /\ c \in R /\ \A q \in R : jumps[q] # Own => jumps[q] \in R
  OBVIOUS
<1> HIDE DEF R
<1>2. p \in R
  BY <1>1 DEF LeadsTo
<1> QED
  BY <1>2 DEF R

(* A detour is installed behind what jumps there: the place that is patched had
   the instructions it was compiled with, the new stub comes after all others. *)
LEMMA Installs ==
  ASSUME DetourInv, NEW f \in Native, NEW c \in Place, entry[c] = Own,
         LeadsTo(entry, Target[f], c),
         stubs' = Append(stubs, [native |-> f, resume |-> Resume(c)]),
         entry' = [p \in DOMAIN entry \cup {Len(stubs) + 1} |->
                     IF p = c THEN Len(stubs) + 1
                     ELSE IF p = Len(stubs) + 1 THEN Own ELSE entry[p]],
         installed' \in {installed, installed \cup {f}},
         hooked' \in {hooked, hooked \cup {f}}
  PROVE  DetourInv'
<1> DEFINE k == Len(stubs) + 1
           stub == [native |-> f, resume |-> Resume(c)]
<1>1. DetourTypeOK /\ StubsChained /\ StubsOnTheWay
  BY DEF DetourInv
<1>2. /\ Len(stubs) \in Nat /\ k \in Nat /\ k # Own /\ k \notin Place /\ k \notin CFunction
      /\ c # k /\ c \in CFunction \cup 1 .. Len(stubs)
      /\ DOMAIN entry = Place /\ DOMAIN stubs = 1 .. Len(stubs)
  BY <1>1, Places, PlaceAssumption DEF Place
<1>3. /\ stub.native = f /\ stub.resume.first = Own /\ stub.resume.then = c
      /\ stub \in [native : Native, resume : [first : {Own} \cup Nat, then : CFunction \cup Nat]]
  BY <1>2 DEF Resume
<1>4. /\ stubs' \in Seq([native : Native,
                         resume : [first : {Own} \cup Nat, then : CFunction \cup Nat]])
      /\ Len(stubs') = k /\ DOMAIN stubs' = 1 .. k
      /\ \A n \in 1 .. Len(stubs) : stubs'[n] = stubs[n]
      /\ stubs'[k] = stub
  <2> HIDE DEF stub
  <2> QED
    BY <1>1, <1>2, <1>3, AppendProperties, LenProperties DEF DetourTypeOK, stub
<1>5. /\ DOMAIN entry' = CFunction \cup DOMAIN stubs'
      /\ entry'[c] = k /\ entry'[k] = Own
      /\ \A p \in Place : p # c => entry'[p] = entry[p]
      /\ \A p \in DOMAIN entry' : entry'[p] \in {Own} \cup DOMAIN stubs'
  <2>1. DOMAIN entry' = CFunction \cup DOMAIN stubs'
    BY <1>2, <1>4 DEF Place
  <2>2. \A p \in Place : entry[p] \in {Own} \cup 1 .. Len(stubs)
    BY <1>1, <1>2, Places
  <2> QED
    BY <1>2, <1>4, <2>1, <2>2
<1>6. DetourTypeOK'
  <2>1. entry' \in [CFunction \cup DOMAIN stubs' -> {Own} \cup DOMAIN stubs']
    <3>1. entry' = [p \in DOMAIN entry' |-> entry'[p]]
      OBVIOUS
    <3> QED
      BY <1>5, <3>1
  <2> QED
    BY <1>1, <1>4, <2>1 DEF DetourTypeOK
<1>7. StubsChained'
  <2>1. ASSUME NEW n \in DOMAIN stubs'
        PROVE  /\ stubs'[n].resume.first = Own
               /\ stubs'[n].resume.then \in CFunction \cup 1 .. n - 1
               /\ entry'[stubs'[n].resume.then] = n
    <3>1. CASE n = k
      BY <1>2, <1>3, <1>4, <1>5, <3>1
    <3>2. CASE n # k
      <4>1. n \in DOMAIN stubs /\ stubs'[n] = stubs[n]
        BY <1>2, <1>4, <3>2
      <4>2. /\ stubs[n].resume.first = Own
            /\ stubs[n].resume.then \in CFunction \cup 1 .. n - 1
            /\ entry[stubs[n].resume.then] = n
        BY <1>1, <4>1 DEF StubsChained
      <4>3. stubs[n].resume.then \in Place /\ n # Own
        BY <1>2, <4>1, <4>2, PlaceAssumption DEF Place
      <4> QED
        BY <1>5, <4>1, <4>2, <4>3
    <3> QED
      BY <3>1, <3>2
  <2>2. ASSUME NEW p \in DOMAIN entry', entry'[p] # Own
        PROVE  stubs'[entry'[p]].resume.then = p
    <3>1. CASE p = c
      BY <1>3, <1>4, <1>5, <3>1
    <3>2. CASE p # c
      <4>1. p \in DOMAIN entry /\ entry'[p] = entry[p]
        BY <1>2, <1>5, <2>2, <3>2, <1>4 DEF Place
      <4>2. stubs[entry[p]].resume.then = p /\ entry[p] \in 1 .. Len(stubs)
        BY <1>1, <1>2, <2>2, <4>1, Places DEF StubsChained
      <4> QED
        BY <1>4, <4>1, <4>2
    <3> QED
      BY <3>1, <3>2
  <2> QED
    BY <2>1, <2>2 DEF StubsChained
<1>8. StubsOnTheWay'
  <2>1. /\ DOMAIN entry \subseteq DOMAIN entry'
        /\ \A q \in DOMAIN entry : entry[q] # Own =>
                                     entry'[q] = entry[q] /\ entry[q] \in DOMAIN entry
    BY <1>1, <1>2, <1>4, <1>5, Places DEF Place
  <2>2. \A g \in Native : Target[g] \in DOMAIN entry
    BY <1>2, NativeAssumption DEF Place
  <2>3. \A g \in Native : \A p : LeadsTo(entry, Target[g], p) => LeadsTo(entry', Target[g], p)
    BY <2>1, <2>2, StillLeads
  <2>4. ASSUME NEW n \in DOMAIN stubs' PROVE LeadsTo(entry', Target[stubs'[n].native], n)
    <3>1. CASE n = k
      <4>1. LeadsTo(entry', Target[f], c)
        BY <2>3
      <4>2. LeadsTo(entry', Target[f], k)
        BY <1>2, <1>5, <4>1 DEF LeadsTo
      <4> QED
        BY <1>3, <1>4, <3>1, <4>2
    <3>2. CASE n # k
      <4>1. n \in DOMAIN stubs /\ stubs'[n] = stubs[n]
        BY <1>2, <1>4, <3>2
      <4>2. stubs[n].native \in Native
        BY <1>1, <4>1, Natives
      <4>3. LeadsTo(entry, Target[stubs[n].native], n)
        BY <1>1, <4>1 DEF StubsOnTheWay
      <4> QED
        BY <2>3, <4>1, <4>2, <4>3
    <3> QED
      BY <3>1, <3>2
  <2>5. ASSUME NEW g \in hooked' \cup installed' PROVE \E n \in DOMAIN stubs' : stubs'[n].native = g
    <3>1. CASE g = f
      BY <1>2, <1>3, <1>4, <3>1
    <3>2. CASE g # f
      <4>1. PICK n \in DOMAIN stubs : stubs[n].native = g
        BY <1>1, <3>2 DEF StubsOnTheWay
      <4> QED
        BY <1>2, <1>4, <4>1
    <3> QED
      BY <3>1, <3>2
  <2> QED
    BY <2>4, <2>5 DEF StubsOnTheWay
<1>9. (installed' \subseteq Native /\ hooked' \subseteq Native)
  BY <1>1 DEF DetourTypeOK
<1> QED
  BY <1>6, <1>7, <1>8 DEF DetourInv

(* At the start nothing is patched. *)
LEMMA DetourInitInv == DetourInit => DetourInv
<1> SUFFICES ASSUME DetourInit PROVE DetourInv
  OBVIOUS
<1>1. DOMAIN stubs = {} /\ DetourTypeOK
  BY EmptySeq DEF DetourInit, DetourTypeOK
<1>2. StubsChained /\ StubsOnTheWay
  BY <1>1 DEF DetourInit, StubsChained, StubsOnTheWay
<1> QED
  BY <1>1, <1>2 DEF DetourInv

(* Every step keeps the inductive invariant. *)
LEMMA DetourNextInv == DetourInv /\ [DetourNext]_detourVars => DetourInv'
<1> SUFFICES ASSUME DetourInv, [DetourNext]_detourVars PROVE DetourInv'
  OBVIOUS
<1>1. ASSUME NEW f \in Native, RegisterNative(f) PROVE DetourInv'
  <2>1. CASE f \in installed /\ UNCHANGED <<entry, stubs, installed>>
    BY <1>1, <2>1 DEF RegisterNative, DetourInv, DetourTypeOK, StubsChained, StubsOnTheWay
  <2>2. CASE f \notin installed
    <3> DEFINE c == Resolve(Target[f])
    <3>1. Target[f] \in CFunction /\ DetourTypeOK
      BY NativeAssumption DEF DetourInv
    <3>2. c \in Place /\ LeadsTo(entry, Target[f], c)
      BY <3>1, Resolved
    <3>3. /\ entry[c] = Own
          /\ stubs' = Append(stubs, [native |-> f, resume |-> Resume(c)])
          /\ entry' = [p \in DOMAIN entry \cup {Len(stubs) + 1} |->
                         IF p = c THEN Len(stubs) + 1
                         ELSE IF p = Len(stubs) + 1 THEN Own ELSE entry[p]]
          /\ installed' \in {installed, installed \cup {f}}
          /\ hooked' = hooked \cup {f}
      BY <1>1, <2>2 DEF RegisterNative, Ensure
    <3> QED
      BY <3>2, <3>3, Installs
  <2> QED
    BY <1>1, <2>1, <2>2 DEF RegisterNative, Ensure
<1>2. ASSUME NEW f \in Native, UnregisterNative(f) PROVE DetourInv'
  BY <1>2 DEF UnregisterNative, DetourInv, DetourTypeOK, StubsChained, StubsOnTheWay
<1>3. CASE UNCHANGED detourVars
  BY <1>3 DEF detourVars, DetourInv, DetourTypeOK, StubsChained, StubsOnTheWay
<1> QED
  BY <1>1, <1>2, <1>3 DEF DetourNext, RegisterFails

(* The inductive invariant of the detours holds of every behaviour. *)
THEOREM DetourInvariance == DetourSpec => []DetourInv
  BY DetourInitInv, DetourNextInv, PTL DEF DetourSpec

(* Whatever is hooked and refused, a call of a native comes to the body of its
   own function (BodyIsReached): what a stub goes on with is never a jump. *)
THEOREM BodiesReached == DetourSpec => []BodyIsReached
<1>1. DetourInv => BodyIsReached
  BY Arrives DEF DetourInv, BodyIsReached
<1> QED
  BY <1>1, DetourInvariance, PTL

(* A call of a native with a hook comes to a stub that dispatches it
   (HookIsReached), whoever shares the function. *)
THEOREM HooksReached == DetourSpec => []HookIsReached
<1>1. DetourInv => HookIsReached
  <2> SUFFICES ASSUME DetourInv, NEW f \in hooked
               PROVE  \E n \in DOMAIN stubs : stubs[n].native = f /\ Past(n) \in Route(f)
    BY DEF HookIsReached
  <2>1. DetourTypeOK /\ StubsChained /\ f \in Native
    BY DEF DetourInv, DetourTypeOK
  <2>2. PICK n \in DOMAIN stubs : stubs[n].native = f
    BY DEF DetourInv, StubsOnTheWay
  <2>3. LeadsTo(entry, Target[f], n) /\ n \in Place
    BY <2>2 DEF DetourInv, StubsOnTheWay, Place
  <2>4. Past(n) \in Route(f)
    BY <2>1, <2>3, ComesThrough
  <2> QED
    BY <2>2, <2>4
<1> QED
  BY <1>1, DetourInvariance, PTL
=============================================================================
