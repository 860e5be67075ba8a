------------------------ MODULE RunnerProtocolProofs ------------------------
(***************************************************************************)
(* Proofs about RunnerProtocol, for every number of executions and of      *)
(* operations, every budget, pipe capacity and recycle threshold.          *)
(***************************************************************************)
EXTENDS RunnerProtocol, FiniteSetTheorems, SequenceTheorems, TLAPS

\* The lines of a pipe, whatever their order.
Elems(s) == {s[i] : i \in 1 .. Len(s)}

\* No two lines of a pipe are about the same operation.
OncePerSeq(s) == \A i, j \in 1 .. Len(s) : s[i].seq = s[j].seq => i = j

AnswerTypes == {"done", "error", "bad"}
CallTypes == {"tool", "internal", "inline"}

\* Lines up to and including the first answer are those of execution e.
OwnUpToAnswer(s, e) ==
    \A i \in 1 .. Len(s) :
        s[i].exec = e \/ \E j \in 1 .. i - 1 : s[j].type \in AnswerTypes

HasAnswer(s) == \E i \in 1 .. Len(s) : s[i].type \in AnswerTypes

-----------------------------------------------------------------------------
\* What TypeOK needs to be inductive: calls and internal count the host calls in
\* flight, and none is in flight outside an execution.
Counted ==
    /\ IsFiniteSet(pending)
    /\ Cardinality(InFlight("tool")) <= calls
    /\ Cardinality(InFlight("internal")) <= internal
    /\ dphase \in {"idle", "starting"} => pending = {}

\* The reply to the last host call in flight arms the watch, so nothing else may be
\* in flight while it is written.
Watch ==
    /\ SettlementSound
    /\ dphase \in {"idle", "starting"} => ~settling
    /\ dphase = "replying" /\ reply.arm => pending = {}

\* Where all code awaits its operations, the loop and the runner are in step: they
\* rest, a Start is on its way, an execution runs, or its answer is on its way.
Resting ==
    /\ dphase \in {"idle", "starting"}
    /\ rphase \in {"parked", "dead"}
    /\ rops = {} /\ rseq = 0 /\ pending = {}
    /\ stdin = << >> /\ stdout = << >>

Handed ==
    /\ dphase = "loop"
    /\ rphase \in {"parked", "dead"}
    /\ rops = {} /\ rseq = 0 /\ pending = {}
    /\ stdin = << Start(exec) >> /\ stdout = << >>

\* Every operation under way is one of this execution that its code still awaits,
Outstanding ==
    /\ \A m \in Elems(stdin) : m.type = "reply" /\ m.exec = exec /\ m.seq \in rops
    /\ \A m \in Elems(stdout) : m.type \in CallTypes /\ m.exec = exec /\ m.seq \in rops
    /\ \A call \in pending : call.exec = exec /\ call.seq \in rops
    /\ dphase = "replying" => reply.exec = exec /\ reply.seq \in rops
    /\ \A s \in rops : s < rseq

\* and is in one place: asked, in flight, being answered or answered.
OnePlace ==
    /\ OncePerSeq(stdin)
    /\ OncePerSeq(stdout)
    /\ \A c, d \in pending : c.seq = d.seq => c = d
    /\ \A m \in Elems(stdin), n \in Elems(stdout) : m.seq # n.seq
    /\ \A m \in Elems(stdin), c \in pending : m.seq # c.seq
    /\ \A n \in Elems(stdout), c \in pending : n.seq # c.seq
    /\ dphase = "replying" =>
           /\ \A m \in Elems(stdin) : m.seq # reply.seq
           /\ \A n \in Elems(stdout) : n.seq # reply.seq
           /\ \A c \in pending : c.seq # reply.seq

Running ==
    /\ dphase \in {"loop", "replying"}
    /\ rphase \in {"jobs", "reading", "dead"}
    /\ rexec = exec
    /\ Outstanding
    /\ OnePlace

Answered ==
    /\ dphase = "loop"
    /\ rphase \in {"parked", "dead"}
    /\ rexec = exec
    /\ rops = {} /\ rseq = 0 /\ pending = {}
    /\ stdin = << >>
    /\ Len(stdout) = 1 /\ stdout[1].type \in AnswerTypes /\ stdout[1].exec = exec

InStep == awaits => Resting \/ Handed \/ Running \/ Answered

\* The first execution on a process meets no line of another one before its answer,
\* whatever its code does with its promises.
FirstIdle ==
    /\ dphase \in {"idle", "starting"}
    /\ rphase \in {"parked", "dead"}
    /\ stdin = << >> /\ stdout = << >>

FirstHanded ==
    /\ dphase = "loop" /\ pending = {}
    /\ rphase \in {"parked", "dead"}
    /\ stdin = << Start(exec) >> /\ stdout = << >>

FirstRuns ==
    /\ dphase \in {"loop", "replying"}
    /\ rphase \in {"jobs", "reading", "dead"}
    /\ rexec = exec
    /\ \A m \in Elems(stdin) : m.type # "start"
    /\ OwnUpToAnswer(stdout, exec)

FirstAnswered ==
    /\ dphase \in {"loop", "replying"}
    /\ rphase \in {"parked", "dead"}
    /\ \A m \in Elems(stdin) : m.type # "start"
    /\ OwnUpToAnswer(stdout, exec)
    /\ HasAnswer(stdout)

FirstClean == served = 0 => FirstIdle \/ FirstHanded \/ FirstRuns \/ FirstAnswered

\* The inductive invariant.
ProtocolInv ==
    /\ TypeOK
    /\ Counted
    /\ Watch
    /\ InStep
    /\ FirstClean
    /\ AwaitedOwnAnswer

-----------------------------------------------------------------------------
\* Lemmas about the pipes

\* What the writer of a pipe adds.
LEMMA AppendLine ==
    ASSUME NEW S, NEW s \in Seq(S), NEW x \in S
    PROVE  /\ Append(s, x) \in Seq(S)
           /\ Len(Append(s, x)) = Len(s) + 1
           /\ Elems(Append(s, x)) = Elems(s) \cup {x}
  <1>1. /\ Append(s, x) \in Seq(S)
        /\ Len(Append(s, x)) = Len(s) + 1
        /\ \A i \in 1 .. Len(s) : Append(s, x)[i] = s[i]
        /\ Append(s, x)[Len(s) + 1] = x
    BY AppendProperties
  <1>2. Len(s) \in Nat
    BY LenProperties
  <1>3. 1 .. Len(s) + 1 = (1 .. Len(s)) \cup {Len(s) + 1}
    BY <1>2
  <1>4. Elems(Append(s, x)) = Elems(s) \cup {x}
    BY <1>1, <1>2, <1>3 DEF Elems
  <1> QED
    BY <1>1, <1>4

\* What the reader of a pipe takes away and leaves.
LEMMA TailLine ==
    ASSUME NEW S, NEW s \in Seq(S), s # << >>
    PROVE  /\ Head(s) \in S /\ Tail(s) \in Seq(S)
           /\ Len(Tail(s)) = Len(s) - 1
           /\ Head(s) \in Elems(s)
           /\ Elems(Tail(s)) \subseteq Elems(s)
           /\ Head(s) = s[1]
           /\ \A i \in 1 .. Len(s) - 1 : Tail(s)[i] = s[i + 1]
  <1>1. /\ Head(s) \in S /\ Tail(s) \in Seq(S)
        /\ Len(Tail(s)) = Len(s) - 1
        /\ \A i \in 1 .. Len(Tail(s)) : Tail(s)[i] = s[i + 1]
        /\ Head(s) = s[1]
    BY HeadTailProperties
  <1>2. Len(s) \in Nat \ {0}
    BY EmptySeq, LenProperties
  <1> QED
    BY <1>1, <1>2 DEF Elems

LEMMA NoLine ==
    /\ Elems(<< >>) = {} /\ OncePerSeq(<< >>)
    /\ \A e : OwnUpToAnswer(<< >>, e)
  BY DEF Elems, OncePerSeq, OwnUpToAnswer

LEMMA NoElems ==
    ASSUME NEW S, NEW s \in Seq(S), Elems(s) = {}
    PROVE  s = << >>
  <1>1. Len(s) = 0
    BY LenProperties DEF Elems
  <1> QED
    BY <1>1, EmptySeq

\* A line about an operation no other line is about keeps the lines apart.
LEMMA OnceAppend ==
    ASSUME NEW S, NEW s \in Seq(S), NEW x \in S, OncePerSeq(s),
           \A m \in Elems(s) : m.seq # x.seq
    PROVE  OncePerSeq(Append(s, x))
  <1>1. /\ Len(Append(s, x)) = Len(s) + 1
        /\ \A i \in 1 .. Len(s) : Append(s, x)[i] = s[i]
        /\ Append(s, x)[Len(s) + 1] = x
    BY AppendProperties
  <1>2. Len(s) \in Nat
    BY LenProperties
  <1>3. \A i \in 1 .. Len(s) : s[i].seq # x.seq
    BY DEF Elems
  <1>4. SUFFICES ASSUME NEW i \in 1 .. Len(s) + 1, NEW j \in 1 .. Len(s) + 1,
                        Append(s, x)[i].seq = Append(s, x)[j].seq
                 PROVE  i = j
    BY <1>1 DEF OncePerSeq
  <1>5. CASE i \in 1 .. Len(s) /\ j \in 1 .. Len(s)
    BY <1>1, <1>4, <1>5 DEF OncePerSeq
  <1>6. CASE i \in 1 .. Len(s) /\ j = Len(s) + 1
    BY <1>1, <1>3, <1>4, <1>6
  <1>7. CASE i = Len(s) + 1 /\ j \in 1 .. Len(s)
    BY <1>1, <1>3, <1>4, <1>7
  <1> QED
    BY <1>2, <1>5, <1>6, <1>7

\* A line read leaves none about the same operation behind.
LEMMA OnceTail ==
    ASSUME NEW S, NEW s \in Seq(S), s # << >>, OncePerSeq(s)
    PROVE  /\ OncePerSeq(Tail(s))
           /\ \A m \in Elems(Tail(s)) : m.seq # Head(s).seq
  <1>1. Len(s) \in Nat \ {0}
    BY EmptySeq, LenProperties
  <1>2. /\ Len(Tail(s)) = Len(s) - 1
        /\ Head(s) = s[1]
        /\ \A i \in 1 .. Len(s) - 1 : Tail(s)[i] = s[i + 1]
    BY TailLine
  <1>3. OncePerSeq(Tail(s))
    BY <1>1, <1>2 DEF OncePerSeq
  <1>4. \A m \in Elems(Tail(s)) : m.seq # Head(s).seq
    BY <1>1, <1>2 DEF OncePerSeq, Elems
  <1> QED
    BY <1>3, <1>4

\* A line of another execution comes after an answer.
LEMMA OwnAppend ==
    ASSUME NEW S, NEW s \in Seq(S), NEW x \in S, NEW e, OwnUpToAnswer(s, e),
           x.exec = e \/ HasAnswer(s)
    PROVE  /\ OwnUpToAnswer(Append(s, x), e)
           /\ HasAnswer(s) \/ x.type \in AnswerTypes => HasAnswer(Append(s, x))
  <1>1. /\ Len(Append(s, x)) = Len(s) + 1
        /\ \A i \in 1 .. Len(s) : Append(s, x)[i] = s[i]
        /\ Append(s, x)[Len(s) + 1] = x
    BY AppendProperties
  <1>2. Len(s) \in Nat
    BY LenProperties
  <1>3. HasAnswer(s) \/ x.type \in AnswerTypes => HasAnswer(Append(s, x))
    BY <1>1, <1>2 DEF HasAnswer
  <1>4. ASSUME NEW i \in 1 .. Len(s) + 1
        PROVE  \/ Append(s, x)[i].exec = e
               \/ \E j \in 1 .. i - 1 : Append(s, x)[j].type \in AnswerTypes
    <2>1. CASE i \in 1 .. Len(s)
      <3>1. \A j \in 1 .. i - 1 : j \in 1 .. Len(s)
        BY <1>2, <2>1
      <3> QED
        BY <1>1, <2>1, <3>1 DEF OwnUpToAnswer
    <2>2. CASE i = Len(s) + 1
      BY <1>1, <1>2, <2>2 DEF HasAnswer
    <2> QED
      BY <1>2, <2>1, <2>2
  <1> QED
    BY <1>1, <1>3, <1>4 DEF OwnUpToAnswer

\* The line read is the execution's own, and so is the rest unless it was an answer.
LEMMA OwnTail ==
    ASSUME NEW S, NEW s \in Seq(S), NEW e, s # << >>, OwnUpToAnswer(s, e)
    PROVE  /\ Head(s).exec = e
           /\ Head(s).type \notin AnswerTypes =>
                 /\ OwnUpToAnswer(Tail(s), e)
                 /\ HasAnswer(s) => HasAnswer(Tail(s))
  <1>1. Len(s) \in Nat \ {0}
    BY EmptySeq, LenProperties
  <1>2. /\ Len(Tail(s)) = Len(s) - 1
        /\ Head(s) = s[1]
        /\ \A i \in 1 .. Len(s) - 1 : Tail(s)[i] = s[i + 1]
    BY TailLine
  <1>3. Head(s).exec = e
    BY <1>1, <1>2 DEF OwnUpToAnswer
  <1>4. ASSUME Head(s).type \notin AnswerTypes, NEW i \in 1 .. Len(s) - 1
        PROVE  \/ Tail(s)[i].exec = e
               \/ \E j \in 1 .. i - 1 : Tail(s)[j].type \in AnswerTypes
    <2>1. s[i + 1].exec = e \/ \E j \in 1 .. i : s[j].type \in AnswerTypes
      BY <1>1 DEF OwnUpToAnswer
    <2>2. ASSUME NEW j \in 1 .. i, s[j].type \in AnswerTypes
          PROVE  j - 1 \in 1 .. i - 1 /\ Tail(s)[j - 1].type \in AnswerTypes
      <3>1. j # 1
        BY <1>2, <1>4, <2>2
      <3> QED
        BY <1>1, <1>2, <2>2, <3>1
    <2> QED
      BY <1>1, <1>2, <2>1, <2>2
  <1>5. ASSUME Head(s).type \notin AnswerTypes, HasAnswer(s)
        PROVE  HasAnswer(Tail(s))
    <2>1. PICK j \in 1 .. Len(s) : s[j].type \in AnswerTypes
      BY <1>5 DEF HasAnswer
    <2>2. j # 1
      BY <1>2, <1>5, <2>1
    <2>3. j - 1 \in 1 .. Len(s) - 1 /\ Tail(s)[j - 1] = s[j]
      BY <1>1, <1>2, <2>2
    <2> QED
      BY <1>2, <2>1, <2>3 DEF HasAnswer
  <1> QED
    BY <1>2, <1>3, <1>4, <1>5 DEF OwnUpToAnswer

-----------------------------------------------------------------------------
\* Types

\* A line's fields; a reply, and an operation taken from a line, are made of them.
LEMMA LineFields ==
    ASSUME TypeOK, NEW m \in Lines
    PROVE  /\ m.exec \in 0 .. MaxExec /\ m.seq \in 0 .. MaxOps
           /\ \A arm \in BOOLEAN :
                 ReplyTo(m, arm) \in [seq : 0 .. MaxOps, exec : 0 .. MaxExec, arm : BOOLEAN]
           /\ \A kind \in {"tool", "internal", "canned"} :
                 Op(m, kind) \in [seq : 0 .. MaxOps, exec : 0 .. MaxExec,
                                  kind : {"tool", "internal", "canned"}]
  BY DEF Lines, ReplyTo, Op

\* The head of a pipe is a line.
LEMMA PipeHeads ==
    ASSUME TypeOK
    PROVE  /\ stdin # << >> => /\ Head(stdin) \in Lines
                               /\ Tail(stdin) \in Seq(Lines)
                               /\ Len(Tail(stdin)) = Len(stdin) - 1
           /\ stdout # << >> => /\ Head(stdout) \in Lines
                                /\ Tail(stdout) \in Seq(Lines)
                                /\ Len(Tail(stdout)) = Len(stdout) - 1
  BY TailLine DEF TypeOK

\* The part of TypeOK about the loop's own variables.
DriveTypes ==
    /\ dphase \in {"idle", "starting", "loop", "replying"}
    /\ exec \in 0 .. MaxExec
    /\ settling \in BOOLEAN
    /\ reply \in [seq : 0 .. MaxOps, exec : 0 .. MaxExec, arm : BOOLEAN]
    /\ result \in [Execs -> [outcome : {"none", "completed", "error", "unhealthy"},
                             from : 0 .. MaxExec, first : BOOLEAN]]
    /\ awaits \in Habits

\* How an execution may end keeps the loop's variables in their types.
LEMMA EndDriveTypes ==
    ASSUME TypeOK, NEW o \in {"completed", "error", "unhealthy"},
           NEW from \in 0 .. MaxExec, EndDrive(o, from), awaits' = awaits
    PROVE  DriveTypes'
  <1>1. NoReply \in [seq : 0 .. MaxOps, exec : 0 .. MaxExec, arm : BOOLEAN]
    BY ProtocolAssumption DEF NoReply
  <1>2. (served = 0) \in BOOLEAN
    OBVIOUS
  <1>3. [outcome |-> o, from |-> from, first |-> served = 0]
          \in [outcome : {"none", "completed", "error", "unhealthy"},
               from : 0 .. MaxExec, first : BOOLEAN]
    BY <1>2
  <1> QED
    BY <1>1, <1>3 DEF TypeOK, EndDrive, DriveTypes

LEMMA DriveTypesStep ==
    ASSUME TypeOK, [Next]_vars
    PROVE  DriveTypes'
  <1> USE DEF DriveTypes
  <1>1. CASE UNCHANGED vars
    BY <1>1 DEF TypeOK, vars, driveVars
  <1>2. CASE DriveStep /\ awaits' = awaits
    <2>0. exec \in 0 .. MaxExec
      BY DEF TypeOK
    <2>1. CASE BeginExec
      BY <1>2, <2>1, ProtocolAssumption DEF TypeOK, BeginExec
    <2>2. CASE WriteStart
      BY <1>2, <2>2 DEF TypeOK, WriteStart
    <2>3. CASE DetectDeath
      BY <1>2, <2>0, <2>3, EndDriveTypes DEF DetectDeath, Unhealthy
    <2>4. CASE ReadToolCall
      BY <1>2, <2>4, PipeHeads, LineFields DEF TypeOK, ReadToolCall
    <2>5. CASE ReadInternalCall
      BY <1>2, <2>5 DEF TypeOK, ReadInternalCall
    <2>6. CASE ReadInlineOp
      BY <1>2, <2>6, PipeHeads, LineFields DEF TypeOK, ReadInlineOp
    <2>7. CASE ReadBadLine
      BY <1>2, <2>0, <2>7, EndDriveTypes DEF ReadBadLine, Unhealthy
    <2>8. CASE ReadDone
      <3>1. Head(stdout).exec \in 0 .. MaxExec
        BY <2>8, PipeHeads, LineFields DEF ReadDone
      <3> QED
        BY <1>2, <2>0, <2>8, <3>1, EndDriveTypes DEF ReadDone, Unhealthy
    <2>9. CASE ReadError
      <3>1. Head(stdout).exec \in 0 .. MaxExec
        BY <2>9, PipeHeads, LineFields DEF ReadError
      <3> QED
        BY <1>2, <2>9, <3>1, EndDriveTypes DEF ReadError
    <2>10. ASSUME NEW call \in pending, CallCompletes(call)
           PROVE  DriveTypes'
      <3>1. call.seq \in 0 .. MaxOps /\ call.exec \in 0 .. MaxExec
        BY DEF TypeOK
      <3>2. (pending = {call}) \in BOOLEAN
        OBVIOUS
      <3>3. ReplyTo(call, pending = {call})
              \in [seq : 0 .. MaxOps, exec : 0 .. MaxExec, arm : BOOLEAN]
        BY <3>1, <3>2 DEF ReplyTo
      <3> QED
        BY <1>2, <2>10, <3>3 DEF TypeOK, CallCompletes
    <2>11. CASE WriteReply
      <3>1. NoReply \in [seq : 0 .. MaxOps, exec : 0 .. MaxExec, arm : BOOLEAN]
        BY ProtocolAssumption DEF NoReply
      <3>2. settling' \in BOOLEAN
        BY <2>11, Zenon DEF WriteReply
      <3> QED
        BY <1>2, <2>11, <3>1, <3>2 DEF TypeOK, WriteReply
    <2>12. CASE Timeout \/ CancelExec
      BY <1>2, <2>0, <2>12, EndDriveTypes DEF Timeout, CancelExec, Unhealthy
    <2> QED
      BY <1>2, <2>1, <2>2, <2>3, <2>4, <2>5, <2>6, <2>7, <2>8, <2>9, <2>10,
         <2>11, <2>12 DEF DriveStep
  <1>3. CASE RunnerStep /\ awaits' = awaits
    BY <1>3 DEF TypeOK, RunnerStep, RunnerReadsStart, RunnerEmits, RunnerSettles,
                RunnerAwaits, RunnerReadsReply, RunnerDies, driveVars
  <1> QED
    BY <1>1, <1>2, <1>3 DEF Next, Finished

\* The part of TypeOK about host calls, with what makes it inductive.
CallTypesOK ==
    /\ pending \subseteq [seq : 0 .. MaxOps, exec : 0 .. MaxExec,
                          kind : {"tool", "internal", "canned"}]
    /\ Cardinality(InFlight("tool")) <= MaxCalls
    /\ Cardinality(InFlight("internal")) <= MaxInternal
    /\ calls \in Nat /\ internal \in Nat
    /\ Counted

\* The host calls of one kind in a set of them.
OfKind(P, k) == {c \in P : c.kind = k}

\* The host calls of a kind in a finite set of them are finitely many.
LEMMA KindFinite ==
    ASSUME NEW P, IsFiniteSet(P), NEW k
    PROVE  /\ IsFiniteSet(OfKind(P, k))
           /\ Cardinality(OfKind(P, k)) \in Nat
  <1>1. OfKind(P, k) \subseteq P
    BY DEF OfKind
  <1> QED
    BY <1>1, FS_Subset, FS_CardinalityType

\* One more host call adds one to its kind and none to the others.
LEMMA KindAdd ==
    ASSUME NEW P, IsFiniteSet(P), NEW x, NEW k
    PROVE  /\ IsFiniteSet(P \cup {x})
           /\ Cardinality(OfKind(P \cup {x}, k))
                 <= Cardinality(OfKind(P, k)) + 1
           /\ x.kind # k => OfKind(P \cup {x}, k) = OfKind(P, k)
  <1>1. IsFiniteSet(OfKind(P, k)) /\ Cardinality(OfKind(P, k)) \in Nat
    BY KindFinite
  <1>2. IsFiniteSet(P \cup {x})
    BY FS_AddElement
  <1>3. x.kind # k => OfKind(P \cup {x}, k) = OfKind(P, k)
    BY DEF OfKind
  <1>4. x.kind = k => OfKind(P \cup {x}, k) = OfKind(P, k) \cup {x}
    BY DEF OfKind
  <1>5. \/ Cardinality(OfKind(P, k) \cup {x}) = Cardinality(OfKind(P, k))
        \/ Cardinality(OfKind(P, k) \cup {x}) = Cardinality(OfKind(P, k)) + 1
    BY <1>1, FS_AddElement
  <1>6. Cardinality(OfKind(P \cup {x}, k)) <= Cardinality(OfKind(P, k)) + 1
    <2>1. CASE x.kind = k
      BY <1>1, <1>4, <1>5, <2>1
    <2>2. CASE x.kind # k
      BY <1>1, <1>3, <2>2
    <2> QED
      BY <2>1, <2>2
  <1> QED
    BY <1>2, <1>3, <1>6

\* Fewer host calls are fewer of each kind.
LEMMA KindLess ==
    ASSUME NEW P, IsFiniteSet(P), NEW Q \in SUBSET P, NEW k
    PROVE  /\ IsFiniteSet(Q)
           /\ Cardinality(OfKind(Q, k)) <= Cardinality(OfKind(P, k))
  <1>1. IsFiniteSet(OfKind(P, k))
    BY KindFinite
  <1>2. OfKind(Q, k) \subseteq OfKind(P, k)
    BY DEF OfKind
  <1> QED
    BY <1>1, <1>2, FS_Subset

LEMMA InFlightKind ==
    /\ \A k : InFlight(k) = OfKind(pending, k)
    /\ \A k : InFlight(k)' = OfKind(pending', k)
  BY DEF InFlight, OfKind

LEMMA NoCalls ==
    ASSUME pending' = {}, calls' \in Nat, internal' \in Nat
    PROVE  CallTypesOK'
  <1>1. IsFiniteSet(pending') /\ InFlight("tool")' = {} /\ InFlight("internal")' = {}
    BY FS_EmptySet DEF InFlight
  <1>2. Cardinality({}) = 0
    BY FS_EmptySet
  <1> QED
    BY <1>1, <1>2, ProtocolAssumption DEF CallTypesOK, Counted

LEMMA CallTypesStep ==
    ASSUME TypeOK, Counted, [Next]_vars
    PROVE  CallTypesOK'
  <1>0. CallTypesOK
    BY DEF TypeOK, CallTypesOK
  <1>n. /\ Cardinality(InFlight("tool")) \in Nat
        /\ Cardinality(InFlight("internal")) \in Nat
    BY <1>0, KindFinite, InFlightKind DEF CallTypesOK, Counted
  <1>1. ASSUME UNCHANGED << pending, calls, internal >>,
               dphase' \in {"idle", "starting"} => dphase \in {"idle", "starting"}
        PROVE  CallTypesOK'
    BY <1>0, <1>1 DEF CallTypesOK, Counted, InFlight
  <1>e. ASSUME NEW o, NEW from, EndDrive(o, from)
        PROVE  CallTypesOK'
    BY <1>0, <1>e, NoCalls DEF EndDrive, CallTypesOK
  <1>2. CASE BeginExec
    BY <1>0, <1>2, NoCalls DEF BeginExec, CallTypesOK, Counted
  <1>3. CASE ReadToolCall
    <2>1. CASE calls + 1 <= MaxCalls /\ pending' = pending \cup {Op(Head(stdout), "tool")}
      <3> DEFINE x == Op(Head(stdout), "tool")
      <3>1. x.kind = "tool" /\ x \in [seq : 0 .. MaxOps, exec : 0 .. MaxExec,
                                      kind : {"tool", "internal", "canned"}]
        BY <1>3, PipeHeads, LineFields DEF ReadToolCall, Op
      <3> HIDE DEF x
      <3>2. /\ IsFiniteSet(pending \cup {x})
            /\ Cardinality(OfKind(pending \cup {x}, "tool"))
                  <= Cardinality(OfKind(pending, "tool")) + 1
        BY <1>0, KindAdd DEF CallTypesOK, Counted
      <3>3. OfKind(pending \cup {x}, "internal")
              = OfKind(pending, "internal")
        BY <3>1 DEF OfKind
      <3>4. /\ IsFiniteSet(OfKind(pending \cup {x}, "tool"))
            /\ Cardinality(OfKind(pending \cup {x}, "tool")) \in Nat
        BY <3>2, KindFinite
      <3>5. /\ pending' = pending \cup {x} /\ calls' = calls + 1
            /\ internal' = internal /\ dphase' = "loop"
        <4>1. ~(calls + 1 > MaxCalls)
          BY <1>0, <2>1, ProtocolAssumption DEF CallTypesOK
        <4> QED
          BY <1>3, <2>1, <4>1 DEF ReadToolCall, x
      <3> QED
        BY <1>0, <1>n, <2>1, <3>1, <3>2, <3>3, <3>4, <3>5, InFlightKind, ProtocolAssumption
           DEF CallTypesOK, Counted
    <2>2. CASE UNCHANGED pending
      <3>1. /\ calls' = calls + 1 /\ internal' = internal
            /\ dphase' \in {"loop", "replying"}
        BY <1>3 DEF ReadToolCall
      <3> QED
        BY <1>0, <1>n, <2>2, <3>1, InFlightKind, ProtocolAssumption
           DEF CallTypesOK, Counted
    <2> QED
      BY <1>3, <2>1, <2>2 DEF ReadToolCall
  <1>4. CASE ReadInternalCall
    <2>1. ASSUME NEW k \in {"internal", "canned"},
                 k = "internal" => internal + 1 <= MaxInternal,
                 pending' = pending \cup {Op(Head(stdout), k)}
          PROVE  CallTypesOK'
      <3> DEFINE x == Op(Head(stdout), k)
      <3>1. x.kind = k /\ x \in [seq : 0 .. MaxOps, exec : 0 .. MaxExec,
                                 kind : {"tool", "internal", "canned"}]
        BY <1>4, PipeHeads, LineFields DEF ReadInternalCall, Op
      <3> HIDE DEF x
      <3>2. /\ IsFiniteSet(pending \cup {x})
            /\ Cardinality(OfKind(pending \cup {x}, "internal"))
                  <= Cardinality(OfKind(pending, "internal")) + 1
            /\ k # "internal" => OfKind(pending \cup {x}, "internal")
                                    = OfKind(pending, "internal")
        BY <1>0, <3>1, KindAdd DEF CallTypesOK, Counted
      <3>3. OfKind(pending \cup {x}, "tool") = OfKind(pending, "tool")
        BY <3>1 DEF OfKind
      <3>4. /\ IsFiniteSet(OfKind(pending \cup {x}, "internal"))
            /\ Cardinality(OfKind(pending \cup {x}, "internal")) \in Nat
        BY <3>2, KindFinite
      <3>5. /\ pending' = pending \cup {x} /\ internal' = internal + 1
            /\ calls' = calls /\ dphase' = "loop"
        BY <1>4, <2>1 DEF ReadInternalCall, x
      <3> QED
        BY <1>0, <1>n, <2>1, <3>1, <3>2, <3>3, <3>4, <3>5, InFlightKind, ProtocolAssumption
           DEF CallTypesOK, Counted
    <2> QED
      BY <1>4, <2>1 DEF ReadInternalCall
  <1>5. ASSUME NEW call \in pending, CallCompletes(call)
        PROVE  CallTypesOK'
    <2>1. pending' \in SUBSET pending /\ dphase' = "replying"
          /\ UNCHANGED << calls, internal >>
      BY <1>5 DEF CallCompletes
    <2>2. /\ IsFiniteSet(pending')
          /\ Cardinality(OfKind(pending', "tool"))
                <= Cardinality(OfKind(pending, "tool"))
          /\ Cardinality(OfKind(pending', "internal"))
                <= Cardinality(OfKind(pending, "internal"))
      BY <1>0, <2>1, KindLess DEF CallTypesOK, Counted
    <2>3. /\ Cardinality(OfKind(pending', "tool")) \in Nat
          /\ Cardinality(OfKind(pending', "internal")) \in Nat
      BY <2>2, KindFinite
    <2> QED
      BY <1>0, <1>n, <2>1, <2>2, <2>3, InFlightKind, ProtocolAssumption
         DEF CallTypesOK, Counted
  <1>6. CASE DetectDeath \/ ReadBadLine \/ ReadDone \/ ReadError \/ Timeout \/ CancelExec
    BY <1>6, <1>e DEF DetectDeath, ReadBadLine, ReadDone, ReadError, Timeout,
                      CancelExec, Unhealthy
  <1>7. CASE WriteStart \/ ReadInlineOp \/ WriteReply
    BY <1>1, <1>7 DEF WriteStart, ReadInlineOp, WriteReply
  <1>8. CASE RunnerStep
    BY <1>1, <1>8 DEF RunnerStep, RunnerReadsStart, RunnerEmits, RunnerSettles,
                      RunnerAwaits, RunnerReadsReply, RunnerDies, driveVars
  <1>9. CASE UNCHANGED vars
    BY <1>1, <1>9 DEF vars, driveVars
  <1> QED
    BY <1>2, <1>3, <1>4, <1>5, <1>6, <1>7, <1>8, <1>9 DEF Next, DriveStep, Finished

\* The part of TypeOK about the pipes and the runner.
RunnerTypes ==
    /\ stdin \in Seq(Lines) /\ Len(stdin) <= PipeCap
    /\ stdout \in Seq(Lines) /\ Len(stdout) <= PipeCap
    /\ rphase \in {"parked", "jobs", "reading", "dead"}
    /\ rexec \in 0 .. MaxExec
    /\ rops \subseteq 0 .. MaxOps
    /\ rseq \in 0 .. MaxOps
    /\ served \in 0 .. RecycleAfter - 1

LEMMA FreshRunnerTypes ==
    ASSUME FreshRunner
    PROVE  RunnerTypes'
  <1>1. << >> \in Seq(Lines) /\ Len(<< >>) = 0
    BY EmptySeq
  <1> QED
    BY <1>1, ProtocolAssumption DEF FreshRunner, RunnerTypes

LEMMA ReleaseRunnerTypes ==
    ASSUME RunnerTypes, NEW rest \in Seq(Lines), Len(rest) <= PipeCap, ReleaseRunner(rest)
    PROVE  RunnerTypes'
  <1>1. CASE FreshRunner
    BY <1>1, FreshRunnerTypes
  <1>2. CASE served + 1 < RecycleAfter /\ served' = served + 1
             /\ stdout' = rest /\ UNCHANGED << stdin, rphase, rexec, rops, rseq >>
    BY <1>2, ProtocolAssumption DEF RunnerTypes
  <1> QED
    BY <1>1, <1>2 DEF ReleaseRunner

\* A line that fits in a pipe keeps it a pipe of lines.
LEMMA PipeAppend ==
    ASSUME NEW s \in Seq(Lines), Len(s) < PipeCap, NEW m \in Lines
    PROVE  Append(s, m) \in Seq(Lines) /\ Len(Append(s, m)) <= PipeCap
  <1>1. Append(s, m) \in Seq(Lines) /\ Len(Append(s, m)) = Len(s) + 1
    BY AppendLine
  <1>2. Len(s) \in Nat
    BY LenProperties
  <1> QED
    BY <1>1, <1>2, ProtocolAssumption

LEMMA RunnerTypesStep ==
    ASSUME TypeOK, [Next]_vars
    PROVE  RunnerTypes'
  <1>0. RunnerTypes /\ exec \in 0 .. MaxExec
    BY DEF TypeOK, RunnerTypes
  <1>l. Len(stdin) \in Nat /\ Len(stdout) \in Nat
    BY <1>0, LenProperties DEF RunnerTypes
  <1>f. CASE Unhealthy
    BY <1>f, FreshRunnerTypes DEF Unhealthy
  <1>1. CASE BeginExec
    BY <1>0, <1>1 DEF BeginExec, RunnerTypes, runnerVars
  <1>2. CASE WriteStart
    <2>1. Start(exec) \in Lines
      BY <1>0, ProtocolAssumption DEF Start, Lines
    <2> QED
      BY <1>0, <1>2, <2>1, PipeAppend DEF WriteStart, RunnerTypes, runnerVars
  <1>3. CASE DetectDeath \/ ReadBadLine \/ Timeout \/ CancelExec
    BY <1>3, <1>f DEF DetectDeath, ReadBadLine, Timeout, CancelExec
  <1>4. CASE ReadToolCall \/ ReadInternalCall \/ ReadInlineOp
    <2>1. stdout # << >> /\ stdout' = Tail(stdout) /\ stdin' = stdin /\ UNCHANGED runnerVars
      BY <1>4 DEF ReadToolCall, ReadInternalCall, ReadInlineOp
    <2> QED
      BY <1>0, <1>l, <2>1, PipeHeads, ProtocolAssumption DEF RunnerTypes, runnerVars
  <1>5. CASE ReadDone \/ ReadError
    <2>1. stdout # << >> /\ (Unhealthy \/ ReleaseRunner(Tail(stdout)))
      BY <1>5 DEF ReadDone, ReadError
    <2>2. Tail(stdout) \in Seq(Lines) /\ Len(Tail(stdout)) <= PipeCap
      BY <1>0, <1>l, <2>1, PipeHeads, ProtocolAssumption DEF RunnerTypes
    <2> QED
      BY <1>0, <1>f, <2>1, <2>2, ReleaseRunnerTypes
  <1>6. ASSUME NEW call \in pending, CallCompletes(call)
        PROVE  RunnerTypes'
    BY <1>0, <1>6 DEF CallCompletes, RunnerTypes, runnerVars
  <1>7. CASE WriteReply
    <2>1. Reply(reply) \in Lines
      BY DEF Reply, Lines, TypeOK
    <2> QED
      BY <1>0, <1>7, <2>1, PipeAppend DEF WriteReply, RunnerTypes, runnerVars
  <1>8. CASE RunnerReadsStart
    <2>1. [type |-> "error", exec |-> 0, seq |-> 0] \in Lines
      BY ProtocolAssumption DEF Lines
    <2>2. stdin # << >> /\ Head(stdin) \in Lines
      BY <1>8, PipeHeads DEF RunnerReadsStart
    <2>3. Head(stdin).exec \in 0 .. MaxExec
      BY <2>2, LineFields
    <2>4. Tail(stdin) \in Seq(Lines) /\ Len(Tail(stdin)) <= PipeCap
      BY <1>0, <1>l, <2>2, PipeHeads, ProtocolAssumption DEF RunnerTypes
    <2> QED
      BY <1>0, <1>8, <2>1, <2>3, <2>4, PipeAppend DEF RunnerReadsStart, RunnerTypes
  <1>9. ASSUME NEW kind \in {"tool", "internal", "inline"}, RunnerEmits(kind)
        PROVE  RunnerTypes'
    <2>1. Line(kind, rseq) \in Lines
      BY <1>0 DEF Line, Lines, RunnerTypes
    <2> QED
      BY <1>0, <1>9, <2>1, PipeAppend, ProtocolAssumption DEF RunnerEmits, RunnerTypes
  <1>10. ASSUME NEW t \in {"done", "error", "bad"}, RunnerSettles(t)
         PROVE  RunnerTypes'
    <2>1. Line(t, 0) \in Lines
      BY <1>0, ProtocolAssumption DEF Line, Lines, RunnerTypes
    <2> QED
      BY <1>0, <1>10, <2>1, PipeAppend, ProtocolAssumption DEF RunnerSettles, RunnerTypes
  <1>11. CASE RunnerAwaits \/ RunnerDies
    BY <1>0, <1>11 DEF RunnerAwaits, RunnerDies, RunnerTypes
  <1>12. CASE RunnerReadsReply
    <2>1. Line("error", 0) \in Lines
      BY <1>0, ProtocolAssumption DEF Line, Lines, RunnerTypes
    <2>2. Tail(stdin) \in Seq(Lines) /\ Len(Tail(stdin)) <= PipeCap
      BY <1>0, <1>l, <1>12, PipeHeads, ProtocolAssumption DEF RunnerReadsReply, RunnerTypes
    <2>3. CASE /\ rops' = rops \ {Head(stdin).seq} /\ rphase' = "jobs"
               /\ UNCHANGED << stdout, rseq >>
      BY <1>0, <1>12, <2>2, <2>3 DEF RunnerReadsReply, RunnerTypes
    <2>4. CASE /\ Len(stdout) < PipeCap /\ stdout' = Append(stdout, Line("error", 0))
               /\ rphase' = "parked" /\ rops' = {} /\ rseq' = 0
      BY <1>0, <1>12, <2>1, <2>2, <2>4, PipeAppend, ProtocolAssumption
         DEF RunnerReadsReply, RunnerTypes
    <2> QED
      BY <1>12, <2>3, <2>4 DEF RunnerReadsReply
  <1>13. CASE UNCHANGED vars
    BY <1>0, <1>13 DEF RunnerTypes, vars, runnerVars
  <1> QED
    BY <1>1, <1>2, <1>3, <1>4, <1>5, <1>6, <1>7, <1>8, <1>9, <1>10, <1>11, <1>12, <1>13
       DEF Next, DriveStep, RunnerStep, Finished

LEMMA TypeInit == Init => TypeOK /\ Counted
  <1> SUFFICES ASSUME Init PROVE TypeOK /\ Counted
    OBVIOUS
  <1>1. IsFiniteSet({}) /\ Cardinality({}) = 0
    BY FS_EmptySet
  <1>2. InFlight("tool") = {} /\ InFlight("internal") = {}
    BY DEF Init, InFlight
  <1>3. << >> \in Seq(Lines) /\ Len(<< >>) = 0
    BY EmptySeq
  <1>4. NoReply \in [seq : 0 .. MaxOps, exec : 0 .. MaxExec, arm : BOOLEAN]
    BY ProtocolAssumption DEF NoReply
  <1>5. NoResult \in [outcome : {"none", "completed", "error", "unhealthy"},
                      from : 0 .. MaxExec, first : BOOLEAN]
    BY ProtocolAssumption DEF NoResult
  <1>6. Counted
    BY <1>1, <1>2 DEF Init, Counted
  <1>7. RunnerTypes
    BY <1>3, ProtocolAssumption DEF Init, RunnerTypes
  <1>8. DriveTypes
    <2>1. /\ dphase = "idle" /\ exec = 0 /\ settling = FALSE /\ reply = NoReply
          /\ result = [e \in Execs |-> NoResult] /\ awaits \in Habits
      BY DEF Init
    <2>2. exec \in 0 .. MaxExec
      BY <2>1, ProtocolAssumption
    <2> QED
      BY <1>4, <1>5, <2>1, <2>2 DEF DriveTypes
  <1>9. CallTypesOK
    <2>1. pending = {} /\ calls = 0 /\ internal = 0
      BY DEF Init
    <2> QED
      BY <1>1, <1>2, <1>6, <2>1, ProtocolAssumption DEF CallTypesOK
  <1> QED
    BY <1>6, <1>7, <1>8, <1>9 DEF DriveTypes, CallTypesOK, RunnerTypes, TypeOK

LEMMA TypeStep == TypeOK /\ Counted /\ [Next]_vars => (TypeOK /\ Counted)'
  <1> SUFFICES ASSUME TypeOK, Counted, [Next]_vars
               PROVE  (TypeOK /\ Counted)'
    OBVIOUS
  <1>1. DriveTypes'
    BY DriveTypesStep
  <1>2. CallTypesOK'
    BY CallTypesStep
  <1>3. RunnerTypes'
    BY RunnerTypesStep
  <1> QED
    BY <1>1, <1>2, <1>3 DEF DriveTypes, CallTypesOK, RunnerTypes, TypeOK

\* Whatever the code the runner runs, and however far the loop and the runner get out
\* of step, the pipes hold lines within their capacity, a process serves fewer
\* executions than its recycle threshold, and the host calls in flight stay within the
\* two budgets (runner_drive.rs:462-470).
THEOREM ProtocolTypes == Spec => []TypeOK
  <1>1. TypeOK /\ Counted /\ [Next]_vars => (TypeOK /\ Counted)'
    BY TypeStep
  <1> QED
    BY TypeInit, <1>1, PTL DEF Spec

-----------------------------------------------------------------------------
\* The settlement watch

LEMMA WatchStep == TypeOK /\ Counted /\ Watch /\ [Next]_vars => Watch'
  <1> SUFFICES ASSUME TypeOK, Counted, Watch, [Next]_vars
               PROVE  Watch'
    OBVIOUS
  <1> USE DEF Watch, SettlementSound
  <1>e. ASSUME NEW o, NEW from, EndDrive(o, from)
        PROVE  Watch'
    BY <1>e DEF EndDrive
  <1>1. CASE BeginExec
    BY <1>1 DEF BeginExec
  <1>2. CASE WriteStart
    BY <1>2 DEF WriteStart
  <1>3. CASE DetectDeath \/ ReadBadLine \/ ReadDone \/ ReadError \/ Timeout \/ CancelExec
    BY <1>3, <1>e DEF DetectDeath, ReadBadLine, ReadDone, ReadError, Timeout,
                      CancelExec, Unhealthy
  <1>4. CASE ReadToolCall
    BY <1>4 DEF ReadToolCall, ReplyTo
  <1>5. CASE ReadInternalCall
    BY <1>5 DEF ReadInternalCall
  <1>6. CASE ReadInlineOp
    BY <1>6 DEF ReadInlineOp, ReplyTo
  <1>7. ASSUME NEW call \in pending, CallCompletes(call)
        PROVE  Watch'
    <2>1. ~settling /\ settling' = settling /\ dphase' = "replying"
      BY <1>7 DEF CallCompletes
    <2>2. reply'.arm = (pending = {call}) /\ pending' = pending \ {call}
      BY <1>7 DEF CallCompletes, ReplyTo
    <2> QED
      BY <2>1, <2>2
  <1>8. CASE WriteReply
    BY <1>8 DEF WriteReply
  <1>9. CASE RunnerStep
    BY <1>9 DEF RunnerStep, RunnerReadsStart, RunnerEmits, RunnerSettles,
                RunnerAwaits, RunnerReadsReply, RunnerDies, driveVars
  <1>10. CASE UNCHANGED vars
    BY <1>10 DEF vars, driveVars
  <1> QED
    BY <1>1, <1>2, <1>3, <1>4, <1>5, <1>6, <1>7, <1>8, <1>9, <1>10
       DEF Next, DriveStep, Finished

\* The settlement watch never runs beside a host call in flight, so the short grace
\* period never cuts a running call (runner_drive.rs:364-365, 689-693).
THEOREM ProtocolSettlementSound == Spec => []SettlementSound
  <1>1. Init => Watch
    BY DEF Init, Watch, SettlementSound
  <1>2. TypeOK /\ Counted /\ [Next]_vars => (TypeOK /\ Counted)'
    BY TypeStep
  <1>3. TypeOK /\ Counted /\ Watch /\ [Next]_vars => Watch'
    BY WatchStep
  <1>4. Watch => SettlementSound
    BY DEF Watch
  <1> QED
    BY TypeInit, <1>1, <1>2, <1>3, <1>4, PTL DEF Spec

-----------------------------------------------------------------------------
\* The loop and the runner in step

\* A killed runner and an ended drive rest.
LEMMA UnhealthyRests ==
    ASSUME Unhealthy
    PROVE  Resting'
  BY DEF Unhealthy, EndDrive, FreshRunner, Resting

LEMMA RestingStep ==
    ASSUME TypeOK, Resting, [Next]_vars
    PROVE  Resting' \/ Handed'
  <1>1. CASE BeginExec
    BY <1>1 DEF Resting, BeginExec, runnerVars
  <1>2. CASE WriteStart
    <2>1. stdin' = << Start(exec) >>
      BY <1>2 DEF WriteStart, Resting
    <2> QED
      BY <1>2, <2>1 DEF WriteStart, Resting, Handed, Start, runnerVars
  <1>3. CASE DetectDeath \/ CancelExec
    BY <1>3, UnhealthyRests DEF DetectDeath, CancelExec
  <1>4. CASE RunnerDies
    BY <1>4 DEF RunnerDies, Resting, driveVars
  <1>5. CASE UNCHANGED vars
    BY <1>5 DEF vars, driveVars, runnerVars, Resting
  <1> QED
    BY <1>1, <1>2, <1>3, <1>4, <1>5
       DEF Next, DriveStep, RunnerStep, Finished, Resting,
           ReadToolCall, ReadInternalCall, ReadInlineOp, ReadBadLine, ReadDone, ReadError,
           CallCompletes, WriteReply, Timeout, RunnerReadsStart, RunnerEmits,
           RunnerSettles, RunnerAwaits, RunnerReadsReply

LEMMA HandedStep ==
    ASSUME TypeOK, Handed, [Next]_vars
    PROVE  Resting' \/ Handed' \/ Running'
  <1>1. CASE DetectDeath \/ Timeout \/ CancelExec
    BY <1>1, UnhealthyRests DEF DetectDeath, Timeout, CancelExec
  <1>2. CASE RunnerReadsStart
    <2>1. Head(stdin) = Start(exec) /\ Tail(stdin) = << >>
      BY DEF Handed
    <2>2. /\ stdin' = << >> /\ stdout' = << >> /\ rphase' = "jobs" /\ rexec' = exec
          /\ UNCHANGED << dphase, exec, pending, rops, rseq >>
      BY <1>2, <2>1 DEF RunnerReadsStart, Handed, Start, driveVars
    <2>3. Elems(stdin') = {} /\ Elems(stdout') = {}
          /\ OncePerSeq(stdin') /\ OncePerSeq(stdout')
      BY <2>2, NoLine
    <2> QED
      BY <2>2, <2>3 DEF Handed, Running, Outstanding, OnePlace
  <1>3. CASE RunnerDies
    BY <1>3 DEF RunnerDies, Handed, Start, driveVars
  <1>4. CASE UNCHANGED vars
    BY <1>4 DEF vars, driveVars, runnerVars, Handed, Start
  <1> QED
    BY <1>1, <1>2, <1>3, <1>4
       DEF Next, DriveStep, RunnerStep, Finished, Handed, BeginExec, WriteStart,
           ReadToolCall, ReadInternalCall, ReadInlineOp, ReadBadLine, ReadDone, ReadError,
           CallCompletes, WriteReply, RunnerEmits, RunnerSettles, RunnerAwaits,
           RunnerReadsReply

LEMMA AnsweredStep ==
    ASSUME TypeOK, Answered, [Next]_vars
    PROVE  Resting' \/ Answered'
  <1>0. stdout # << >> /\ Head(stdout) = stdout[1] /\ Tail(stdout) = << >>
    <2>1. stdout # << >>
      BY DEF Answered
    <2>2. Tail(stdout) \in Seq(Lines) /\ Len(Tail(stdout)) = 0
      BY <2>1, PipeHeads DEF Answered
    <2> QED
      BY <2>1, <2>2, EmptySeq, TailLine DEF TypeOK
  <1>1. CASE DetectDeath \/ ReadBadLine \/ Timeout \/ CancelExec
    BY <1>1, UnhealthyRests DEF DetectDeath, ReadBadLine, Timeout, CancelExec
  <1>2. CASE ReadDone \/ ReadError
    <2>1. Unhealthy \/ \E o, from : EndDrive(o, from) /\ ReleaseRunner(Tail(stdout))
      BY <1>2 DEF ReadDone, ReadError
    <2>2. ASSUME NEW o, NEW from, EndDrive(o, from), ReleaseRunner(<< >>)
          PROVE  Resting'
      BY <2>2 DEF EndDrive, ReleaseRunner, FreshRunner, Answered, Resting
    <2> QED
      BY <1>0, <2>1, <2>2, UnhealthyRests
  <1>3. CASE RunnerDies
    BY <1>3 DEF RunnerDies, Answered, driveVars
  <1>4. CASE UNCHANGED vars
    BY <1>4 DEF vars, driveVars, runnerVars, Answered
  <1> QED
    BY <1>0, <1>1, <1>2, <1>3, <1>4
       DEF Next, DriveStep, RunnerStep, Finished, Answered, AnswerTypes, BeginExec,
           WriteStart, ReadToolCall, ReadInternalCall, ReadInlineOp, CallCompletes,
           WriteReply, RunnerReadsStart, RunnerEmits, RunnerSettles, RunnerAwaits,
           RunnerReadsReply

\* The loop reads the request of an operation: it is in flight, or being answered, and
\* no longer in the pipe.
LEMMA RunningReads ==
    ASSUME TypeOK, Running,
           ReadToolCall \/ ReadInternalCall \/ ReadInlineOp
    PROVE  Running'
  <1> DEFINE x == Head(stdout)
  <1>1. /\ dphase = "loop" /\ stdout # << >> /\ stdout' = Tail(stdout) /\ stdin' = stdin
        /\ exec' = exec /\ UNCHANGED runnerVars
        /\ \/ /\ \E kind : pending' = pending \cup {Op(x, kind)}
              /\ dphase' = dphase /\ reply' = reply
           \/ pending' = pending /\ dphase' = "replying" /\ reply' = ReplyTo(x, FALSE)
    BY DEF ReadToolCall, ReadInternalCall, ReadInlineOp
  <1>2. /\ x \in Elems(stdout) /\ Elems(Tail(stdout)) \subseteq Elems(stdout)
        /\ OncePerSeq(Tail(stdout))
        /\ \A m \in Elems(Tail(stdout)) : m.seq # x.seq
    BY <1>1, TailLine, OnceTail DEF TypeOK, Running, OnePlace
  <1> HIDE DEF x
  <1>3. /\ Elems(stdin') = Elems(stdin) /\ OncePerSeq(stdin')
        /\ Elems(stdout') \subseteq Elems(stdout) /\ OncePerSeq(stdout')
        /\ \A m \in Elems(stdout') : m.seq # x.seq
    BY <1>1, <1>2 DEF Running, OnePlace
  <1>4. /\ x.exec = exec /\ x.seq \in rops
        /\ \A m \in Elems(stdin) : m.seq # x.seq
        /\ \A c \in pending : c.seq # x.seq
    BY <1>2 DEF Running, Outstanding, OnePlace
  <1>5. CASE \E kind : pending' = pending \cup {Op(x, kind)} /\ dphase' = dphase
    <2>1. PICK kind : pending' = pending \cup {Op(x, kind)} /\ dphase' = dphase
      BY <1>5
    <2>2. Op(x, kind).seq = x.seq /\ Op(x, kind).exec = x.exec
      BY DEF Op
    <2>3. Outstanding'
      BY <1>1, <1>3, <1>4, <2>1, <2>2 DEF Running, Outstanding, runnerVars
    <2>4. OnePlace'
      BY <1>1, <1>3, <1>4, <2>1, <2>2 DEF Running, OnePlace
    <2> QED
      BY <1>1, <2>1, <2>3, <2>4 DEF Running, runnerVars
  <1>6. CASE pending' = pending /\ dphase' = "replying" /\ reply' = ReplyTo(x, FALSE)
    <2>1. reply'.seq = x.seq /\ reply'.exec = x.exec
      BY <1>6 DEF ReplyTo
    <2>2. Outstanding'
      BY <1>1, <1>3, <1>4, <1>6, <2>1 DEF Running, Outstanding, runnerVars
    <2>3. OnePlace'
      BY <1>1, <1>3, <1>4, <1>6, <2>1 DEF Running, OnePlace
    <2> QED
      BY <1>1, <1>6, <2>2, <2>3 DEF Running, runnerVars
  <1> QED
    BY <1>1, <1>5, <1>6

\* A finished host call is being answered and no longer in flight.
LEMMA RunningCompletes ==
    ASSUME TypeOK, Running, NEW call \in pending, CallCompletes(call)
    PROVE  Running'
  <1>1. /\ dphase = "loop" /\ dphase' = "replying" /\ pending' = pending \ {call}
        /\ reply'.seq = call.seq /\ reply'.exec = call.exec
        /\ UNCHANGED << exec, stdin, stdout, rphase, rexec, rops, rseq >>
    BY DEF CallCompletes, ReplyTo, runnerVars
  <1>2. Elems(stdin') = Elems(stdin) /\ Elems(stdout') = Elems(stdout)
    BY <1>1
  <1>3. Outstanding'
    BY <1>1, <1>2 DEF Running, Outstanding
  <1>4. OnePlace'
    <2>1. \A c \in pending' : c.seq # reply'.seq
      BY <1>1 DEF Running, OnePlace
    <2> QED
      BY <1>1, <1>2, <2>1 DEF Running, OnePlace
  <1> QED
    BY <1>1, <1>3, <1>4 DEF Running

\* A written reply is in the pipe and no longer being written.
LEMMA RunningReplies ==
    ASSUME TypeOK, Running, WriteReply
    PROVE  Running'
  <1>1. /\ dphase = "replying" /\ dphase' = "loop" /\ stdin' = Append(stdin, Reply(reply))
        /\ UNCHANGED << exec, pending, stdout, rphase, rexec, rops, rseq >>
    BY DEF WriteReply, runnerVars
  <1>2. Reply(reply) \in Lines /\ Reply(reply).type = "reply"
        /\ Reply(reply).seq = reply.seq /\ Reply(reply).exec = reply.exec
    BY DEF Reply, Lines, TypeOK
  <1>3. Elems(stdin') = Elems(stdin) \cup {Reply(reply)} /\ Elems(stdout') = Elems(stdout)
    BY <1>1, <1>2, AppendLine DEF TypeOK
  <1>4. \A m \in Elems(stdin) : m.seq # Reply(reply).seq
    BY <1>1, <1>2 DEF Running, OnePlace
  <1>5. OncePerSeq(stdin') /\ OncePerSeq(stdout')
    BY <1>1, <1>2, <1>4, OnceAppend DEF Running, OnePlace, TypeOK
  <1>6. Outstanding'
    BY <1>1, <1>2, <1>3 DEF Running, Outstanding
  <1>7. OnePlace'
    BY <1>1, <1>2, <1>3, <1>5 DEF Running, OnePlace
  <1> QED
    BY <1>1, <1>6, <1>7 DEF Running

\* The code starts an operation under a number it has not used.
LEMMA RunningEmits ==
    ASSUME TypeOK, Running, NEW kind \in CallTypes, RunnerEmits(kind)
    PROVE  Running'
  <1> DEFINE x == Line(kind, rseq)
  <1>1. /\ rphase = "jobs" /\ stdout' = Append(stdout, x)
        /\ rops' = rops \cup {rseq} /\ rseq' = rseq + 1
        /\ UNCHANGED << dphase, exec, pending, reply, stdin, rphase, rexec >>
    BY DEF RunnerEmits, driveVars
  <1>2. x \in Lines /\ x.type = kind /\ x.exec = exec /\ x.seq = rseq
    BY DEF Line, Lines, CallTypes, TypeOK, Running
  <1> HIDE DEF x
  <1>3. rseq \in Nat /\ \A s \in rops : s \in Nat /\ s < rseq
    BY DEF TypeOK, Running, Outstanding
  <1>4. rseq \notin rops
    BY <1>3
  <1>5. Elems(stdout') = Elems(stdout) \cup {x} /\ Elems(stdin') = Elems(stdin)
    BY <1>1, <1>2, AppendLine DEF TypeOK
  <1>6. /\ \A m \in Elems(stdout) : m.seq # x.seq
        /\ \A m \in Elems(stdin) : m.seq # x.seq
        /\ \A c \in pending : c.seq # x.seq
        /\ dphase = "replying" => reply.seq # x.seq
    BY <1>2, <1>4 DEF Running, Outstanding
  <1>7. OncePerSeq(stdin') /\ OncePerSeq(stdout')
    BY <1>1, <1>2, <1>6, OnceAppend DEF Running, OnePlace, TypeOK
  <1>8. Outstanding'
    <2>1. \A s \in rops' : s < rseq'
      BY <1>1, <1>3
    <2> QED
      BY <1>1, <1>2, <1>5, <2>1 DEF Running, Outstanding
  <1>9. OnePlace'
    BY <1>1, <1>5, <1>6, <1>7 DEF Running, OnePlace
  <1> QED
    BY <1>1, <1>8, <1>9 DEF Running

\* A reply read settles the promise it is about, and nothing else under way is about it.
LEMMA RunningSettlesOne ==
    ASSUME TypeOK, Running, RunnerReadsReply
    PROVE  Running'
  <1> DEFINE x == Head(stdin)
  <1>1. /\ stdin # << >> /\ stdin' = Tail(stdin)
        /\ UNCHANGED << dphase, exec, pending, reply, rexec >>
    BY DEF RunnerReadsReply, driveVars
  <1>2. /\ x \in Elems(stdin) /\ Elems(Tail(stdin)) \subseteq Elems(stdin)
        /\ OncePerSeq(Tail(stdin))
        /\ \A m \in Elems(Tail(stdin)) : m.seq # x.seq
    BY <1>1, TailLine, OnceTail DEF TypeOK, Running, OnePlace
  <1>3. x.type = "reply" /\ x.seq \in rops
    BY <1>2 DEF Running, Outstanding
  <1>4. /\ rops' = rops \ {x.seq} /\ rphase' = "jobs" /\ UNCHANGED << stdout, rseq >>
    BY <1>3 DEF RunnerReadsReply
  <1> HIDE DEF x
  <1>5. /\ Elems(stdin') \subseteq Elems(stdin) /\ Elems(stdout') = Elems(stdout)
        /\ OncePerSeq(stdin') /\ OncePerSeq(stdout')
        /\ \A m \in Elems(stdin') : m.seq # x.seq
    BY <1>1, <1>2, <1>4 DEF Running, OnePlace
  <1>6. /\ \A m \in Elems(stdout) : m.seq # x.seq
        /\ \A c \in pending : c.seq # x.seq
        /\ dphase = "replying" => reply.seq # x.seq
    BY <1>2 DEF Running, OnePlace
  <1>7. Outstanding'
    BY <1>1, <1>4, <1>5, <1>6 DEF Running, Outstanding
  <1>8. OnePlace'
    BY <1>1, <1>5 DEF Running, OnePlace
  <1> QED
    BY <1>1, <1>4, <1>7, <1>8 DEF Running

\* Code that awaits its operations settles when nothing is under way.
LEMMA RunningEnds ==
    ASSUME TypeOK, Running, awaits, NEW t \in AnswerTypes, RunnerSettles(t)
    PROVE  Answered'
  <1>1. /\ rops = {} /\ rops' = {} /\ rseq' = 0 /\ rphase' = "parked"
        /\ stdout' = Append(stdout, Line(t, 0))
        /\ UNCHANGED << dphase, exec, pending, stdin, rexec >>
    BY DEF RunnerSettles, driveVars
  <1>2. Elems(stdin) = {} /\ Elems(stdout) = {} /\ pending = {} /\ dphase = "loop"
    BY <1>1 DEF Running, Outstanding
  <1>3. stdin = << >> /\ stdout = << >>
    BY <1>2, NoElems DEF TypeOK
  <1>4. Len(stdout') = 1 /\ stdout'[1] = Line(t, 0)
    BY <1>1, <1>3
  <1> QED
    BY <1>1, <1>2, <1>3, <1>4 DEF Answered, Line, Running

LEMMA RunningStep ==
    ASSUME TypeOK, Running, awaits, [Next]_vars
    PROVE  Resting' \/ Running' \/ Answered'
  <1>0. stdout # << >> => Head(stdout).type \in CallTypes
    BY TailLine DEF TypeOK, Running, Outstanding
  <1>1. CASE DetectDeath \/ ReadBadLine \/ Timeout \/ CancelExec
    BY <1>1, UnhealthyRests DEF DetectDeath, ReadBadLine, Timeout, CancelExec
  <1>2. CASE ReadToolCall \/ ReadInternalCall \/ ReadInlineOp
    BY <1>2, RunningReads
  <1>3. CASE \E call \in pending : CallCompletes(call)
    BY <1>3, RunningCompletes
  <1>4. CASE WriteReply
    BY <1>4, RunningReplies
  <1>5. CASE \E kind \in {"tool", "internal", "inline"} : RunnerEmits(kind)
    BY <1>5, RunningEmits DEF CallTypes
  <1>6. CASE \E t \in {"done", "error", "bad"} : RunnerSettles(t)
    BY <1>6, RunningEnds DEF AnswerTypes
  <1>7. CASE RunnerReadsReply
    BY <1>7, RunningSettlesOne
  <1>8. CASE RunnerAwaits \/ RunnerDies \/ UNCHANGED vars
    <2>1. /\ UNCHANGED << dphase, exec, pending, reply, stdin, stdout, rexec, rops, rseq >>
          /\ rphase' \in {"reading", "dead"} \/ rphase' = rphase
      BY <1>8 DEF RunnerAwaits, RunnerDies, vars, driveVars, runnerVars
    <2>2. Outstanding'
      BY <2>1 DEF Running, Outstanding
    <2>3. OnePlace'
      BY <2>1 DEF Running, OnePlace
    <2> QED
      BY <2>1, <2>2, <2>3 DEF Running
  <1> QED
    BY <1>0, <1>1, <1>2, <1>3, <1>4, <1>5, <1>6, <1>7, <1>8
       DEF Next, DriveStep, RunnerStep, Finished, Running, CallTypes, BeginExec, WriteStart,
           ReadDone, ReadError, RunnerReadsStart

LEMMA InStepInit == Init => InStep
  BY DEF Init, InStep, Resting

LEMMA InStepStep == TypeOK /\ InStep /\ [Next]_vars => InStep'
  <1>1. [Next]_vars => awaits' = awaits
    BY DEF Next, Finished, vars
  <1> QED
    BY <1>1, RestingStep, HandedStep, RunningStep, AnsweredStep DEF InStep

\* Where code awaits its operations, a host call runs with the caller and capability
\* filter of the execution whose code asked for it (enqueue_tool_call, cfg.caller).
THEOREM ProtocolOwnCalls == Spec => []OwnCalls
  <1>1. InStep => OwnCalls
    BY DEF InStep, OwnCalls, Resting, Handed, Running, Outstanding, Answered
  <1>2. TypeOK /\ Counted /\ [Next]_vars => (TypeOK /\ Counted)'
    BY TypeStep
  <1>3. TypeOK /\ InStep /\ [Next]_vars => InStep'
    BY InStepStep
  <1> QED
    BY TypeInit, InStepInit, <1>1, <1>2, <1>3, PTL DEF Spec

\* Where code awaits its operations, a runner released for reuse is really parked:
\* neither pipe holds a line and no code runs (runner_drive.rs:257-261).
THEOREM ProtocolReleasedIdle == Spec => []ReleasedIdle
  <1>1. InStep => ReleasedIdle
    BY DEF InStep, ReleasedIdle, Resting, Handed, Running, Answered
  <1>2. TypeOK /\ Counted /\ [Next]_vars => (TypeOK /\ Counted)'
    BY TypeStep
  <1>3. TypeOK /\ InStep /\ [Next]_vars => InStep'
    BY InStepStep
  <1> QED
    BY TypeInit, InStepInit, <1>1, <1>2, <1>3, PTL DEF Spec

\* Where code awaits its operations, a reply that resumes the code answers an operation
\* of the same execution (javy_settle_tool_promise).
THEOREM ProtocolOwnReplies == Spec => OwnReplies
  <1>1. ASSUME TypeOK, InStep, [Next]_vars
        PROVE  [awaits /\ rphase = "reading" /\ rphase' = "jobs"
                  => Head(stdin).exec = rexec]_vars
    <2> SUFFICES ASSUME awaits, rphase = "reading", rphase' = "jobs"
                 PROVE  Head(stdin).exec = rexec
      OBVIOUS
    <2>1. stdin # << >>
      <3>1. RunnerReadsReply \/ FreshRunner \/ rphase' = rphase \/ rphase' = "dead"
        BY <1>1 DEF Next, DriveStep, RunnerStep, Finished, vars, runnerVars, BeginExec,
               WriteStart, DetectDeath, ReadToolCall, ReadInternalCall, ReadInlineOp,
               ReadBadLine, ReadDone, ReadError, CallCompletes, WriteReply, Timeout,
               CancelExec, Unhealthy, ReleaseRunner, RunnerReadsStart, RunnerEmits,
               RunnerSettles, RunnerAwaits, RunnerDies
      <3> QED
        BY <3>1 DEF FreshRunner, RunnerReadsReply
    <2>2. Running
      BY <1>1 DEF InStep, Resting, Handed, Answered
    <2>3. Head(stdin) \in Elems(stdin)
      BY <1>1, <2>1, TailLine DEF TypeOK
    <2> QED
      BY <2>2, <2>3 DEF Running, Outstanding
  <1>2. TypeOK /\ Counted /\ [Next]_vars => (TypeOK /\ Counted)'
    BY TypeStep
  <1>3. TypeOK /\ InStep /\ [Next]_vars => InStep'
    BY InStepStep
  <1> QED
    BY TypeInit, InStepInit, <1>1, <1>2, <1>3, PTL DEF Spec, OwnReplies

-----------------------------------------------------------------------------
\* The first execution on a process

LEMMA FreshIsClean ==
    ASSUME NEW o, NEW from, EndDrive(o, from), FreshRunner
    PROVE  FirstClean'
  BY DEF EndDrive, FreshRunner, FirstClean, FirstIdle

\* A runner released for reuse has served an execution.
LEMMA ReleasedIsClean ==
    ASSUME TypeOK, NEW o, NEW from, NEW rest, EndDrive(o, from), ReleaseRunner(rest)
    PROVE  FirstClean'
  <1>1. CASE FreshRunner
    BY <1>1, FreshIsClean
  <1>2. CASE served' = served + 1
    BY <1>2, ProtocolAssumption DEF TypeOK, FirstClean
  <1> QED
    BY <1>1, <1>2 DEF ReleaseRunner

\* Once a Start is read, the first execution runs or has answered.
FirstLater == FirstRuns \/ FirstAnswered

LEMMA FirstReads ==
    ASSUME TypeOK, FirstLater, stdout # << >>, Head(stdout).type \notin AnswerTypes,
           stdout' = Tail(stdout), UNCHANGED << stdin, exec, rphase, rexec >>,
           dphase' \in {"loop", "replying"}
    PROVE  FirstLater'
  <1>1. OwnUpToAnswer(stdout, exec)
    BY DEF FirstLater, FirstRuns, FirstAnswered
  <1>2. /\ OwnUpToAnswer(Tail(stdout), exec)
        /\ HasAnswer(stdout) => HasAnswer(Tail(stdout))
    BY <1>1, OwnTail DEF TypeOK
  <1> QED
    BY <1>2 DEF FirstLater, FirstRuns, FirstAnswered

\* A line the process writes before its first answer is the execution's own.
LEMMA FirstWrites ==
    ASSUME TypeOK, FirstLater, NEW x \in Lines, stdout' = Append(stdout, x),
           FirstRuns => x.exec = exec,
           UNCHANGED << dphase, exec, rexec >>,
           Elems(stdin') \subseteq Elems(stdin),
           \/ FirstRuns /\ rphase' \in {"jobs", "reading", "dead"}
           \/ FirstRuns /\ x.type \in AnswerTypes /\ rphase' = "parked"
           \/ FirstAnswered /\ rphase' \in {"parked", "dead"}
    PROVE  FirstLater'
  <1>1. OwnUpToAnswer(stdout, exec) /\ (x.exec = exec \/ HasAnswer(stdout))
    BY DEF FirstLater, FirstRuns, FirstAnswered
  <1>2. /\ OwnUpToAnswer(Append(stdout, x), exec)
        /\ HasAnswer(stdout) \/ x.type \in AnswerTypes => HasAnswer(Append(stdout, x))
    BY <1>1, OwnAppend DEF TypeOK
  <1> QED
    BY <1>2 DEF FirstLater, FirstRuns, FirstAnswered

LEMMA FirstLaterStep ==
    ASSUME TypeOK, served = 0, FirstLater, [Next]_vars
    PROVE  FirstClean'
  <1>0. FirstLater' => FirstClean'
    BY DEF FirstLater, FirstClean
  <1>1. CASE DetectDeath \/ ReadBadLine \/ Timeout \/ CancelExec
    BY <1>1, FreshIsClean DEF DetectDeath, ReadBadLine, Timeout, CancelExec, Unhealthy
  <1>2. CASE ReadDone \/ ReadError
    BY <1>2, FreshIsClean, ReleasedIsClean DEF ReadDone, ReadError, Unhealthy
  <1>3. CASE ReadToolCall \/ ReadInternalCall \/ ReadInlineOp
    <2>1. /\ stdout # << >> /\ Head(stdout).type \in CallTypes
          /\ stdout' = Tail(stdout) /\ UNCHANGED << stdin, exec, rphase, rexec >>
          /\ dphase' \in {"loop", "replying"}
      BY <1>3 DEF ReadToolCall, ReadInternalCall, ReadInlineOp, CallTypes, runnerVars
    <2> QED
      BY <1>0, <2>1, FirstReads DEF CallTypes, AnswerTypes
  <1>4. ASSUME NEW call \in pending, CallCompletes(call)
        PROVE  FirstClean'
    BY <1>0, <1>4 DEF CallCompletes, runnerVars, FirstLater, FirstRuns, FirstAnswered
  <1>5. CASE WriteReply
    <2>1. Reply(reply) \in Lines /\ Reply(reply).type = "reply"
      BY DEF Reply, Lines, TypeOK
    <2>2. Elems(stdin') = Elems(stdin) \cup {Reply(reply)}
      BY <1>5, <2>1, AppendLine DEF WriteReply, TypeOK
    <2> QED
      BY <1>0, <1>5, <2>1, <2>2
         DEF WriteReply, runnerVars, FirstLater, FirstRuns, FirstAnswered
  <1>6. CASE RunnerReadsStart
    <2>1. /\ rphase = "parked" /\ stdin # << >> /\ stdin' = Tail(stdin)
          /\ UNCHANGED << dphase, exec >>
      BY <1>6 DEF RunnerReadsStart, driveVars
    <2>2. Head(stdin) \in Elems(stdin) /\ Elems(stdin') \subseteq Elems(stdin)
      BY <2>1, TailLine DEF TypeOK
    <2>3. FirstAnswered
      BY <2>1 DEF FirstLater, FirstRuns
    <2>4. Head(stdin).type # "start"
      BY <2>2, <2>3 DEF FirstAnswered
    <2> DEFINE x == [type |-> "error", exec |-> 0, seq |-> 0]
    <2>5. x \in Lines
      BY ProtocolAssumption DEF Lines
    <2>6. stdout' = Append(stdout, x) /\ UNCHANGED << rphase, rexec >>
      BY <1>6, <2>4 DEF RunnerReadsStart
    <2>7. ~FirstRuns
      BY <2>1 DEF FirstRuns
    <2> HIDE DEF x
    <2> QED
      BY <1>0, <2>1, <2>2, <2>3, <2>5, <2>6, <2>7, FirstWrites DEF FirstAnswered
  <1>7. ASSUME NEW kind \in {"tool", "internal", "inline"}, RunnerEmits(kind)
        PROVE  FirstClean'
    <2>1. FirstRuns
      BY <1>7 DEF RunnerEmits, FirstLater, FirstAnswered
    <2>2. Line(kind, rseq) \in Lines /\ Line(kind, rseq).exec = exec
      BY <2>1 DEF Line, Lines, TypeOK, FirstRuns
    <2>3. /\ stdout' = Append(stdout, Line(kind, rseq)) /\ rphase' = "jobs"
          /\ UNCHANGED << dphase, exec, rexec, stdin >>
      BY <1>7 DEF RunnerEmits, driveVars
    <2> QED
      BY <1>0, <2>1, <2>2, <2>3, FirstWrites
  <1>8. ASSUME NEW t \in AnswerTypes, RunnerSettles(t)
        PROVE  FirstClean'
    <2>1. FirstRuns
      BY <1>8 DEF RunnerSettles, FirstLater, FirstAnswered
    <2>2. Line(t, 0) \in Lines /\ Line(t, 0).exec = exec /\ Line(t, 0).type = t
      BY <2>1, ProtocolAssumption DEF Line, Lines, TypeOK, FirstRuns, AnswerTypes
    <2>3. /\ stdout' = Append(stdout, Line(t, 0)) /\ rphase' = "parked"
          /\ UNCHANGED << dphase, exec, rexec, stdin >>
      BY <1>8 DEF RunnerSettles, driveVars
    <2> QED
      BY <1>0, <2>1, <2>2, <2>3, FirstWrites
  <1>9. CASE RunnerReadsReply
    <2>1. FirstRuns
      BY <1>9 DEF RunnerReadsReply, FirstLater, FirstAnswered
    <2>2. stdin # << >> /\ stdin' = Tail(stdin) /\ UNCHANGED << dphase, exec, rexec >>
      BY <1>9 DEF RunnerReadsReply, driveVars
    <2>3. Elems(stdin') \subseteq Elems(stdin)
      BY <2>2, TailLine DEF TypeOK
    <2>4. CASE rphase' = "jobs" /\ UNCHANGED stdout
      BY <1>0, <2>1, <2>2, <2>3, <2>4 DEF FirstLater, FirstRuns
    <2>5. CASE rphase' = "parked" /\ stdout' = Append(stdout, Line("error", 0))
      <3>1. /\ Line("error", 0) \in Lines /\ Line("error", 0).exec = exec
            /\ Line("error", 0).type \in AnswerTypes
        BY <2>1, ProtocolAssumption DEF Line, Lines, TypeOK, FirstRuns, AnswerTypes
      <3> QED
        BY <1>0, <2>1, <2>2, <2>3, <2>5, <3>1, FirstWrites
    <2> QED
      BY <1>9, <2>4, <2>5 DEF RunnerReadsReply
  <1>10. CASE RunnerAwaits \/ RunnerDies \/ UNCHANGED vars
    BY <1>0, <1>10 DEF RunnerAwaits, RunnerDies, vars, driveVars, runnerVars,
                       FirstLater, FirstRuns, FirstAnswered
  <1> QED
    BY <1>1, <1>2, <1>3, <1>4, <1>5, <1>6, <1>7, <1>8, <1>9, <1>10
       DEF Next, DriveStep, RunnerStep, Finished, FirstLater, FirstRuns, FirstAnswered,
           BeginExec, WriteStart, AnswerTypes

LEMMA FirstIdleStep ==
    ASSUME TypeOK, Counted, served = 0, FirstIdle, [Next]_vars
    PROVE  FirstClean'
  <1>1. CASE BeginExec
    BY <1>1 DEF FirstIdle, FirstClean, BeginExec, runnerVars
  <1>2. CASE WriteStart
    <2>1. stdin' = << Start(exec) >>
      BY <1>2 DEF WriteStart, FirstIdle
    <2> QED
      BY <1>2, <2>1
         DEF WriteStart, FirstIdle, FirstHanded, FirstClean, Start, Counted, runnerVars
  <1>3. CASE DetectDeath \/ CancelExec
    BY <1>3, FreshIsClean DEF DetectDeath, CancelExec, Unhealthy
  <1>4. CASE RunnerDies \/ UNCHANGED vars
    BY <1>4 DEF RunnerDies, FirstIdle, FirstClean, vars, driveVars, runnerVars
  <1> QED
    BY <1>1, <1>2, <1>3, <1>4
       DEF Next, DriveStep, RunnerStep, Finished, FirstIdle,
           ReadToolCall, ReadInternalCall, ReadInlineOp, ReadBadLine, ReadDone, ReadError,
           CallCompletes, WriteReply, Timeout, RunnerReadsStart, RunnerEmits,
           RunnerSettles, RunnerAwaits, RunnerReadsReply

LEMMA FirstHandedStep ==
    ASSUME TypeOK, served = 0, FirstHanded, [Next]_vars
    PROVE  FirstClean'
  <1>1. CASE DetectDeath \/ Timeout \/ CancelExec
    BY <1>1, FreshIsClean DEF DetectDeath, Timeout, CancelExec, Unhealthy
  <1>2. CASE RunnerReadsStart
    <2>1. Head(stdin) = Start(exec) /\ Tail(stdin) = << >>
      BY DEF FirstHanded
    <2>2. /\ stdin' = << >> /\ stdout' = << >> /\ rphase' = "jobs" /\ rexec' = exec
          /\ UNCHANGED << dphase, exec >>
      BY <1>2, <2>1 DEF RunnerReadsStart, FirstHanded, Start, driveVars
    <2> QED
      BY <2>2, NoLine DEF FirstHanded, FirstRuns, FirstClean
  <1>3. CASE RunnerDies \/ UNCHANGED vars
    BY <1>3 DEF RunnerDies, vars, driveVars, runnerVars, FirstHanded, FirstClean, Start
  <1> QED
    BY <1>1, <1>2, <1>3
       DEF Next, DriveStep, RunnerStep, Finished, FirstHanded, BeginExec, WriteStart,
           ReadToolCall, ReadInternalCall, ReadInlineOp, ReadBadLine, ReadDone, ReadError,
           CallCompletes, WriteReply, RunnerEmits, RunnerSettles, RunnerAwaits,
           RunnerReadsReply

\* A process that has served an execution stays one until it is replaced.
LEMMA FirstCleanStep == TypeOK /\ Counted /\ FirstClean /\ [Next]_vars => FirstClean'
  <1> SUFFICES ASSUME TypeOK, Counted, FirstClean, [Next]_vars
               PROVE  FirstClean'
    OBVIOUS
  <1>1. CASE served = 0
    BY <1>1, FirstIdleStep, FirstHandedStep, FirstLaterStep DEF FirstClean, FirstLater
  <1>2. CASE served # 0
    <2>1. CASE \E o, from : EndDrive(o, from) /\ FreshRunner
      BY <2>1, FreshIsClean
    <2>2. CASE \E o, from, rest : EndDrive(o, from) /\ ReleaseRunner(rest)
      BY <2>2, ReleasedIsClean
    <2>3. CASE served' = served
      BY <1>2, <2>3 DEF FirstClean
    <2> QED
      BY <2>1, <2>2, <2>3
         DEF Next, DriveStep, RunnerStep, Finished, vars, runnerVars, BeginExec,
             WriteStart, DetectDeath, ReadToolCall, ReadInternalCall, ReadInlineOp,
             ReadBadLine, ReadDone, ReadError, CallCompletes, WriteReply, Timeout,
             CancelExec, Unhealthy, RunnerReadsStart, RunnerEmits, RunnerSettles,
             RunnerAwaits, RunnerReadsReply, RunnerDies
  <1> QED
    BY <1>1, <1>2

-----------------------------------------------------------------------------
\* Answers

\* A line that ends an execution with its answer is one of its own code, where the
\* code awaits its operations or the process is new.
LEMMA AnswerIsOwn ==
    ASSUME TypeOK, InStep, FirstClean, dphase = "loop", stdout # << >>,
           Head(stdout).type \in AnswerTypes, awaits \/ served = 0
    PROVE  Head(stdout).exec = exec
  <1>1. Head(stdout) \in Elems(stdout) /\ Head(stdout) = stdout[1]
    BY TailLine DEF TypeOK
  <1>2. CASE awaits
    BY <1>1, <1>2 DEF InStep, Resting, Handed, Running, Outstanding, Answered,
                      CallTypes, AnswerTypes
  <1>3. CASE served = 0
    <2>1. OwnUpToAnswer(stdout, exec)
      BY <1>3 DEF FirstClean, FirstIdle, FirstHanded, FirstRuns, FirstAnswered
    <2> QED
      BY <2>1, OwnTail DEF TypeOK
  <1> QED
    BY <1>2, <1>3

LEMMA AnswerStep ==
    TypeOK /\ InStep /\ FirstClean /\ AwaitedOwnAnswer /\ [Next]_vars => AwaitedOwnAnswer'
  <1> SUFFICES ASSUME TypeOK, InStep, FirstClean, AwaitedOwnAnswer, [Next]_vars
               PROVE  AwaitedOwnAnswer'
    OBVIOUS
  <1>0. awaits' = awaits
    BY DEF Next, Finished, vars
  <1>1. ASSUME NEW o, NEW from, EndDrive(o, from),
               o \in {"completed", "error"} /\ (awaits \/ served = 0) => from = exec
        PROVE  AwaitedOwnAnswer'
    <2> SUFFICES ASSUME NEW e \in Execs, awaits' \/ result'[e].first,
                        result'[e].outcome \in {"completed", "error"}
                 PROVE  result'[e].from = e
      BY DEF AwaitedOwnAnswer
    <2>1. result' = [result EXCEPT ![exec] =
                        [outcome |-> o, from |-> from, first |-> served = 0]]
      BY <1>1 DEF EndDrive
    <2>2. CASE e = exec
      <3>1. result'[e] = [outcome |-> o, from |-> from, first |-> served = 0]
        BY <2>1, <2>2 DEF TypeOK
      <3>2. /\ result'[e].outcome = o /\ result'[e].from = from
            /\ result'[e].first = (served = 0)
        BY <3>1
      <3>3. awaits \/ served = 0
        BY <1>0, <3>2
      <3> QED
        BY <1>1, <2>2, <3>2, <3>3
    <2>3. CASE e # exec
      BY <1>0, <2>1, <2>3 DEF TypeOK, AwaitedOwnAnswer
    <2> QED
      BY <2>2, <2>3
  <1>2. CASE Unhealthy
    BY <1>1, <1>2 DEF Unhealthy
  <1>3. CASE ReadDone \/ ReadError
    <2>1. CASE Unhealthy
      BY <1>2, <2>1
    <2>2. CASE ~Unhealthy
      <3>1. /\ dphase = "loop" /\ stdout # << >>
            /\ Head(stdout).type \in AnswerTypes
            /\ \E o : EndDrive(o, Head(stdout).exec)
        BY <1>3, <2>2 DEF ReadDone, ReadError, AnswerTypes
      <3> QED
        BY <1>1, <3>1, AnswerIsOwn
    <2> QED
      BY <2>1, <2>2
  <1>4. CASE UNCHANGED result
    BY <1>0, <1>4 DEF AwaitedOwnAnswer
  <1> QED
    BY <1>2, <1>3, <1>4
       DEF Next, DriveStep, RunnerStep, Finished, vars, BeginExec,
           WriteStart, DetectDeath, ReadToolCall, ReadInternalCall, ReadInlineOp,
           ReadBadLine, CallCompletes, WriteReply, Timeout, CancelExec,
           RunnerReadsStart, RunnerEmits, RunnerSettles, RunnerAwaits,
           RunnerReadsReply, RunnerDies

\* ProtocolInv is inductive.
THEOREM ProtocolInvariant == Spec => []ProtocolInv
  <1>1. Init => ProtocolInv
    <2> SUFFICES ASSUME Init PROVE ProtocolInv
      OBVIOUS
    <2>1. Watch /\ FirstClean
      BY DEF Init, Watch, SettlementSound, FirstClean, FirstIdle
    <2>2. AwaitedOwnAnswer
      BY DEF Init, AwaitedOwnAnswer, NoResult
    <2> QED
      BY <2>1, <2>2, TypeInit, InStepInit DEF ProtocolInv
  <1>2. ProtocolInv /\ [Next]_vars => ProtocolInv'
    BY TypeStep, WatchStep, InStepStep, FirstCleanStep, AnswerStep DEF ProtocolInv
  <1> QED
    BY <1>1, <1>2, PTL DEF Spec

\* An execution's answer, Done or Error, was produced by its own code, where all code
\* awaits its operations and, whatever the code does, for the first execution of a
\* process (runner_drive.rs:257-261, 274-276).
THEOREM ProtocolOwnAnswer == Spec => []AwaitedOwnAnswer
  <1>1. ProtocolInv => AwaitedOwnAnswer
    BY DEF ProtocolInv
  <1> QED
    BY <1>1, ProtocolInvariant, PTL

=============================================================================
