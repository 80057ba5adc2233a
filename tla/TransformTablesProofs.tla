----------------------- MODULE TransformTablesProofs ------------------------
(****************************************************************************)
(* For any number of threads, contexts and moduli: one thread at a time is  *)
(* in a critical region, the tables of a modulus agree, no look-up races    *)
(* with a computation, and every transform is made with the tables of its   *)
(* own modulus and ring.                                                    *)
(****************************************************************************)
EXTENDS TransformTables, SequenceTheorems, TLAPS

-----------------------------------------------------------------------------
(* Calls and sequences of calls *)

\* What calls are about.
LEMMA CallFields ==
  ASSUME NEW c \in Calls
  PROVE  /\ c.op \in {"precompute", "transform", "pack", "draw"}
         /\ c.op # "draw" => c.q \in Moduli /\ c.r \in Rings
         /\ c.op = "pack" => c.q = PlainModulus[c.r]
BY ThreadAssumption DEF Calls, PreCompute, Transform, Pack, Draw

\* The call of a transform.
LEMMA TransformCall ==
  ASSUME NEW q \in Moduli, NEW r \in Rings
  PROVE  /\ Transform(q, r) \in Calls
         /\ Transform(q, r).op = "transform"
         /\ Transform(q, r).q = q
         /\ Transform(q, r).r = r
BY DEF Transform, Calls

\* What is left of a thread's calls when it has made the first of them, or
\* has made way for the transform of a packed encoding.
LEMMA SingleCall ==
  ASSUME NEW c \in Calls
  PROVE  <<c>> \in Seq(Calls) /\ Len(<<c>>) = 1 /\ <<c>>[1] = c
OBVIOUS

\* The calls left after the first.
LEMMA TailElements ==
  ASSUME NEW s \in Seq(Calls), s # <<>>
  PROVE  /\ Head(s) \in Calls
         /\ Head(s) = s[1]
         /\ 1 \in 1 .. Len(s)
         /\ Tail(s) \in Seq(Calls)
         /\ Len(Tail(s)) = Len(s) - 1
         /\ \A i \in 1 .. Len(Tail(s)) : i + 1 \in 1 .. Len(s) /\ Tail(s)[i] = s[i + 1]
<1>1. Len(s) \in Nat /\ Len(s) > 0
  OBVIOUS
<1>2. Head(s) = s[1]
  OBVIOUS
<1> QED
  BY <1>1, <1>2, HeadTailProperties

\* The calls after the first was replaced.
LEMMA ReplaceElements ==
  ASSUME NEW s \in Seq(Calls), s # <<>>, NEW c \in Calls
  PROVE  /\ <<c>> \o Tail(s) \in Seq(Calls)
         /\ <<c>> \o Tail(s) # <<>>
         /\ Head(<<c>> \o Tail(s)) = c
         /\ Len(<<c>> \o Tail(s)) = Len(s)
         /\ (<<c>> \o Tail(s))[1] = c
         /\ \A i \in 2 .. Len(s) : (<<c>> \o Tail(s))[i] = s[i]
<1> DEFINE t == Tail(s)
<1> DEFINE u == <<c>> \o t
<1>1. /\ t \in Seq(Calls)
      /\ Len(s) \in Nat /\ Len(s) > 0
      /\ Len(t) = Len(s) - 1
      /\ \A i \in 1 .. Len(t) : t[i] = s[i + 1]
  BY TailElements
<1>2. <<c>> \in Seq(Calls) /\ Len(<<c>>) = 1 /\ <<c>>[1] = c
  OBVIOUS
<1> HIDE DEF t
<1>3. /\ u \in Seq(Calls)
      /\ Len(u) = 1 + Len(t)
      /\ \A i \in 1 .. 1 + Len(t) : u[i] = IF i <= 1 THEN <<c>>[i] ELSE t[i - 1]
  BY <1>1, <1>2, ConcatProperties
<1> HIDE DEF u
<1>4. Len(u) = Len(s)
  BY <1>1, <1>3
<1>5. u[1] = c
  BY <1>1, <1>2, <1>3
<1>6. \A i \in 2 .. Len(s) : u[i] = s[i]
  <2> TAKE i \in 2 .. Len(s)
  <2>1. i \in Int /\ i >= 2 /\ i <= Len(s) /\ ~(i <= 1) /\ i \in 1 .. 1 + Len(t) /\ i - 1 \in 1 .. Len(t)
    BY <1>1
  <2>2. u[i] = t[i - 1]
    BY <2>1, <1>3
  <2>3. t[i - 1] = s[i - 1 + 1]
    BY <2>1, <1>1
  <2>4. i - 1 + 1 = i
    BY <2>1
  <2> QED
    BY <2>2, <2>3, <2>4
<1>7. u # <<>> /\ Head(u) = u[1]
  BY <1>1, <1>3, <1>4
<1> QED
  BY <1>3, <1>4, <1>5, <1>6, <1>7 DEF u, t

-----------------------------------------------------------------------------
(* Places *)

\* The first call of a thread that is inside one.
PlaceOf(p) ==
  /\ pc[p] # "next" => todo[p] # <<>>
  /\ pc[p] \in {"find", "read", "compute"} => Arg(p).op = "transform"
  /\ pc[p] \in {"check", "enter", "roots", "precon"} => Arg(p).op \in {"transform", "precompute"}
  /\ pc[p] \in {"pack", "enterParams", "params"} => Arg(p).op = "pack"
  /\ pc[p] = "enterPRNG" => Arg(p).op \in {"draw", "pack"}
  /\ pc[p] = "makePRNG" => Arg(p).op = "draw"

Places == \A p \in Threads : PlaceOf(p)

\* A thread that wants a random number inside SetParams holds the lock too.
Holds(p) == pc[p] \in Inside \/ (pc[p] = "enterPRNG" /\ Arg(p).op = "pack")

Mutex == \A p \in Threads : Holds(p) => critical = p

Base == TypeOK /\ Places /\ Mutex

\* What a step of a thread does to the calls the thread has to make.
Moved(p) ==
  \/ todo'[p] = todo[p]
  \/ todo[p] # <<>> /\ todo'[p] = Tail(todo[p]) /\ pc'[p] = "next"
  \/ /\ todo[p] # <<>> /\ Arg(p).op = "pack"
     /\ todo'[p] = <<Transform(Arg(p).q, Arg(p).r)>> \o Tail(todo[p])
     /\ pc'[p] = "next"

\* A step of one thread leaves what others are to do.
LEMMA StepMoves ==
  ASSUME TypeOK, Places, NEW p \in Threads, Step(p)
  PROVE  /\ Moved(p)
         /\ \A w \in Threads \ {p} : todo'[w] = todo[w] /\ pc'[w] = pc[w]
         /\ DOMAIN todo' = Threads /\ DOMAIN pc' = Threads
         /\ contexts' = contexts
BY DEF TypeOK, Places, PlaceOf, Step, Moved, Goto, Done, Calling, tables,
       GetPRNG, EnterPRNG, MakePRNG, Begin, Find, AfterPreCompute, Check, Enter,
       WriteRoots, WritePrecon, Read, Return, PackBegin, PackFind, ThenTransform,
       EnterParams, SetParams

\* A call whose thread is in it.
LEMMA ArgCall ==
  ASSUME TypeOK, NEW p \in Threads, todo[p] # <<>>
  PROVE  /\ Arg(p) \in Calls
         /\ Arg(p) = todo[p][1]
BY TailElements DEF TypeOK, Arg

\* What is left to do is calls.
LEMMA MovedType ==
  ASSUME TypeOK, NEW p \in Threads, Moved(p)
  PROVE  todo'[p] \in Seq(Calls)
<1>1. todo[p] \in Seq(Calls)
  BY DEF TypeOK
<1>2. CASE todo'[p] = todo[p]
  BY <1>1, <1>2
<1>3. CASE todo[p] # <<>> /\ todo'[p] = Tail(todo[p])
  BY <1>1, <1>3, TailElements
<1>4. CASE /\ todo[p] # <<>> /\ Arg(p).op = "pack"
           /\ todo'[p] = <<Transform(Arg(p).q, Arg(p).r)>> \o Tail(todo[p])
  <2>1. Arg(p).q \in Moduli /\ Arg(p).r \in Rings
    BY <1>4, ArgCall, CallFields
  <2>2. Transform(Arg(p).q, Arg(p).r) \in Calls
    BY <2>1, TransformCall
  <2> QED
    BY <1>1, <1>4, <2>2, ReplaceElements
<1> QED
  BY <1>2, <1>3, <1>4 DEF Moved

\* All variables but the queues of calls.
OtherTypes ==
  /\ roots \in [Moduli -> Rings \cup {None}]
  /\ precon \in [Moduli -> Rings \cup {None}]
  /\ initRoot \subseteq Rings
  /\ prng \subseteq Threads
  /\ critical \in Threads \cup {None}
  /\ contexts \subseteq Rings
  /\ pc \in [Threads -> Labels]

\* A step keeps the types of tables and places.
LEMMA StepOtherTypes ==
  ASSUME TypeOK, Places, NEW p \in Threads, Step(p)
  PROVE  OtherTypes'
<1>0. OtherTypes
  BY DEF TypeOK, OtherTypes
<1>1. /\ todo[p] # <<>> => Arg(p) \in Calls
      /\ todo[p] # <<>> /\ Arg(p).op # "draw" => Arg(p).q \in Moduli /\ Arg(p).r \in Rings
  BY ArgCall, CallFields
<1>2. CASE GetPRNG(p) \/ EnterPRNG(p) \/ MakePRNG(p)
  BY <1>0, <1>2 DEF OtherTypes, GetPRNG, EnterPRNG, MakePRNG, Goto, Done, tables, Labels
<1>3. CASE Begin(p) \/ Find(p) \/ Check(p) \/ Enter(p)
  BY <1>0, <1>3 DEF OtherTypes, Begin, Find, Check, Enter, AfterPreCompute, Goto, Done, tables, Labels
<1>4. CASE WriteRoots(p)
  BY <1>0, <1>1, <1>4 DEF Places, PlaceOf, OtherTypes, WriteRoots, Goto, Done, tables, Labels
<1>5. CASE WritePrecon(p)
  BY <1>0, <1>1, <1>5 DEF Places, PlaceOf, OtherTypes, WritePrecon, AfterPreCompute, Goto, Done, tables, Labels
<1>6. CASE Read(p) \/ Return(p)
  BY <1>0, <1>6 DEF OtherTypes, Read, Return, Goto, Done, tables, Labels
<1>7. CASE PackBegin(p) \/ PackFind(p) \/ EnterParams(p)
  BY <1>0, <1>7 DEF OtherTypes, PackBegin, PackFind, EnterParams, ThenTransform, Goto, tables, Labels
<1>8. CASE SetParams(p)
  BY <1>0, <1>1, <1>8 DEF Places, PlaceOf, OtherTypes, SetParams, ThenTransform, Goto, tables, Labels
<1> QED
  BY <1>2, <1>3, <1>4, <1>5, <1>6, <1>7, <1>8 DEF Step

\* A step keeps all types.
LEMMA StepTypes ==
  ASSUME TypeOK, Places, NEW p \in Threads, Step(p)
  PROVE  TypeOK'
<1>1. OtherTypes'
  BY StepOtherTypes
<1>2. Moved(p) /\ DOMAIN todo' = Threads /\ \A w \in Threads \ {p} : todo'[w] = todo[w]
  BY StepMoves
<1>3. \A w \in Threads : todo'[w] \in Seq(Calls)
  BY <1>2, MovedType DEF TypeOK
<1>4. todo' = [w \in Threads |-> todo'[w]]
  BY StepMoves DEF Step, GetPRNG, EnterPRNG, MakePRNG, Begin, Find, AfterPreCompute, Check,
     Enter, WriteRoots, WritePrecon, Read, Return, PackBegin, PackFind, ThenTransform,
     EnterParams, SetParams, Goto, Done, tables, TypeOK
<1>5. todo' \in [Threads -> Seq(Calls)]
  BY <1>3, <1>4
<1> QED
  BY <1>1, <1>5 DEF OtherTypes, TypeOK

-----------------------------------------------------------------------------
(* Programs *)

Empty == \A w \in Threads : todo[w] = <<>>

\* The transforms in the chunk of a thread.
ChunkOf(r, cut, p) ==
  SubSeq([i \in 1 .. Len(Chain[r]) |-> Transform(Chain[r][i], r)], cut[p][1] + 1, cut[p][2])

\* The calls a program may give its threads.
Given ==
  \/ \E r \in Rings :
     \E calls \in {<<Draw>> \o PreComputeAll(r), PreComputeAll(r) \o <<Draw>>, PreComputeAll(r)} :
       /\ contexts' = contexts \cup {r}
       /\ todo' = [todo EXCEPT ![Main] = calls]
  \/ \E r \in Rings :
       /\ contexts' = contexts
       /\ todo' = [todo EXCEPT ![Main] = <<Pack(r)>>]
  \/ \E r \in contexts :
       /\ contexts' = contexts
       /\ \E cut \in Chunks(r) :
            todo' = [p \in Threads |-> ChunkOf(r, cut, p)]
  \/ \E r \in Rings :
       /\ Warm(r)
       /\ contexts' = contexts
       /\ \E body \in [Threads -> {Transform(q, r) : q \in ModuliOf(r)} \cup {Pack(r), Draw}] :
            todo' = [p \in Threads |-> <<body[p]>>]

\* What programs are made of is calls.
LEMMA CallTypes ==
  /\ Draw \in Calls
  /\ \A r \in Rings : /\ Pack(r) \in Calls
                       /\ Chain[r] \in Seq(Moduli)
                       /\ PlainModulus[r] \in Moduli
                       /\ ModuliOf(r) \subseteq Moduli
                       /\ PreComputeAll(r) \in Seq(Calls)
BY ThreadAssumption DEF Calls, Pack, Draw, ModuliOf, PreComputeAll, PreCompute

\* A program's next call finds all threads idle, and changes no table.
LEMMA ProgramGives ==
  ASSUME Program
  PROVE  /\ Empty
         /\ Given
         /\ used' = [p \in Threads |-> None]
         /\ UNCHANGED <<roots, precon, initRoot, prng, critical, pc, seen>>
<1> PICK r \in Rings : \/ Generate(r)
                       \/ \E technique \in KeySwitching : Load(r, technique)
                       \/ Encode(r)
                       \/ SwitchFormat(r)
                       \/ ParallelLoop(r)
  BY DEF Program
<1>1. CASE Generate(r)
  BY <1>1 DEF Generate, AtBarrier, Serial, Given, Empty, tables
<1>2. CASE \E technique \in KeySwitching : Load(r, technique)
  BY <1>2 DEF Load, AtBarrier, Serial, Given, Empty, tables
<1>3. CASE Encode(r)
  BY <1>3 DEF Encode, AtBarrier, Serial, Given, Empty, tables
<1>4. CASE SwitchFormat(r)
  BY <1>4 DEF SwitchFormat, ChunkOf, AtBarrier, Given, Empty, tables
<1>5. CASE ParallelLoop(r)
  BY <1>5 DEF ParallelLoop, AtBarrier, Given, Empty, tables
<1> QED
  BY <1>1, <1>2, <1>3, <1>4, <1>5

\* The elements of a part of a sequence.
LEMMA SubSeqElements ==
  ASSUME NEW S, NEW t \in Seq(S), NEW a \in Nat, NEW b \in Nat, a <= Len(t), b <= Len(t)
  PROVE  /\ SubSeq(t, a + 1, b) \in Seq(S)
         /\ \A j \in 1 .. Len(SubSeq(t, a + 1, b)) :
              /\ a + j \in 1 .. Len(t)
              /\ a < a + j /\ a + j <= b
              /\ SubSeq(t, a + 1, b)[j] = t[a + j]
<1> DEFINE u == SubSeq(t, a + 1, b)
<1>0. Len(t) \in Nat /\ \A i \in 1 .. Len(t) : t[i] \in S
  OBVIOUS
<1>1. \A i \in (a + 1) .. b : t[i] \in S
  BY <1>0
<1>2. /\ u \in Seq(S)
      /\ Len(u) = IF a + 1 <= b THEN b - (a + 1) + 1 ELSE 0
      /\ \A i \in 1 .. b - (a + 1) + 1 : u[i] = t[a + 1 + i - 1]
  BY <1>1, SubSeqProperties
<1> HIDE DEF u
<1>3. ASSUME NEW j \in 1 .. Len(u)
      PROVE  /\ a + j \in 1 .. Len(t)
             /\ a < a + j /\ a + j <= b
             /\ u[j] = t[a + j]
  <2>0. j \in Int /\ 1 <= j /\ j <= Len(u)
    BY <1>2
  <2>1. a + 1 <= b /\ Len(u) = b - a
    BY <1>2, <2>0
  <2>2. j <= b - a /\ j \in 1 .. b - (a + 1) + 1
    BY <2>0, <2>1
  <2>3. a + j \in 1 .. Len(t) /\ a < a + j /\ a + j <= b
    BY <1>0, <2>0, <2>2
  <2>4. u[j] = t[a + 1 + j - 1]
    BY <1>2, <2>2
  <2>5. a + 1 + j - 1 = a + j
    BY <2>0
  <2> QED
    BY <2>3, <2>4, <2>5
<1> QED
  BY <1>2, <1>3 DEF u

\* A thread's part of a loop is transforms of towers.
LEMMA ChunkElements ==
  ASSUME NEW r \in Rings, NEW cut \in Chunks(r), NEW p \in Threads,
         NEW s, s = ChunkOf(r, cut, p)
  PROVE  /\ s \in Seq(Calls)
         /\ \A j \in 1 .. Len(s) :
              \E i \in 1 .. Len(Chain[r]) :
                /\ cut[p][1] < i /\ i <= cut[p][2]
                /\ s[j] = Transform(Chain[r][i], r)
                /\ Chain[r][i] \in ModuliOf(r)
<1> DEFINE n == Len(Chain[r])
           t == [i \in 1 .. n |-> Transform(Chain[r][i], r)]
           a == cut[p][1]
           b == cut[p][2]
<1>1. n \in Nat /\ \A i \in 1 .. n : Chain[r][i] \in Moduli /\ Chain[r][i] \in ModuliOf(r)
  BY CallTypes DEF ModuliOf
<1>2. a \in Nat /\ b \in Nat /\ a <= n /\ b <= n
  BY <1>1 DEF Chunks
<1>3. \A i \in 1 .. n : Transform(Chain[r][i], r) \in Calls
  BY <1>1, TransformCall
<1>4. t \in Seq(Calls) /\ Len(t) = n /\ \A i \in 1 .. n : t[i] = Transform(Chain[r][i], r)
  BY <1>1, <1>3
<1>5. s = SubSeq(t, a + 1, b)
  BY DEF ChunkOf
<1> HIDE DEF t, a, b, n
<1>6. /\ s \in Seq(Calls)
      /\ \A j \in 1 .. Len(s) : a + j \in 1 .. n /\ a < a + j /\ a + j <= b /\ s[j] = t[a + j]
  <2>1. t \in Seq(Calls) /\ a \in Nat /\ b \in Nat /\ a <= Len(t) /\ b <= Len(t)
    BY <1>2, <1>4
  <2>2. /\ SubSeq(t, a + 1, b) \in Seq(Calls)
        /\ \A j \in 1 .. Len(SubSeq(t, a + 1, b)) :
             /\ a + j \in 1 .. Len(t)
             /\ a < a + j /\ a + j <= b
             /\ SubSeq(t, a + 1, b)[j] = t[a + j]
    BY <2>1, SubSeqElements, Zenon
  <2> QED
    BY <1>4, <1>5, <2>2, Zenon
<1>8. ASSUME NEW j \in 1 .. Len(s)
      PROVE  \E i \in 1 .. n :
               a < i /\ i <= b /\ s[j] = Transform(Chain[r][i], r) /\ Chain[r][i] \in ModuliOf(r)
  <2>1. a + j \in 1 .. n /\ a < a + j /\ a + j <= b /\ s[j] = t[a + j]
    BY <1>6
  <2> QED
    BY <1>1, <1>4, <2>1
<1> QED
  BY <1>6, <1>8 DEF a, b, n

\* What a program gives the threads is calls.
LEMMA GivenTypes ==
  ASSUME TypeOK, Given
  PROVE  /\ todo' \in [Threads -> Seq(Calls)]
         /\ contexts' \subseteq Rings
<1>0. /\ todo \in [Threads -> Seq(Calls)]
      /\ contexts \subseteq Rings
      /\ Main \in Threads
  BY ThreadAssumption DEF TypeOK
<1>1. ASSUME NEW r \in Rings,
             NEW calls \in {<<Draw>> \o PreComputeAll(r), PreComputeAll(r) \o <<Draw>>, PreComputeAll(r)},
             contexts' = contexts \cup {r},
             todo' = [todo EXCEPT ![Main] = calls]
      PROVE  todo' \in [Threads -> Seq(Calls)] /\ contexts' \subseteq Rings
  <2>1. <<Draw>> \in Seq(Calls) /\ PreComputeAll(r) \in Seq(Calls)
    BY CallTypes
  <2>2. calls \in Seq(Calls)
    BY <2>1, <1>1, ConcatProperties
  <2> QED
    BY <1>0, <1>1, <2>2
<1>2. ASSUME NEW r \in Rings, contexts' = contexts, todo' = [todo EXCEPT ![Main] = <<Pack(r)>>]
      PROVE  todo' \in [Threads -> Seq(Calls)] /\ contexts' \subseteq Rings
  <2>1. <<Pack(r)>> \in Seq(Calls)
    BY CallTypes
  <2> QED
    BY <1>0, <1>2, <2>1
<1>3. ASSUME NEW r \in contexts, contexts' = contexts, NEW cut \in Chunks(r),
             todo' = [p \in Threads |-> ChunkOf(r, cut, p)]
      PROVE  todo' \in [Threads -> Seq(Calls)] /\ contexts' \subseteq Rings
  <2>1. r \in Rings
    BY <1>0
  <2>2. \A p \in Threads : ChunkOf(r, cut, p) \in Seq(Calls)
    BY <2>1, ChunkElements
  <2> QED
    BY <1>0, <1>3, <2>2
<1>4. ASSUME NEW r \in Rings, contexts' = contexts,
             NEW body \in [Threads -> {Transform(q, r) : q \in ModuliOf(r)} \cup {Pack(r), Draw}],
             todo' = [p \in Threads |-> <<body[p]>>]
      PROVE  todo' \in [Threads -> Seq(Calls)] /\ contexts' \subseteq Rings
  <2>1. \A p \in Threads : body[p] \in Calls
    <3> TAKE p \in Threads
    <3>1. body[p] \in {Transform(q, r) : q \in ModuliOf(r)} \cup {Pack(r), Draw}
      OBVIOUS
    <3>2. \A q \in ModuliOf(r) : Transform(q, r) \in Calls
      BY CallTypes, TransformCall
    <3> QED
      BY <3>1, <3>2, CallTypes
  <2>2. \A p \in Threads : <<body[p]>> \in Seq(Calls)
    BY <2>1, SingleCall
  <2> QED
    BY <1>0, <1>4, <2>2
<1> QED
  BY <1>1, <1>2, <1>3, <1>4 DEF Given

\* Everything keeps its type.
LEMMA NextTypes ==
  ASSUME TypeOK, Places, [Next]_vars
  PROVE  TypeOK'
<1>1. CASE Program
  BY <1>1, ProgramGives, GivenTypes DEF TypeOK
<1>2. ASSUME NEW p \in Threads, Step(p)
      PROVE  TypeOK'
  BY <1>2, StepTypes
<1>3. CASE UNCHANGED vars
  BY <1>3 DEF vars, TypeOK
<1> QED
  BY <1>1, <1>2, <1>3 DEF Next

\* Threads are where their calls go.
LEMMA NextPlaces ==
  ASSUME Base, [Next]_vars
  PROVE  Places'
<1>0. TypeOK /\ Places /\ Mutex
  BY DEF Base
<1>1. CASE Program
  <2>1. \A p \in Threads : pc[p] = "next"
    BY <1>0, <1>1, ProgramGives DEF Empty, Places, PlaceOf
  <2> QED
    BY <1>0, <1>1, <2>1, ProgramGives DEF Places, PlaceOf
<1>2. ASSUME NEW p \in Threads, Step(p)
      PROVE  Places'
  <2>1. \A w \in Threads \ {p} : todo'[w] = todo[w] /\ pc'[w] = pc[w]
    BY <1>0, <1>2, StepMoves
  <2>2. \A w \in Threads \ {p} : PlaceOf(w)'
    BY <1>0, <2>1 DEF Places, PlaceOf, Arg
  <2>3. ASSUME pc'[p] = "next" PROVE PlaceOf(p)'
    BY <2>3 DEF PlaceOf
  <2>4. ASSUME pc'[p] # "next" PROVE PlaceOf(p)'
    <3>1. PlaceOf(p) /\ pc \in [Threads -> Labels]
      BY <1>0 DEF Places, TypeOK
    <3>2. todo'[p] = todo[p]
      BY <1>0, <1>2, <2>4, StepMoves DEF Moved
    <3>3. CASE GetPRNG(p) \/ MakePRNG(p)
      BY <2>4, <3>1, <3>2, <3>3 DEF PlaceOf, Arg, GetPRNG, MakePRNG, Calling, Goto, Done
    <3>7. CASE EnterPRNG(p)
      <4>1. ~(Arg(p).op = "pack")
        BY <1>0, <3>7, ThreadAssumption DEF EnterPRNG, Mutex, Holds
      <4> QED
        BY <2>4, <3>1, <3>2, <3>7, <4>1 DEF PlaceOf, Arg, EnterPRNG, Goto
    <3>4. CASE Begin(p) \/ Find(p) \/ Check(p) \/ Enter(p)
      BY <2>4, <3>1, <3>2, <3>4 DEF PlaceOf, Arg, Begin, Find, Check, Enter, AfterPreCompute, Calling, Goto, Done
    <3>5. CASE WriteRoots(p) \/ WritePrecon(p) \/ Read(p) \/ Return(p)
      BY <2>4, <3>1, <3>2, <3>5 DEF PlaceOf, Arg, WriteRoots, WritePrecon, Read, Return, AfterPreCompute, Goto, Done
    <3>6. CASE PackBegin(p) \/ PackFind(p) \/ EnterParams(p) \/ SetParams(p)
      BY <2>4, <3>1, <3>2, <3>6 DEF PlaceOf, Arg, PackBegin, PackFind, EnterParams, SetParams,
         ThenTransform, Calling, Goto
    <3> QED
      BY <1>2, <3>3, <3>4, <3>5, <3>6, <3>7 DEF Step
  <2> QED
    BY <2>2, <2>3, <2>4 DEF Places
<1>3. CASE UNCHANGED vars
  BY <1>0, <1>3 DEF vars, Places, PlaceOf, Arg
<1> QED
  BY <1>1, <1>2, <1>3 DEF Next

\* Whoever is in a critical region holds the lock.
LEMMA NextMutex ==
  ASSUME Base, [Next]_vars
  PROVE  Mutex'
<1>0. TypeOK /\ Places /\ Mutex
  BY DEF Base
<1>1. CASE Program
  <2>1. \A p \in Threads : pc[p] = "next"
    BY <1>0, <1>1, ProgramGives DEF Empty, Places, PlaceOf
  <2> QED
    BY <1>1, <2>1, ProgramGives DEF Mutex, Holds, Inside
<1>2. ASSUME NEW p \in Threads, Step(p)
      PROVE  Mutex'
  <2>1. \A w \in Threads \ {p} : todo'[w] = todo[w] /\ pc'[w] = pc[w]
    BY <1>0, <1>2, StepMoves
  <2>2. \A w \in Threads \ {p} : Holds(w)' => Holds(w) /\ critical = w
    BY <1>0, <2>1 DEF Mutex, Holds, Arg
  <2>3. PlaceOf(p) /\ pc \in [Threads -> Labels] /\ critical \in Threads \cup {None}
    BY <1>0 DEF Places, TypeOK
  <2>4. (Holds(p) => critical = p) /\ None \notin Threads
    BY <1>0, ThreadAssumption DEF Mutex
  <2>5. CASE GetPRNG(p) \/ Begin(p) \/ Find(p) \/ Check(p) \/ Read(p) \/ Return(p) \/ PackBegin(p) \/ PackFind(p)
    <3>1. critical' = critical
      BY <2>5 DEF GetPRNG, Begin, Find, Check, Read, Return, PackBegin, PackFind
    <3>2. pc'[p] \in {"next", "find", "check", "enter", "read", "compute", "pack", "enterParams"}
          \/ GetPRNG(p)
      BY <2>3, <2>5 DEF Begin, Find, Check, Read, Return, PackBegin, PackFind,
         AfterPreCompute, ThenTransform, Goto, Done
    <3>3. ASSUME GetPRNG(p) PROVE ~Holds(p)'
      BY <2>3, <3>3 DEF GetPRNG, Goto, Done, Calling, Holds, Inside, Arg
    <3>4. ~Holds(p)'
      BY <3>2, <3>3 DEF Holds, Inside
    <3> QED
      BY <2>2, <3>1, <3>4 DEF Mutex
  <2>6. CASE EnterPRNG(p) \/ Enter(p) \/ EnterParams(p)
    <3>1. critical = None /\ critical' = p
      BY <2>6 DEF EnterPRNG, Enter, EnterParams
    <3> QED
      BY <2>2, <2>4, <3>1 DEF Mutex
  <2>7. CASE MakePRNG(p) \/ WritePrecon(p)
    <3>1. critical = p
      BY <2>4, <2>7 DEF MakePRNG, WritePrecon, Holds, Inside
    <3>2. pc'[p] \in {"next", "read"}
      BY <2>3, <2>7 DEF MakePRNG, WritePrecon, AfterPreCompute, Goto, Done
    <3>3. ~Holds(p)'
      BY <3>2 DEF Holds, Inside
    <3> QED
      BY <2>2, <3>1, <3>3 DEF Mutex
  <2>8. CASE WriteRoots(p)
    <3>1. critical = p /\ critical' = p
      BY <2>4, <2>8 DEF WriteRoots, Holds, Inside
    <3> QED
      BY <2>2, <3>1 DEF Mutex
  <2>9. CASE SetParams(p)
    <3>1. critical = p
      BY <2>4, <2>9 DEF SetParams, Holds, Inside
    <3>2. CASE p \in prng
      <4>1. ~Holds(p)'
        BY <2>3, <2>9, <3>2 DEF SetParams, ThenTransform, Goto, Holds, Inside
      <4> QED
        BY <2>2, <3>1, <4>1 DEF Mutex
    <3>3. CASE p \notin prng
      <4>1. critical' = p
        BY <2>9, <3>1, <3>3 DEF SetParams
      <4> QED
        BY <2>2, <3>1, <4>1 DEF Mutex
    <3> QED
      BY <3>2, <3>3
  <2> QED
    BY <1>2, <2>5, <2>6, <2>7, <2>8, <2>9 DEF Step
<1>3. CASE UNCHANGED vars
  BY <1>0, <1>3 DEF vars, Mutex, Holds, Arg
<1> QED
  BY <1>1, <1>2, <1>3 DEF Next

\* The base invariant at the start.
LEMMA InitBase == Init => Base
BY ThreadAssumption DEF Init, Base, TypeOK, Places, PlaceOf, Mutex, Holds, Inside, Labels

\* Every step keeps the base invariant.
LEMMA NextBase ==
  ASSUME Base, [Next]_vars
  PROVE  Base'
BY NextTypes, NextPlaces, NextMutex DEF Base

\* Every call a thread has to make is one of the context's calls, and every
\* table is for a ring or missing (TransformNat's static maps).
THEOREM TypesAlways == Spec => []TypeOK
<1>1. Base => TypeOK
  BY DEF Base
<1> QED
  BY <1>1, InitBase, NextBase, PTL DEF Spec

-----------------------------------------------------------------------------
(* The tables of a modulus agree *)

\* Between the two writes of a computation the first table is the new one.
Written == \A p \in Threads : pc[p] = "precon" => roots[Arg(p).q] = Arg(p).r

Agree ==
  \A q \in Moduli :
    roots[q] = precon[q] \/ \E p \in Threads : pc[p] = "precon" /\ Arg(p).q = q

AgreeInv == Base /\ Written /\ Agree

\* Tables that are complete still agree after a step.
LEMMA NextAgree ==
  ASSUME AgreeInv, [Next]_vars
  PROVE  Written' /\ Agree'
<1>0. TypeOK /\ Places /\ Mutex /\ Written /\ Agree /\ Base
  BY DEF AgreeInv, Base
<1>1. CASE Program
  <2>1. \A p \in Threads : pc[p] = "next"
    BY <1>0, <1>1, ProgramGives DEF Empty, Places, PlaceOf
  <2> QED
    BY <1>0, <1>1, <2>1, ProgramGives DEF Written, Agree
<1>2. ASSUME NEW p \in Threads, Step(p)
      PROVE  Written' /\ Agree'
  <2>1. \A w \in Threads \ {p} : todo'[w] = todo[w] /\ pc'[w] = pc[w] /\ Arg(w)' = Arg(w)
    BY <1>0, <1>2, StepMoves DEF Arg
  <2>2. /\ pc \in [Threads -> Labels]
        /\ roots \in [Moduli -> Rings \cup {None}]
        /\ precon \in [Moduli -> Rings \cup {None}]
    BY <1>0 DEF TypeOK
  <2>3. ASSUME NEW w \in Threads, pc[p] \in Inside, pc[w] = "precon" PROVE w = p
    BY <1>0, <2>3 DEF Mutex, Holds, Inside
  <2>4. CASE WriteRoots(p)
    <3>1. todo' = todo /\ precon' = precon /\ pc'[p] = "precon" /\ Arg(p)' = Arg(p)
      BY <2>2, <2>4 DEF WriteRoots, Goto, Arg
    <3>2. roots' = [roots EXCEPT ![Arg(p).q] = Arg(p).r] /\ pc[p] = "roots"
      BY <2>4 DEF WriteRoots
    <3>3. \A w \in Threads : pc[w] # "precon"
      BY <2>3, <3>2 DEF Inside
    <3>4. Arg(p).q \in Moduli
      BY <1>0, <3>2, ArgCall, CallFields DEF Places, PlaceOf
    <3>5. Written'
      BY <2>1, <2>2, <3>1, <3>2, <3>3, <3>4 DEF Written
    <3>6. \A q \in Moduli : roots[q] = precon[q]
      BY <1>0, <3>3 DEF Agree
    <3>7. Agree'
      BY <2>2, <3>1, <3>2, <3>6 DEF Agree
    <3> QED
      BY <3>5, <3>7
  <2>5. CASE WritePrecon(p)
    <3>1. pc[p] = "precon" /\ roots' = roots /\ precon' = [precon EXCEPT ![Arg(p).q] = Arg(p).r]
      BY <2>5 DEF WritePrecon
    <3>2. \A w \in Threads \ {p} : pc[w] # "precon"
      BY <2>3, <3>1 DEF Inside
    <3>3. pc'[p] # "precon"
      BY <2>2, <2>5 DEF WritePrecon, AfterPreCompute, Goto, Done
    <3>4. Arg(p).q \in Moduli
      BY <1>0, <3>1, ArgCall, CallFields DEF Places, PlaceOf
    <3>5. Written'
      BY <2>1, <3>2, <3>3 DEF Written
    <3>6. ASSUME NEW q \in Moduli PROVE roots'[q] = precon'[q]
      <4>1. CASE q = Arg(p).q
        BY <1>0, <2>2, <3>1, <4>1 DEF Written
      <4>2. CASE q # Arg(p).q
        <5>1. roots[q] = precon[q]
          BY <1>0, <3>2, <4>2 DEF Agree
        <5> QED
          BY <2>2, <3>1, <4>2, <5>1
      <4> QED
        BY <4>1, <4>2
    <3> QED
      BY <3>5, <3>6 DEF Agree
  <2>6. CASE ~WriteRoots(p) /\ ~WritePrecon(p)
    <3>1. roots' = roots /\ precon' = precon
      BY <1>2, <2>6 DEF Step, GetPRNG, EnterPRNG, MakePRNG, Begin, Find, Check, Enter, Read,
         Return, PackBegin, PackFind, EnterParams, SetParams, tables
    <3>2. pc'[p] # "precon"
      BY <1>2, <2>2, <2>6 DEF Step, GetPRNG, EnterPRNG, MakePRNG, Begin, Find, Check, Enter, Read,
         Return, PackBegin, PackFind, EnterParams, SetParams, AfterPreCompute, ThenTransform, Goto, Done, Labels
    <3>3. pc[p] # "precon"
      BY <1>2, <2>6 DEF Step, GetPRNG, EnterPRNG, MakePRNG, Begin, Find, Check, Enter, Read,
         Return, PackBegin, PackFind, EnterParams, SetParams
    <3>4. Written'
      BY <1>0, <2>1, <3>1, <3>2 DEF Written
    <3>5. Agree'
      BY <1>0, <2>1, <3>1, <3>3 DEF Agree
    <3> QED
      BY <3>4, <3>5
  <2> QED
    BY <2>4, <2>5, <2>6
<1>3. CASE UNCHANGED vars
  BY <1>0, <1>3 DEF vars, Written, Agree, Arg
<1> QED
  BY <1>1, <1>2, <1>3 DEF Next

\* One thread at a time computes in a critical region, and the tables of a
\* modulus are of one ring whenever no thread is between the two writes of
\* PreComputeTwiddleFactors, for any number of threads, rings and moduli.
THEOREM TablesAgreeAlways == Spec => []TablesAgree
<1>1. Init => AgreeInv
  BY InitBase DEF Init, AgreeInv, Written, Agree
<1>2. AgreeInv /\ [Next]_vars => AgreeInv'
  BY NextBase, NextAgree DEF AgreeInv
<1>3. AgreeInv => TablesAgree
  BY DEF AgreeInv, Base, Mutex, Holds, Agree, TablesAgree
<1> QED
  BY <1>1, <1>2, <1>3, PTL DEF Spec

-----------------------------------------------------------------------------
(* Loops *)

\* The main thread alone; the library's loop over the towers of an element;
\* a loop of the program over what it has warmed up.
Serially == \A p \in Threads \ {Main} : todo[p] = <<>>

OfTowers(r) ==
  /\ \A p \in Threads : \A i \in 1 .. Len(todo[p]) :
       \E q \in ModuliOf(r) : todo[p][i] = Transform(q, r)
  /\ \A p, w \in Threads : p # w =>
       \A i \in 1 .. Len(todo[p]), j \in 1 .. Len(todo[w]) : todo[p][i].q # todo[w][j].q

Uses(r) == {Transform(q, r) : q \in ModuliOf(r) \cup {PlainModulus[r]}} \cup {Pack(r), Draw}

OfProgram(r) ==
  /\ Warm(r)
  /\ \A p \in Threads :
       /\ pc[p] \in {"next", "find", "read", "compute", "pack", "enterPRNG", "makePRNG"}
       /\ \A i \in 1 .. Len(todo[p]) : todo[p][i] \in Uses(r)

Loop == \/ Serially
        \/ \E r \in contexts : OfTowers(r)
        \/ \E r \in Rings : OfProgram(r)

\* The call a thread is in is the first of those left.
LEMMA ArgElement ==
  ASSUME TypeOK, NEW p \in Threads, todo[p] # <<>>
  PROVE  1 \in 1 .. Len(todo[p]) /\ Arg(p) = todo[p][1]
BY TailElements DEF TypeOK, Arg

\* The calls of a loop over towers are transforms.
LEMMA TowerCall ==
  ASSUME NEW r, OfTowers(r), NEW p \in Threads, NEW i \in 1 .. Len(todo[p])
  PROVE  todo[p][i].op = "transform"
<1>1. PICK q \in ModuliOf(r) : todo[p][i] = Transform(q, r)
  BY DEF OfTowers
<1> QED
  BY <1>1 DEF Transform

\* What is left to do was so before, or is the transform of an encoding.
LEMMA MovedElements ==
  ASSUME TypeOK, NEW p \in Threads, Moved(p), NEW i \in 1 .. Len(todo'[p])
  PROVE  \/ \E j \in 1 .. Len(todo[p]) : todo'[p][i] = todo[p][j]
         \/ /\ todo[p] # <<>> /\ Arg(p).op = "pack"
            /\ todo'[p][i] = Transform(Arg(p).q, Arg(p).r)
<1>1. todo[p] \in Seq(Calls)
  BY DEF TypeOK
<1>2. CASE todo'[p] = todo[p]
  BY <1>2
<1>3. CASE todo[p] # <<>> /\ todo'[p] = Tail(todo[p])
  <2>1. i + 1 \in 1 .. Len(todo[p]) /\ todo'[p][i] = todo[p][i + 1]
    BY <1>1, <1>3, TailElements
  <2> QED
    BY <2>1
<1>4. CASE /\ todo[p] # <<>> /\ Arg(p).op = "pack"
           /\ todo'[p] = <<Transform(Arg(p).q, Arg(p).r)>> \o Tail(todo[p])
  <2> DEFINE c == Transform(Arg(p).q, Arg(p).r)
  <2>1. Arg(p).q \in Moduli /\ Arg(p).r \in Rings
    BY <1>4, ArgCall, CallFields
  <2>2. c \in Calls
    BY <2>1, TransformCall
  <2>3. todo'[p] = <<c>> \o Tail(todo[p])
    BY <1>4
  <2> HIDE DEF c
  <2>4. /\ Len(todo'[p]) = Len(todo[p])
        /\ todo'[p][1] = c
        /\ \A j \in 2 .. Len(todo[p]) : todo'[p][j] = todo[p][j]
    BY <1>1, <1>4, <2>2, <2>3, ReplaceElements
  <2>5. i = 1 \/ i \in 2 .. Len(todo[p])
    BY <1>1, <2>4
  <2>6. i \in 1 .. Len(todo[p])
    BY <2>4
  <2>7. CASE i = 1
    BY <1>4, <2>4, <2>7 DEF c
  <2>8. CASE i \in 2 .. Len(todo[p])
    BY <2>4, <2>6, <2>8
  <2> QED
    BY <2>5, <2>7, <2>8
<1> QED
  BY <1>2, <1>3, <1>4 DEF Moved

\* The calls of a loop over towers stay its calls.
LEMMA StepOfTowers ==
  ASSUME Base, NEW r \in contexts, OfTowers(r), NEW p \in Threads, Step(p)
  PROVE  OfTowers(r)'
<1>0. TypeOK /\ Places
  BY DEF Base
<1>1. Moved(p) /\ \A w \in Threads \ {p} : todo'[w] = todo[w]
  BY <1>0, StepMoves
<1>2. r \in Rings
  BY <1>0 DEF TypeOK
<1>3. todo[p] # <<>> => Arg(p).op # "pack"
  BY <1>0, ArgElement, TowerCall
<1>4. ASSUME NEW w \in Threads, NEW i \in 1 .. Len(todo'[w])
      PROVE  \E j \in 1 .. Len(todo[w]) : todo'[w][i] = todo[w][j]
  <2>1. CASE w = p
    BY <1>0, <1>1, <1>3, <1>4, <2>1, MovedElements
  <2>2. CASE w # p
    BY <1>1, <1>4, <2>2
  <2> QED
    BY <2>1, <2>2
<1>5. ASSUME NEW w \in Threads, NEW i \in 1 .. Len(todo'[w])
      PROVE  \E q \in ModuliOf(r) : todo'[w][i] = Transform(q, r)
  <2>1. PICK j \in 1 .. Len(todo[w]) : todo'[w][i] = todo[w][j]
    BY <1>4
  <2> QED
    BY <2>1 DEF OfTowers
<1>6. ASSUME NEW v \in Threads, NEW w \in Threads, v # w,
             NEW i \in 1 .. Len(todo'[v]), NEW j \in 1 .. Len(todo'[w])
      PROVE  todo'[v][i].q # todo'[w][j].q
  <2>1. PICK k \in 1 .. Len(todo[v]) : todo'[v][i] = todo[v][k]
    BY <1>4
  <2>2. PICK l \in 1 .. Len(todo[w]) : todo'[w][j] = todo[w][l]
    BY <1>4
  <2> QED
    BY <1>6, <2>1, <2>2 DEF OfTowers
<1> QED
  BY <1>5, <1>6 DEF OfTowers, ModuliOf

\* A warm loop finds every table and root it looks for.
LEMMA StepOfProgram ==
  ASSUME Base, NEW r \in Rings, OfProgram(r), NEW p \in Threads, Step(p)
  PROVE  OfProgram(r)'
<1>0. TypeOK /\ Places /\ pc \in [Threads -> Labels]
  BY DEF Base, TypeOK
<1>1. Moved(p) /\ contexts' = contexts /\ \A w \in Threads \ {p} : todo'[w] = todo[w] /\ pc'[w] = pc[w]
  BY <1>0, StepMoves
<1>2. pc[p] \in {"next", "find", "read", "compute", "pack", "enterPRNG", "makePRNG"}
  BY DEF OfProgram
<1>3. ASSUME NEW c \in Uses(r)
      PROVE  /\ c.op \in {"transform", "pack", "draw"}
             /\ c.op # "draw" => c.r = r /\ c.q \in ModuliOf(r) \cup {PlainModulus[r]}
             /\ c.op = "pack" => c.q = PlainModulus[r]
  BY DEF Uses, Transform, Pack, Draw
<1>4. todo[p] # <<>> => Arg(p) \in Uses(r)
  BY <1>0, ArgElement DEF OfProgram
<1>5. /\ pc[p] # "next" => todo[p] # <<>>
      /\ pc[p] \in {"find", "read", "compute"} => Arg(p).op = "transform"
      /\ pc[p] = "pack" => Arg(p).op = "pack"
      /\ pc[p] = "makePRNG" => Arg(p).op = "draw"
  BY <1>0 DEF Places, PlaceOf
<1>6. \A q \in ModuliOf(r) \cup {PlainModulus[r]} : roots[q] = r
  BY DEF OfProgram, Warm
<1>7. r \in initRoot /\ r \in contexts
  BY DEF OfProgram, Warm
<1>8. pc[p] = "find" => roots[Arg(p).q] = Arg(p).r
  BY <1>3, <1>4, <1>5, <1>6
<1>9. pc[p] = "pack" => Arg(p).r \in initRoot
  BY <1>3, <1>4, <1>5, <1>7
<1>10. todo[p] # <<>> => Arg(p).op # "precompute"
  BY <1>3, <1>4
<1>11. roots' = roots /\ initRoot' = initRoot
  BY <1>2 DEF Step, GetPRNG, EnterPRNG, MakePRNG, Begin, Find, Check, Enter, WriteRoots, WritePrecon,
     Read, Return, PackBegin, PackFind, EnterParams, SetParams, tables
<1>12. pc'[p] \in {"next", "find", "read", "compute", "pack", "enterPRNG", "makePRNG"}
  BY <1>0, <1>2, <1>8, <1>9, <1>10 DEF Step, GetPRNG, EnterPRNG, MakePRNG, Begin, Find, Check, Enter,
     WriteRoots, WritePrecon, Read, Return, PackBegin, PackFind, EnterParams, SetParams, Calling,
     ThenTransform, Goto, Done
<1>13. ASSUME NEW i \in 1 .. Len(todo'[p]) PROVE todo'[p][i] \in Uses(r)
  <2>1. CASE \E j \in 1 .. Len(todo[p]) : todo'[p][i] = todo[p][j]
    BY <2>1 DEF OfProgram
  <2>2. CASE todo[p] # <<>> /\ Arg(p).op = "pack" /\ todo'[p][i] = Transform(Arg(p).q, Arg(p).r)
    <3>1. Arg(p).q = PlainModulus[r] /\ Arg(p).r = r
      BY <1>3, <1>4, <2>2
    <3> QED
      BY <2>2, <3>1 DEF Uses
  <2> QED
    BY <1>0, <1>1, <1>13, <2>1, <2>2, MovedElements
<1>14. Warm(r)'
  BY <1>1, <1>6, <1>7, <1>11 DEF Warm, ModuliOf
<1>15. ASSUME NEW w \in Threads
       PROVE  /\ pc'[w] \in {"next", "find", "read", "compute", "pack", "enterPRNG", "makePRNG"}
              /\ \A i \in 1 .. Len(todo'[w]) : todo'[w][i] \in Uses(r)
  <2>1. CASE w = p
    BY <1>12, <1>13, <2>1
  <2>2. CASE w # p
    BY <1>1, <2>2 DEF OfProgram
  <2> QED
    BY <2>1, <2>2
<1> QED
  BY <1>14, <1>15 DEF OfProgram, Uses, ModuliOf

\* A step within a loop.
LEMMA StepLoop ==
  ASSUME Base, Loop, NEW p \in Threads, Step(p)
  PROVE  Loop'
<1>0. TypeOK /\ Places
  BY DEF Base
<1>1. Moved(p) /\ contexts' = contexts /\ \A w \in Threads \ {p} : todo'[w] = todo[w]
  BY <1>0, StepMoves
<1>2. CASE Serially
  <2>1. todo[p] = <<>> => todo'[p] = <<>>
    BY <1>1 DEF Moved
  <2> QED
    BY <1>1, <1>2, <2>1 DEF Serially, Loop
<1>3. ASSUME NEW r \in contexts, OfTowers(r) PROVE Loop'
  BY <1>1, <1>3, StepOfTowers DEF Loop
<1>4. ASSUME NEW r \in Rings, OfProgram(r) PROVE Loop'
  BY <1>4, StepOfProgram DEF Loop
<1> QED
  BY <1>2, <1>3, <1>4 DEF Loop

\* Each tower is in the chunk of one thread, and towers have distinct moduli.
LEMMA SwitchLoop ==
  ASSUME TypeOK, NEW r \in contexts, NEW cut \in Chunks(r),
         todo' = [p \in Threads |-> ChunkOf(r, cut, p)]
  PROVE  OfTowers(r)'
<1>0. r \in Rings
  BY DEF TypeOK
<1>1. ASSUME NEW p \in Threads, NEW j \in 1 .. Len(todo'[p])
      PROVE  \E i \in 1 .. Len(Chain[r]) :
               /\ cut[p][1] < i /\ i <= cut[p][2]
               /\ todo'[p][j] = Transform(Chain[r][i], r)
               /\ Chain[r][i] \in ModuliOf(r)
  <2>1. todo'[p] = ChunkOf(r, cut, p)
    OBVIOUS
  <2> QED
    BY <1>0, <1>1, <2>1, ChunkElements
<1>4. \A q : Transform(q, r).q = q
  BY DEF Transform
<1>2. ASSUME NEW p \in Threads, NEW w \in Threads, p # w,
             NEW j \in 1 .. Len(todo'[p]), NEW k \in 1 .. Len(todo'[w])
      PROVE  todo'[p][j].q # todo'[w][k].q
  <2>1. PICK i \in 1 .. Len(Chain[r]) :
          cut[p][1] < i /\ i <= cut[p][2] /\ todo'[p][j] = Transform(Chain[r][i], r)
    BY <1>1
  <2>2. PICK l \in 1 .. Len(Chain[r]) :
          cut[w][1] < l /\ l <= cut[w][2] /\ todo'[w][k] = Transform(Chain[r][l], r)
    BY <1>1
  <2>3. i # l
    BY <1>2, <2>1, <2>2 DEF Chunks
  <2>4. Chain[r][i] # Chain[r][l]
    BY <1>0, <2>3, ThreadAssumption
  <2>5. todo'[p][j].q = Chain[r][i] /\ todo'[w][k].q = Chain[r][l]
    BY <1>4, <2>1, <2>2, Zenon
  <2> QED
    BY <2>4, <2>5
<1>3. \A p \in Threads : \A i \in 1 .. Len(todo'[p]) :
        \E q \in ModuliOf(r) : todo'[p][i] = Transform(q, r)
  BY <1>1
<1> QED
  BY <1>2, <1>3 DEF OfTowers, ModuliOf

\* The start of a loop.
LEMMA ProgramLoop ==
  ASSUME Base, Program
  PROVE  Loop'
<1>0. TypeOK /\ Places /\ todo \in [Threads -> Seq(Calls)]
  BY DEF Base, TypeOK
<1>1. Empty /\ Given /\ pc' = pc /\ roots' = roots /\ initRoot' = initRoot
  BY ProgramGives
<1>2. \A p \in Threads : pc[p] = "next"
  BY <1>0, <1>1 DEF Empty, Places, PlaceOf
<1>3. ASSUME NEW calls, todo' = [todo EXCEPT ![Main] = calls] PROVE Loop'
  <2>1. \A p \in Threads \ {Main} : todo'[p] = <<>>
    BY <1>0, <1>1, <1>3 DEF Empty
  <2> QED
    BY <2>1 DEF Loop, Serially
<1>4. ASSUME NEW r \in contexts, contexts' = contexts, NEW cut \in Chunks(r),
             todo' = [p \in Threads |-> ChunkOf(r, cut, p)]
      PROVE  Loop'
  <2>1. OfTowers(r)'
    BY <1>0, <1>4, SwitchLoop
  <2> QED
    BY <1>4, <2>1 DEF Loop
<1>5. ASSUME NEW r \in Rings, Warm(r), contexts' = contexts,
             NEW body \in [Threads -> {Transform(q, r) : q \in ModuliOf(r)} \cup {Pack(r), Draw}],
             todo' = [p \in Threads |-> <<body[p]>>]
      PROVE  Loop'
  <2>1. Warm(r)'
    BY <1>1, <1>5 DEF Warm, ModuliOf
  <2>2. ASSUME NEW p \in Threads, NEW i \in 1 .. Len(todo'[p]) PROVE todo'[p][i] \in Uses(r)
    <3>1. body[p] \in Uses(r)
      BY DEF Uses
    <3>2. Len(todo'[p]) = 1 /\ todo'[p][1] = body[p]
      BY <1>5
    <3>3. i = 1
      BY <3>2
    <3> QED
      BY <3>1, <3>2, <3>3
  <2>3. OfProgram(r)'
    BY <1>1, <1>2, <2>1, <2>2 DEF OfProgram, Uses, ModuliOf
  <2> QED
    BY <2>3 DEF Loop
<1> QED
  BY <1>1, <1>3, <1>4, <1>5 DEF Given

-----------------------------------------------------------------------------
(* Entries that are there *)

\* The towers of a context have entries, or the main thread has still to
\* compute them before it makes the context known to others.
There(q) == roots[q] # None /\ precon[q] # None

Pending(q) == \E i \in 1 .. Len(todo[Main]) :
                todo[Main][i].op = "precompute" /\ todo[Main][i].q = q

Present == \A r \in contexts : \A q \in ModuliOf(r) : There(q) \/ Pending(q)

TableInv == AgreeInv /\ Loop /\ Present

\* A thread that computes and another that is in a call: different moduli,
\* and the entries are there.
LEMMA Apart ==
  ASSUME Base, Loop, Present, NEW p \in Threads, NEW w \in Threads, p # w,
         pc[p] # "next", pc[w] \in {"roots", "precon"}
  PROVE  Arg(p).q # Arg(w).q /\ There(Arg(w).q)
<1>0. TypeOK /\ Places
  BY DEF Base
<1>1. todo[p] # <<>> /\ todo[w] # <<>>
  BY <1>0 DEF Places, PlaceOf
<1>2. /\ 1 \in 1 .. Len(todo[p]) /\ Arg(p) = todo[p][1]
      /\ 1 \in 1 .. Len(todo[w]) /\ Arg(w) = todo[w][1]
  BY <1>0, <1>1, ArgElement
<1>3. ~Serially
  BY <1>1 DEF Serially
<1>4. \A r \in Rings : ~OfProgram(r)
  BY DEF OfProgram
<1>5. PICK r \in contexts : OfTowers(r)
  BY <1>3, <1>4 DEF Loop
<1>6. Arg(p).q # Arg(w).q
  BY <1>2, <1>5 DEF OfTowers
<1>7. PICK q \in ModuliOf(r) : Arg(w) = Transform(q, r)
  BY <1>2, <1>5 DEF OfTowers
<1>8. ~Pending(q)
  <2>1. ASSUME NEW i \in 1 .. Len(todo[Main]) PROVE todo[Main][i].op = "transform"
    BY <1>5, <2>1, TowerCall, ThreadAssumption
  <2> QED
    BY <2>1 DEF Pending
<1>9. There(q)
  BY <1>5, <1>8 DEF Present
<1> QED
  BY <1>6, <1>7, <1>9 DEF Transform

\* A computation outside a loop has no other thread beside it.
LEMMA Alone ==
  ASSUME Base, Loop, todo[Main] # <<>>, Arg(Main).op = "precompute"
  PROVE  \A w \in Threads \ {Main} : pc[w] = "next"
<1>0. TypeOK /\ Places /\ Main \in Threads
  BY ThreadAssumption DEF Base
<1>1. 1 \in 1 .. Len(todo[Main]) /\ Arg(Main) = todo[Main][1]
  BY <1>0, ArgElement
<1>2. ASSUME NEW r \in contexts, OfTowers(r) PROVE FALSE
  <2>1. Arg(Main).op = "transform"
    BY <1>0, <1>1, <1>2, TowerCall
  <2> QED
    BY <2>1
<1>3. ASSUME NEW r \in Rings, OfProgram(r) PROVE FALSE
  BY <1>0, <1>1, <1>3 DEF OfProgram, Uses, Transform, Pack, Draw
<1>4. Serially
  BY <1>2, <1>3 DEF Loop
<1> QED
  BY <1>0, <1>4 DEF Serially, Places, PlaceOf

\* What is there stays there.
LEMMA StaysThere ==
  ASSUME Base, NEW p \in Threads, Step(p), NEW q \in Moduli, There(q)
  PROVE  There(q)'
<1>0. TypeOK /\ Places
  BY DEF Base
<1>1. todo[p] # <<>> /\ Arg(p).op # "draw" => Arg(p).r \in Rings /\ Arg(p).r # None
  BY <1>0, ArgCall, CallFields, ThreadAssumption
<1>2. CASE WriteRoots(p)
  BY <1>0, <1>1, <1>2 DEF WriteRoots, Places, PlaceOf, TypeOK, There
<1>3. CASE WritePrecon(p)
  BY <1>0, <1>1, <1>3 DEF WritePrecon, Places, PlaceOf, TypeOK, There
<1>4. CASE ~WriteRoots(p) /\ ~WritePrecon(p)
  BY <1>4 DEF There, Step, GetPRNG, EnterPRNG, MakePRNG, Begin, Find, Check, Enter, Read,
     Return, PackBegin, PackFind, EnterParams, SetParams, tables
<1> QED
  BY <1>2, <1>3, <1>4

\* A call of PreCompute ends with the entries there.
LEMMA EndsThere ==
  ASSUME AgreeInv, Loop, Step(Main), todo[Main] # <<>>, Arg(Main).op = "precompute",
         todo'[Main] # todo[Main], NEW q, q = Arg(Main).q
  PROVE  There(q)'
<1>0. /\ Base /\ TypeOK /\ Places /\ Main \in Threads /\ Written /\ Agree
      /\ roots \in [Moduli -> Rings \cup {None}] /\ precon \in [Moduli -> Rings \cup {None}]
  BY ThreadAssumption DEF AgreeInv, Base, TypeOK
<1>1. Arg(Main).q \in Moduli /\ Arg(Main).r \in Rings /\ Arg(Main).r # None
  BY <1>0, ArgCall, CallFields, ThreadAssumption
<1>2. CASE WritePrecon(Main)
  <2>1. /\ pc[Main] = "precon" /\ roots' = roots
        /\ precon' = [precon EXCEPT ![Arg(Main).q] = Arg(Main).r]
    BY <1>2 DEF WritePrecon
  <2>2. roots[Arg(Main).q] = Arg(Main).r
    BY <1>0, <2>1 DEF Written
  <2> QED
    BY <1>0, <1>1, <2>1, <2>2 DEF There
<1>3. CASE Check(Main)
  <2>1. roots[Arg(Main).q] = Arg(Main).r /\ roots' = roots /\ precon' = precon /\ pc[Main] = "check"
    BY <1>3 DEF Check, tables
  <2>2. \A w \in Threads : pc[w] # "precon"
    <3>1. \A w \in Threads \ {Main} : pc[w] = "next"
      BY <1>0, Alone
    <3> QED
      BY <2>1, <3>1
  <2>3. roots[Arg(Main).q] = precon[Arg(Main).q]
    BY <1>0, <1>1, <2>2 DEF Agree
  <2> QED
    BY <1>1, <2>1, <2>3 DEF There
<1>4. CASE ~WritePrecon(Main) /\ ~Check(Main)
  <2>1. PlaceOf(Main)
    BY <1>0 DEF Places
  <2>2. todo' = todo
    BY <1>4, <2>1 DEF PlaceOf, Step, GetPRNG, EnterPRNG, MakePRNG, Begin, Find, Enter, WriteRoots, Read,
       Return, PackBegin, PackFind, EnterParams, SetParams, Calling
  <2> QED
    BY <2>2
<1> QED
  BY <1>2, <1>3, <1>4

\* Entries that a loop relies on stay.
LEMMA StepPresent ==
  ASSUME TableInv, NEW p \in Threads, Step(p)
  PROVE  Present'
<1>0. /\ AgreeInv /\ Base /\ TypeOK /\ Loop /\ Present /\ Main \in Threads
      /\ todo \in [Threads -> Seq(Calls)] /\ contexts \subseteq Rings
  BY ThreadAssumption DEF TableInv, AgreeInv, Base, TypeOK
<1>1. Moved(p) /\ contexts' = contexts /\ \A w \in Threads \ {p} : todo'[w] = todo[w]
  BY <1>0, StepMoves DEF Base
<1>2. ASSUME NEW r \in contexts, NEW q \in ModuliOf(r) PROVE There(q)' \/ Pending(q)'
  <2>1. q \in Moduli
    BY <1>0, CallTypes
  <2>2. CASE There(q)
    BY <1>0, <2>1, <2>2, StaysThere
  <2>3. CASE todo'[Main] = todo[Main] /\ Pending(q)
    BY <2>3 DEF Pending
  <2>4. CASE p = Main /\ todo'[Main] # todo[Main] /\ Pending(q)
    <3>1. PICK i \in 1 .. Len(todo[Main]) : todo[Main][i].op = "precompute" /\ todo[Main][i].q = q
      BY <2>4 DEF Pending
    <3>2. todo[Main] # <<>> /\ todo[Main] \in Seq(Calls)
      BY <1>0, <3>1
    <3>3. Arg(Main) = todo[Main][1]
      BY <1>0, <3>2, ArgElement
    <3>4. CASE i = 1
      <4>1. Arg(Main).op = "precompute" /\ Arg(Main).q = q
        BY <3>1, <3>3, <3>4
      <4> QED
        BY <1>0, <2>4, <3>2, <4>1, EndsThere
    <3>5. CASE i # 1
      <4>1. i \in 2 .. Len(todo[Main]) /\ Len(todo[Main]) \in Nat
        BY <3>2, <3>5
      <4>2. CASE todo'[Main] = Tail(todo[Main])
        <5>1. i - 1 \in 1 .. Len(Tail(todo[Main])) /\ Tail(todo[Main])[i - 1] = todo[Main][i - 1 + 1]
          BY <3>2, <4>1, TailElements
        <5>2. i - 1 + 1 = i
          BY <4>1
        <5> QED
          BY <3>1, <4>2, <5>1, <5>2 DEF Pending
      <4>3. CASE Arg(Main).op = "pack" /\ todo'[Main] = <<Transform(Arg(Main).q, Arg(Main).r)>> \o Tail(todo[Main])
        <5> DEFINE c == Transform(Arg(Main).q, Arg(Main).r)
        <5>1. c \in Calls /\ todo'[Main] = <<c>> \o Tail(todo[Main])
          BY <1>0, <3>2, <4>3, ArgCall, CallFields, TransformCall
        <5> HIDE DEF c
        <5>2. Len(todo'[Main]) = Len(todo[Main]) /\ todo'[Main][i] = todo[Main][i]
          BY <3>2, <4>1, <5>1, ReplaceElements
        <5> QED
          BY <3>1, <5>2 DEF Pending
      <4> QED
        BY <1>1, <2>4, <4>2, <4>3 DEF Moved
    <3> QED
      BY <3>4, <3>5
  <2> QED
    BY <1>0, <1>1, <2>2, <2>3, <2>4 DEF Present
<1> QED
  BY <1>1, <1>2 DEF Present, ModuliOf

\* A new context comes with the calls that compute its tables.
LEMMA ProgramPresent ==
  ASSUME TableInv, Program
  PROVE  Present'
<1>0. /\ Present /\ Main \in Threads /\ todo \in [Threads -> Seq(Calls)] /\ contexts \subseteq Rings
  BY ThreadAssumption DEF TableInv, AgreeInv, Base, TypeOK
<1>1. Empty /\ Given /\ roots' = roots /\ precon' = precon
  BY ProgramGives
<1>2. \A r \in contexts : \A q \in ModuliOf(r) : There(q)'
  <2>1. Len(todo[Main]) = 0
    BY <1>0, <1>1 DEF Empty
  <2>2. \A q : ~Pending(q)
    BY <2>1 DEF Pending
  <2> QED
    BY <1>0, <1>1, <2>2 DEF Present, There
<1>3. ASSUME NEW r \in Rings,
             NEW calls \in {<<Draw>> \o PreComputeAll(r), PreComputeAll(r) \o <<Draw>>, PreComputeAll(r)},
             contexts' = contexts \cup {r},
             todo' = [todo EXCEPT ![Main] = calls]
      PROVE  Present'
  <2>1. ASSUME NEW q \in ModuliOf(r) PROVE Pending(q)'
    <3>1. PICK j \in 1 .. Len(Chain[r]) : q = Chain[r][j]
      BY DEF ModuliOf
    <3> DEFINE s == PreComputeAll(r)
    <3>2. s \in Seq(Calls) /\ Len(s) = Len(Chain[r]) /\ j \in 1 .. Len(s) /\ s[j] = PreCompute(q, r)
      BY <3>1, CallTypes DEF PreComputeAll
    <3>3. <<Draw>> \in Seq(Calls) /\ Len(<<Draw>>) = 1
      BY CallTypes
    <3>4. PreCompute(q, r).op = "precompute" /\ PreCompute(q, r).q = q
      BY DEF PreCompute
    <3>5. todo'[Main] = calls
      BY <1>0, <1>3
    <3> HIDE DEF s
    <3>6. CASE calls = <<Draw>> \o s
      <4>1. /\ Len(calls) = 1 + Len(s)
            /\ \A k \in 1 .. 1 + Len(s) : calls[k] = IF k <= 1 THEN <<Draw>>[k] ELSE s[k - 1]
        BY <3>2, <3>3, <3>6, ConcatProperties
      <4>2. j + 1 \in 1 .. 1 + Len(s) /\ ~(j + 1 <= 1) /\ j + 1 - 1 = j
        BY <3>2
      <4>3. calls[j + 1] = s[j] /\ j + 1 \in 1 .. Len(calls)
        BY <4>1, <4>2
      <4> QED
        BY <3>2, <3>4, <3>5, <4>3 DEF Pending
    <3>7. CASE calls = s \o <<Draw>>
      <4>1. calls[j] = s[j] /\ j \in 1 .. Len(calls)
        BY <3>2, <3>3, <3>7, ConcatProperties
      <4> QED
        BY <3>2, <3>4, <3>5, <4>1 DEF Pending
    <3>8. CASE calls = s
      BY <3>2, <3>4, <3>5, <3>8 DEF Pending
    <3> QED
      BY <3>6, <3>7, <3>8 DEF s
  <2> QED
    BY <1>2, <1>3, <2>1 DEF Present, ModuliOf
<1>4. ASSUME contexts' = contexts PROVE Present'
  BY <1>2, <1>4 DEF Present, ModuliOf
<1> QED
  BY <1>1, <1>3, <1>4 DEF Given

\* The table invariant at the start.
LEMMA InitTables == Init => TableInv
<1> SUFFICES ASSUME Init PROVE TableInv
  OBVIOUS
<1>1. Base /\ Written /\ Agree
  BY InitBase DEF Init, Written, Agree
<1>2. Serially /\ Present
  BY DEF Init, Serially, Present
<1> QED
  BY <1>1, <1>2 DEF TableInv, AgreeInv, Loop

\* Every step keeps the table invariant.
LEMMA NextTables ==
  ASSUME TableInv, [Next]_vars
  PROVE  TableInv'
<1>1. AgreeInv'
  BY NextBase, NextAgree DEF TableInv, AgreeInv
<1>2. CASE Program
  BY <1>1, <1>2, ProgramLoop, ProgramPresent DEF TableInv, AgreeInv
<1>3. ASSUME NEW p \in Threads, Step(p) PROVE TableInv'
  BY <1>1, <1>3, StepLoop, StepPresent DEF TableInv, AgreeInv
<1>4. CASE UNCHANGED vars
  <2>1. Loop'
    BY <1>4 DEF TableInv, vars, Loop, Serially, OfTowers, OfProgram, Warm, ModuliOf, Uses
  <2>2. Present'
    BY <1>4 DEF TableInv, vars, Present, There, Pending, ModuliOf
  <2> QED
    BY <1>1, <2>1, <2>2 DEF TableInv
<1> QED
  BY <1>2, <1>3, <1>4 DEF Next

\* No look-up meets an insertion.
LEMMA Races ==
  ASSUME TableInv
  PROVE  NoRace
<1>0. Base /\ TypeOK /\ Places /\ Loop /\ Present
  BY DEF TableInv, AgreeInv, Base
<1> SUFFICES ASSUME NEW p \in Threads, NEW w \in Threads, p # w
             PROVE  /\ (pc[w] = "roots" /\ pc[p] \in ReadsRoots) =>
                         roots[Arg(w).q] # None /\ Arg(p).q # Arg(w).q
                    /\ (pc[w] = "precon" /\ pc[p] \in ReadsPrecon) =>
                         precon[Arg(w).q] # None /\ Arg(p).q # Arg(w).q
                    /\ (pc[w] \in {"pack", "params"} /\ pc[p] \in {"pack", "params"}) =>
                         Arg(w).r \in initRoot /\ Arg(p).r \in initRoot
  BY DEF NoRace
<1>1. pc[w] = "roots" /\ pc[p] \in ReadsRoots =>
        roots[Arg(w).q] # None /\ Arg(p).q # Arg(w).q
  BY <1>0, Apart DEF ReadsRoots, There
<1>2. pc[w] = "precon" /\ pc[p] \in ReadsPrecon =>
        precon[Arg(w).q] # None /\ Arg(p).q # Arg(w).q
  BY <1>0, Apart DEF ReadsPrecon, There
<1>3. ASSUME pc[w] \in {"pack", "params"}, pc[p] \in {"pack", "params"}
      PROVE  Arg(w).r \in initRoot /\ Arg(p).r \in initRoot
  <2>1. /\ todo[p] # <<>> /\ Arg(p).op = "pack"
        /\ todo[w] # <<>> /\ Arg(w).op = "pack"
    BY <1>0, <1>3 DEF Places, PlaceOf
  <2>2. /\ 1 \in 1 .. Len(todo[p]) /\ Arg(p) = todo[p][1]
        /\ 1 \in 1 .. Len(todo[w]) /\ Arg(w) = todo[w][1]
    BY <1>0, <2>1, ArgElement
  <2>3. ~Serially
    BY <2>1 DEF Serially
  <2>4. ASSUME NEW r \in contexts, OfTowers(r) PROVE FALSE
    <3>1. Arg(p).op = "transform"
      BY <2>2, <2>4, TowerCall
    <3> QED
      BY <2>1, <3>1
  <2>5. PICK r \in Rings : OfProgram(r)
    BY <1>0, <2>3, <2>4 DEF Loop
  <2>6. \A c \in Uses(r) : c.op = "pack" => c.r = r
    BY DEF Uses, Transform, Pack, Draw
  <2>7. Arg(p).r = r /\ Arg(w).r = r /\ r \in initRoot
    BY <2>1, <2>2, <2>5, <2>6 DEF OfProgram, Warm
  <2> QED
    BY <2>7
<1> QED
  BY <1>1, <1>2, <1>3

\* Look-ups of tables and roots outside the critical regions never race with
\* a computation inside one, for any number of threads and moduli: towers
\* have distinct moduli, their entries are computed with the context, and
\* the loops of programs are over what was computed beforehand.
THEOREM NoRaceAlways == Spec => []NoRace
<1>1. TableInv => NoRace
  BY Races
<1>2. TableInv /\ [Next]_vars => TableInv'
  BY NextTables
<1> QED
  BY <1>1, <1>2, InitTables, PTL DEF Spec

-----------------------------------------------------------------------------
(* The tables implement the service *)

Records == [q : Moduli, r : Rings, read : SUBSET (Rings \cup {None})]

\* From its look-up to its return a transform has its own tables.
Right(p) ==
  /\ pc[p] \in {"read", "compute"} => roots[Arg(p).q] = Arg(p).r /\ precon[Arg(p).q] = Arg(p).r
  /\ pc[p] = "compute" => seen[p] = {Arg(p).r}

UseInv ==
  /\ TableInv
  /\ used \in [Threads -> Records \cup {None}]
  /\ seen \in [Threads -> SUBSET (Rings \cup {None})]
  /\ \A p \in Threads : Right(p)

\* Where the first table is of the ring asked for, so is the last.
LEMMA RightEntries ==
  ASSUME TableInv, NEW p \in Threads, pc[p] \in {"find", "check"}, roots[Arg(p).q] = Arg(p).r
  PROVE  precon[Arg(p).q] = Arg(p).r
<1>0. Base /\ TypeOK /\ Places /\ Loop /\ Present /\ Agree
  BY DEF TableInv, AgreeInv, Base
<1>1. Arg(p).q \in Moduli
  BY <1>0, ArgCall, CallFields DEF Places, PlaceOf
<1>2. ASSUME NEW w \in Threads, pc[w] = "precon" PROVE Arg(w).q # Arg(p).q
  BY <1>0, <1>2, Apart
<1> QED
  BY <1>0, <1>1, <1>2 DEF Agree

\* Another thread's step leaves a transform the tables it uses.
LEMMA StepRight ==
  ASSUME UseInv, NEW w \in Threads, Step(w), NEW p \in Threads
  PROVE  Right(p)'
<1>0. /\ TableInv /\ Base /\ TypeOK /\ Places /\ Written /\ Loop /\ Present
      /\ pc \in [Threads -> Labels]
      /\ roots \in [Moduli -> Rings \cup {None}] /\ precon \in [Moduli -> Rings \cup {None}]
      /\ seen \in [Threads -> SUBSET (Rings \cup {None})]
  BY DEF UseInv, TableInv, AgreeInv, Base, TypeOK
<1>1. Right(p)
  BY DEF UseInv
<1>2. CASE p # w
  <2>1. pc'[p] = pc[p] /\ Arg(p)' = Arg(p)
    BY <1>0, <1>2, StepMoves DEF Arg
  <2>2. seen'[p] = seen[p]
    BY <1>0, <1>2 DEF Step, GetPRNG, EnterPRNG, MakePRNG, Begin, Find, Check, Enter, WriteRoots,
       WritePrecon, Read, Return, PackBegin, PackFind, EnterParams, SetParams
  <2>3. ASSUME pc[p] \in {"read", "compute"}
        PROVE  roots'[Arg(p).q] = roots[Arg(p).q] /\ precon'[Arg(p).q] = precon[Arg(p).q]
    <3>1. CASE pc[w] \in {"roots", "precon"}
      <4>1. Arg(p).q # Arg(w).q
        BY <1>0, <1>2, <2>3, <3>1, Apart
      <4>2. Arg(p).q \in Moduli
        BY <1>0, <2>3, ArgCall, CallFields DEF Places, PlaceOf
      <4>3. WriteRoots(w) \/ WritePrecon(w)
        BY <3>1 DEF Step, GetPRNG, EnterPRNG, MakePRNG, Begin, Find, Check, Enter, Read,
           Return, PackBegin, PackFind, EnterParams, SetParams
      <4> QED
        BY <1>0, <4>1, <4>2, <4>3 DEF WriteRoots, WritePrecon
    <3>2. CASE pc[w] \notin {"roots", "precon"}
      BY <3>2 DEF Step, GetPRNG, EnterPRNG, MakePRNG, Begin, Find, Check, Enter, WriteRoots,
         WritePrecon, Read, Return, PackBegin, PackFind, EnterParams, SetParams, tables
    <3> QED
      BY <3>1, <3>2
  <2> QED
    BY <1>1, <2>1, <2>2, <2>3 DEF Right
<1>3. CASE p = w
  <2>0. Step(p)
    BY <1>3
  <2>1. CASE Find(p)
    <3>1. pc[p] = "find" /\ roots' = roots /\ precon' = precon /\ Arg(p)' = Arg(p)
      BY <2>1 DEF Find, tables, Arg
    <3>2. CASE roots[Arg(p).q] = Arg(p).r
      <4>1. precon[Arg(p).q] = Arg(p).r
        BY <1>0, <3>1, <3>2, RightEntries
      <4>2. pc'[p] = "read"
        BY <1>0, <2>1, <3>2 DEF Find, Goto
      <4> QED
        BY <3>1, <3>2, <4>1, <4>2 DEF Right
    <3>3. CASE roots[Arg(p).q] # Arg(p).r
      <4>1. pc'[p] = "check"
        BY <1>0, <2>1, <3>3 DEF Find, Goto
      <4> QED
        BY <4>1 DEF Right
    <3> QED
      BY <3>2, <3>3
  <2>2. CASE Check(p)
    <3>1. pc[p] = "check" /\ roots' = roots /\ precon' = precon
      BY <2>2 DEF Check, tables
    <3>2. CASE roots[Arg(p).q] = Arg(p).r /\ Arg(p).op = "transform"
      <4>1. precon[Arg(p).q] = Arg(p).r
        BY <1>0, <3>1, <3>2, RightEntries
      <4>2. pc'[p] = "read" /\ Arg(p)' = Arg(p)
        BY <1>0, <2>2, <3>2 DEF Check, AfterPreCompute, Goto, Arg
      <4> QED
        BY <3>1, <3>2, <4>1, <4>2 DEF Right
    <3>3. CASE ~(roots[Arg(p).q] = Arg(p).r /\ Arg(p).op = "transform")
      <4>1. pc'[p] \in {"enter", "next"}
        BY <1>0, <2>2, <3>3 DEF Check, AfterPreCompute, Goto, Done
      <4> QED
        BY <4>1 DEF Right
    <3> QED
      BY <3>2, <3>3
  <2>3. CASE WritePrecon(p)
    <3>1. /\ pc[p] = "precon" /\ roots' = roots
          /\ precon' = [precon EXCEPT ![Arg(p).q] = Arg(p).r]
          /\ AfterPreCompute(p)
      BY <2>3 DEF WritePrecon
    <3>2. Arg(p).q \in Moduli /\ roots[Arg(p).q] = Arg(p).r
      BY <1>0, <3>1, ArgCall, CallFields DEF Places, PlaceOf, Written
    <3>3. CASE Arg(p).op = "transform"
      <4>1. Arg(p)' = Arg(p) /\ pc'[p] = "read"
        BY <1>0, <3>1, <3>3 DEF AfterPreCompute, Goto, Arg
      <4>2. precon'[Arg(p).q] = Arg(p).r
        BY <1>0, <3>1, <3>2
      <4> QED
        BY <3>1, <3>2, <4>1, <4>2 DEF Right
    <3>4. CASE Arg(p).op # "transform"
      <4>1. pc'[p] = "next"
        BY <1>0, <3>1, <3>4 DEF AfterPreCompute, Goto, Done
      <4> QED
        BY <4>1 DEF Right
    <3> QED
      BY <3>3, <3>4
  <2>4. CASE Read(p)
    <3>1. pc[p] = "read" /\ roots' = roots /\ precon' = precon /\ Arg(p)' = Arg(p)
      BY <2>4 DEF Read, tables, Arg
    <3>2. seen'[p] = {roots[Arg(p).q], precon[Arg(p).q]}
      BY <1>0, <2>4 DEF Read
    <3> QED
      BY <1>1, <3>1, <3>2 DEF Right
  <2>5. CASE ~Find(p) /\ ~Check(p) /\ ~WritePrecon(p) /\ ~Read(p)
    <3>1. pc'[p] \notin {"read", "compute"}
      BY <1>0, <2>0, <2>5 DEF Step, GetPRNG, EnterPRNG, MakePRNG, Begin, Enter, WriteRoots,
         Return, PackBegin, PackFind, EnterParams, SetParams, ThenTransform, Goto, Done
    <3> QED
      BY <3>1 DEF Right
  <2> QED
    BY <2>1, <2>2, <2>3, <2>4, <2>5
<1> QED
  BY <1>2, <1>3

\* What a transform has used when it returns.
LEMMA ReturnRecord ==
  ASSUME UseInv, NEW p \in Threads, Return(p)
  PROVE  /\ used' = [used EXCEPT ![p] = [q |-> Arg(p).q, r |-> Arg(p).r, read |-> {Arg(p).r}]]
         /\ [q |-> Arg(p).q, r |-> Arg(p).r, read |-> {Arg(p).r}] \in Records
         /\ Arg(p).op = "transform" /\ todo[p] # <<>>
         /\ Arg(p).q \in Moduli /\ Arg(p).r \in Rings
<1>1. /\ pc[p] = "compute"
      /\ used' = [used EXCEPT ![p] = [q |-> Arg(p).q, r |-> Arg(p).r,
                     read |-> seen[p] \cup {roots[Arg(p).q], precon[Arg(p).q]}]]
  BY DEF Return
<1>2. seen[p] \cup {roots[Arg(p).q], precon[Arg(p).q]} = {Arg(p).r}
  BY <1>1 DEF UseInv, Right
<1>3. TypeOK /\ Places
  BY DEF UseInv, TableInv, AgreeInv, Base
<1>4. todo[p] # <<>> /\ Arg(p).op = "transform"
  BY <1>1, <1>3 DEF Places, PlaceOf
<1>5. Arg(p).q \in Moduli /\ Arg(p).r \in Rings
  BY <1>3, <1>4, ArgCall, CallFields
<1> QED
  BY <1>1, <1>2, <1>4, <1>5 DEF Records

\* Every step keeps what transforms use.
LEMMA NextUse ==
  ASSUME UseInv, [Next]_vars
  PROVE  UseInv'
<1>0. /\ TableInv /\ Base /\ TypeOK /\ Places
      /\ used \in [Threads -> Records \cup {None}]
      /\ seen \in [Threads -> SUBSET (Rings \cup {None})]
  BY DEF UseInv, TableInv, AgreeInv, Base
<1>1. TableInv'
  BY <1>0, NextTables
<1>2. CASE Program
  <2>1. \A p \in Threads : pc[p] = "next"
    BY <1>0, <1>2, ProgramGives DEF Empty, Places, PlaceOf
  <2>2. pc' = pc /\ seen' = seen /\ used' = [p \in Threads |-> None]
    BY <1>2, ProgramGives
  <2>3. \A p \in Threads : Right(p)'
    BY <2>1, <2>2 DEF Right
  <2> QED
    BY <1>0, <1>1, <2>2, <2>3 DEF UseInv, Records
<1>3. ASSUME NEW p \in Threads, Step(p) PROVE UseInv'
  <2>1. \A w \in Threads : Right(w)'
    BY <1>3, StepRight
  <2>2. CASE Return(p)
    <3>1. used' \in [Threads -> Records \cup {None}]
      BY <1>0, <2>2, ReturnRecord
    <3>2. seen' = [seen EXCEPT ![p] = {}]
      BY <2>2 DEF Return
    <3>3. seen' \in [Threads -> SUBSET (Rings \cup {None})]
      BY <1>0, <3>2
    <3> QED
      BY <1>1, <2>1, <3>1, <3>3 DEF UseInv, Records
  <2>3. CASE Read(p)
    <3>1. todo[p] # <<>> /\ Arg(p).op = "transform"
      BY <1>0, <2>3 DEF Read, Places, PlaceOf
    <3>2. Arg(p).q \in Moduli
      BY <1>0, <3>1, ArgCall, CallFields
    <3>3. {roots[Arg(p).q], precon[Arg(p).q]} \in SUBSET (Rings \cup {None})
      BY <1>0, <3>2 DEF TypeOK
    <3>4. seen' = [seen EXCEPT ![p] = {roots[Arg(p).q], precon[Arg(p).q]}] /\ used' = used
      BY <2>3 DEF Read
    <3>5. seen' \in [Threads -> SUBSET (Rings \cup {None})]
      BY <1>0, <3>3, <3>4
    <3> QED
      BY <1>0, <1>1, <2>1, <3>4, <3>5 DEF UseInv, Records
  <2>4. CASE ~Return(p) /\ ~Read(p)
    <3>1. used' = used /\ seen' = seen
      BY <1>3, <2>4 DEF Step, GetPRNG, EnterPRNG, MakePRNG, Begin, Find, Check, Enter, WriteRoots,
         WritePrecon, PackBegin, PackFind, EnterParams, SetParams
    <3> QED
      BY <1>0, <1>1, <2>1, <3>1 DEF UseInv, Records
  <2> QED
    BY <2>2, <2>3, <2>4
<1>4. CASE UNCHANGED vars
  BY <1>1, <1>4 DEF UseInv, vars, Right, Arg, Records
<1> QED
  BY <1>2, <1>3, <1>4 DEF Next

\* What the service sees of a thread.
WantOf(p) == IF pc[p] # "next" /\ Calling(p, "transform") THEN <<Arg(p).q, Arg(p).r>> ELSE None

GotOf(p) == IF used[p] = None THEN None
            ELSE IF used[p].read = {used[p].r} THEN <<used[p].q, used[p].r>>
            ELSE <<used[p].q, used[p].read>>

Want == [p \in Threads |-> WantOf(p)]
Got == [p \in Threads |-> GotOf(p)]

\* Only the start and the return of a transform change what is wanted.
LEMMA StepWant ==
  ASSUME UseInv, NEW p \in Threads, Step(p)
  PROVE  /\ \A w \in Threads \ {p} : WantOf(w)' = WantOf(w)
         /\ ~Begin(p) /\ ~Return(p) => WantOf(p)' = WantOf(p)
<1>0. TypeOK /\ Places /\ PlaceOf(p) /\ pc \in [Threads -> Labels]
  BY DEF UseInv, TableInv, AgreeInv, Base, TypeOK, Places
<1>1. \A w \in Threads \ {p} : todo'[w] = todo[w] /\ pc'[w] = pc[w]
  BY <1>0, StepMoves
<1>2. \A w \in Threads \ {p} : WantOf(w)' = WantOf(w)
  BY <1>1 DEF WantOf, Calling, Arg
<1>3. ASSUME ~Begin(p), ~Return(p) PROVE WantOf(p)' = WantOf(p)
  <2>1. CASE pc'[p] # "next"
    <3>1. todo'[p] = todo[p]
      BY <1>0, <2>1, StepMoves DEF Moved
    <3>2. pc[p] # "next" \/ ~Calling(p, "transform")
      BY <1>3 DEF Step, GetPRNG, EnterPRNG, MakePRNG, Find, Check, Enter, WriteRoots, WritePrecon,
         Read, PackBegin, PackFind, EnterParams, SetParams, Calling
    <3> QED
      BY <2>1, <3>1, <3>2 DEF WantOf, Calling, Arg
  <2>2. CASE pc'[p] = "next"
    <3>1. ~(pc[p] # "next" /\ Calling(p, "transform"))
      BY <1>0, <1>3, <2>2 DEF PlaceOf, Step, GetPRNG, EnterPRNG, MakePRNG, Find, Check, Enter, WriteRoots,
         WritePrecon, Read, PackBegin, PackFind, EnterParams, SetParams, AfterPreCompute, Goto, Calling
    <3> QED
      BY <2>2, <3>1 DEF WantOf
  <2> QED
    BY <2>1, <2>2
<1> QED
  BY <1>2, <1>3

\* Only its return changes what was got.
LEMMA StepGot ==
  ASSUME UseInv, NEW p \in Threads, Step(p), ~Return(p)
  PROVE  \A w \in Threads : GotOf(w)' = GotOf(w)
<1>1. used' = used
  BY DEF Step, GetPRNG, EnterPRNG, MakePRNG, Begin, Find, Check, Enter, WriteRoots,
     WritePrecon, Read, PackBegin, PackFind, EnterParams, SetParams
<1> QED
  BY <1>1 DEF GotOf

\* The start of a transform is a request.
LEMMA AskedFor ==
  ASSUME UseInv, NEW p \in Threads, Begin(p)
  PROVE  /\ WantOf(p) = None
         /\ WantOf(p)' \in (Moduli \X Rings) \cup {None}
<1>0. TypeOK /\ pc \in [Threads -> Labels]
  BY DEF UseInv, TableInv, AgreeInv, Base, TypeOK
<1>1. pc[p] = "next" /\ todo' = todo
  BY DEF Begin
<1>2. CASE Calling(p, "transform")
  <2>1. Arg(p).q \in Moduli /\ Arg(p).r \in Rings
    BY <1>0, <1>2, ArgCall, CallFields DEF Calling
  <2> QED
    BY <1>1, <2>1 DEF WantOf, Calling, Arg
<1>3. CASE ~Calling(p, "transform")
  BY <1>1, <1>3 DEF WantOf, Calling, Arg
<1> QED
  BY <1>2, <1>3

\* The return of a transform is an answer.
LEMMA Answered ==
  ASSUME UseInv, NEW p \in Threads, Return(p)
  PROVE  /\ WantOf(p) \in Moduli \X Rings
         /\ WantOf(p)' = None
         /\ GotOf(p)' = WantOf(p)
         /\ \A w \in Threads \ {p} : GotOf(w)' = GotOf(w)
<1> DEFINE x == [q |-> Arg(p).q, r |-> Arg(p).r, read |-> {Arg(p).r}]
<1>0. pc \in [Threads -> Labels] /\ used \in [Threads -> Records \cup {None}]
  BY DEF UseInv, TableInv, AgreeInv, Base, TypeOK
<1>1. /\ used' = [used EXCEPT ![p] = x] /\ x \in Records
      /\ Arg(p).op = "transform" /\ todo[p] # <<>>
      /\ Arg(p).q \in Moduli /\ Arg(p).r \in Rings
  BY ReturnRecord
<1>2. x # None
  BY <1>1, ThreadAssumption DEF Records
<1>3. x.q = Arg(p).q /\ x.r = Arg(p).r /\ x.read = {Arg(p).r}
  OBVIOUS
<1>4. pc[p] = "compute" /\ pc'[p] = "next"
  BY <1>0 DEF Return, Done, Goto
<1>5. WantOf(p) = <<Arg(p).q, Arg(p).r>> /\ WantOf(p)' = None
  BY <1>1, <1>4 DEF WantOf, Calling
<1> HIDE DEF x
<1>6. used'[p] = x /\ \A w \in Threads \ {p} : used'[w] = used[w]
  BY <1>0, <1>1
<1>7. GotOf(p)' = <<Arg(p).q, Arg(p).r>>
  BY <1>2, <1>3, <1>6 DEF GotOf
<1>8. \A w \in Threads \ {p} : GotOf(w)' = GotOf(w)
  BY <1>6 DEF GotOf
<1> QED
  BY <1>1, <1>5, <1>7, <1>8

\* Every step of the tables is a step of the service, or hidden from it.
LEMMA Simulates ==
  ASSUME UseInv, [Next]_vars
  PROVE  \/ Want' = Want /\ Got' = Got
         \/ Got' = [p \in Threads |-> None] /\ Want' = Want
         \/ \E p \in Threads :
              \/ /\ Want[p] = None
                 /\ \E x \in Moduli \X Rings : Want' = [Want EXCEPT ![p] = x]
                 /\ Got' = Got
              \/ /\ Want[p] # None
                 /\ Got' = [Got EXCEPT ![p] = Want[p]]
                 /\ Want' = [Want EXCEPT ![p] = None]
<1>1. CASE Program
  <2>1. \A p \in Threads : pc[p] = "next"
    BY <1>1, ProgramGives DEF Empty, Places, PlaceOf, UseInv, TableInv, AgreeInv, Base
  <2>2. pc' = pc /\ used' = [p \in Threads |-> None]
    BY <1>1, ProgramGives
  <2>3. \A p \in Threads : WantOf(p) = None /\ WantOf(p)' = None /\ GotOf(p)' = None
    BY <2>1, <2>2 DEF WantOf, GotOf
  <2> QED
    BY <2>3 DEF Want, Got
<1>2. ASSUME NEW p \in Threads, Step(p), ~Begin(p), ~Return(p)
      PROVE  Want' = Want /\ Got' = Got
  BY <1>2, StepWant, StepGot DEF Want, Got
<1>3. ASSUME NEW p \in Threads, Begin(p)
      PROVE  \/ Want' = Want /\ Got' = Got
             \/ /\ Want[p] = None
                /\ \E x \in Moduli \X Rings : Want' = [Want EXCEPT ![p] = x]
                /\ Got' = Got
  <2>1. Step(p) /\ ~Return(p)
    BY <1>3 DEF Step, Begin, Return
  <2>2. Got' = Got
    BY <2>1, StepGot DEF Got
  <2>3. \A w \in Threads \ {p} : WantOf(w)' = WantOf(w)
    BY <2>1, StepWant
  <2>4. WantOf(p) = None /\ WantOf(p)' \in (Moduli \X Rings) \cup {None}
    BY <1>3, AskedFor
  <2>5. Want' = [Want EXCEPT ![p] = WantOf(p)']
    BY <2>3 DEF Want
  <2>6. Want[p] = None
    BY <2>4 DEF Want
  <2>7. CASE WantOf(p)' = None
    BY <2>2, <2>3, <2>4, <2>7 DEF Want
  <2>8. CASE WantOf(p)' \in Moduli \X Rings
    BY <2>2, <2>5, <2>6, <2>8
  <2> QED
    BY <2>4, <2>7, <2>8
<1>4. ASSUME NEW p \in Threads, Return(p)
      PROVE  /\ Want[p] # None
             /\ Got' = [Got EXCEPT ![p] = Want[p]]
             /\ Want' = [Want EXCEPT ![p] = None]
  <2>1. \A w \in Threads \ {p} : WantOf(w)' = WantOf(w)
    BY <1>4, StepWant DEF Step
  <2>2. /\ WantOf(p) \in Moduli \X Rings /\ WantOf(p)' = None /\ GotOf(p)' = WantOf(p)
        /\ \A w \in Threads \ {p} : GotOf(w)' = GotOf(w)
    BY <1>4, Answered
  <2>3. WantOf(p) # None
    BY <2>2, ThreadAssumption
  <2> QED
    BY <2>1, <2>2, <2>3 DEF Want, Got
<1>5. CASE UNCHANGED vars
  BY <1>5 DEF vars, Want, Got, WantOf, GotOf, Calling, Arg
<1>6. ASSUME NEW p \in Threads, Step(p) PROVE Begin(p) \/ Return(p) \/ (~Begin(p) /\ ~Return(p))
  OBVIOUS
<1> QED
  BY <1>1, <1>2, <1>3, <1>4, <1>5, <1>6 DEF Next

\* Every transform is made with tables of its own modulus and its own ring,
\* whatever contexts have made of the shared tables since the thread looked
\* them up: the tables implement the service, its fairness apart.
THEOREM TransformsAreRight == Spec => Service!Init /\ [][Service!Next]_(Service!vars)
<1>1. Init => UseInv /\ Service!Init
  <2> SUFFICES ASSUME Init PROVE UseInv /\ Service!Init
    OBVIOUS
  <2>1. TableInv
    BY InitTables
  <2>2. /\ used = [p \in Threads |-> None] /\ seen = [p \in Threads |-> {}]
        /\ pc = [p \in Threads |-> "next"]
    BY DEF Init
  <2>3. UseInv
    BY <2>1, <2>2 DEF UseInv, Right
  <2>4. Service!Init
    BY <2>2 DEF Service!Init
  <2> QED
    BY <2>3, <2>4
<1>2. UseInv /\ [Next]_vars => UseInv'
  BY NextUse
<1>3. UseInv /\ [Next]_vars => [Service!Next]_(Service!vars)
  <2> SUFFICES ASSUME UseInv, [Next]_vars PROVE [Service!Next]_(Service!vars)
    OBVIOUS
  <2> QED
    BY Simulates DEF Service!Next, Service!vars, Service!Ask, Service!Answer, Service!Collect,
       Want, Got, WantOf, GotOf
<1> QED
  BY <1>1, <1>2, <1>3, PTL DEF Spec
-----------------------------------------------------------------------------
(* The critical region is always left                                        *)

\* Contexts whose making or loading draws random numbers leave the main thread
\* with a generator, or with the call that makes one; so it never makes its
\* generator inside the region, where the roots of packed encodings are found,
\* and no other thread has such a root to find.
Supplied ==
  /\ contexts # {} =>
       Main \in prng \/ \E i \in 1 .. Len(todo[Main]) : todo[Main][i].op = "draw"
  /\ \A p \in Threads : \A i \in 1 .. Len(todo[p]) :
       todo[p][i].op = "pack" => p \in prng \/ todo[p][i].r \in initRoot
  /\ \A p \in Threads : pc[p] \in {"enterParams", "params"} => p \in prng
  /\ \A p \in Threads : pc[p] = "enterPRNG" => Arg(p).op = "draw"

\* Whoever has the lock is in the region.
Held == critical # None => Holds(critical)

SupplyInv == Base /\ Supplied /\ Held

\* What a step does to generators and roots: none is lost, and a call for a
\* random number that is over leaves a generator.
LEMMA StepSupplies ==
  ASSUME Base, NEW p \in Threads, Step(p)
  PROVE  /\ prng \subseteq prng' /\ initRoot \subseteq initRoot'
         /\ todo[p] # <<>> /\ Arg(p).op = "draw" => todo'[p] = todo[p] \/ p \in prng'
<1>1. PlaceOf(p) /\ (todo[p] # <<>> => Arg(p) \in Calls)
  BY ArgCall DEF Base, Places
<1>2. CASE GetPRNG(p)
  BY <1>2 DEF GetPRNG, Goto, Done
<1>3. CASE EnterPRNG(p) \/ MakePRNG(p)
  BY <1>3 DEF EnterPRNG, MakePRNG
<1>4. CASE Begin(p) \/ Find(p) \/ Enter(p) \/ WriteRoots(p) \/ Read(p)
  BY <1>4 DEF Begin, Find, Enter, WriteRoots, Read
<1>5. CASE Check(p) \/ WritePrecon(p)
  BY <1>1, <1>5 DEF PlaceOf, Check, WritePrecon
<1>6. CASE Return(p)
  BY <1>1, <1>6 DEF PlaceOf, Return
<1>7. CASE PackBegin(p) \/ EnterParams(p)
  BY <1>7 DEF PackBegin, EnterParams
<1>8. CASE PackFind(p) \/ SetParams(p)
  BY <1>1, <1>8 DEF PlaceOf, PackFind, SetParams
<1> QED
  BY <1>2, <1>3, <1>4, <1>5, <1>6, <1>7, <1>8 DEF Step

\* Where the calls of a thread that has moved come from.
LEMMA MovedFrom ==
  ASSUME TypeOK, NEW p \in Threads, Moved(p),
         NEW j \in 1 .. Len(todo'[p]), todo'[p][j].op # "transform"
  PROVE  \E i \in 1 .. Len(todo[p]) : todo'[p][j] = todo[p][i]
<1>0. todo[p] \in Seq(Calls)
  BY DEF TypeOK
<1>1. CASE todo'[p] = todo[p]
  BY <1>1
<1>2. CASE todo[p] # <<>> /\ todo'[p] = Tail(todo[p])
  BY <1>0, <1>2, TailElements
<1>3. CASE /\ todo[p] # <<>> /\ Arg(p).op = "pack"
           /\ todo'[p] = <<Transform(Arg(p).q, Arg(p).r)>> \o Tail(todo[p])
  <2>1. Arg(p).q \in Moduli /\ Arg(p).r \in Rings
    BY <1>3, ArgCall, CallFields
  <2>2. Transform(Arg(p).q, Arg(p).r) \in Calls /\ Transform(Arg(p).q, Arg(p).r).op = "transform"
    BY <2>1, TransformCall
  <2>3. /\ Len(todo'[p]) = Len(todo[p]) /\ todo'[p][1].op = "transform"
        /\ \A i \in 2 .. Len(todo[p]) : todo'[p][i] = todo[p][i]
    BY <1>0, <1>3, <2>2, ReplaceElements
  <2>4. j # 1
    BY <2>3
  <2>5. Len(todo[p]) \in Nat
    BY <1>0
  <2>6. j \in 2 .. Len(todo[p]) /\ j \in 1 .. Len(todo[p])
    BY <2>3, <2>4, <2>5
  <2> QED
    BY <2>3, <2>6
<1> QED
  BY <1>1, <1>2, <1>3 DEF Moved

\* A call for a random number stays, or is over.
LEMMA DrawStays ==
  ASSUME TypeOK, NEW p \in Threads, Moved(p),
         NEW i \in 1 .. Len(todo[p]), todo[p][i].op = "draw",
         Arg(p).op = "draw" => todo'[p] = todo[p]
  PROVE  \E j \in 1 .. Len(todo'[p]) : todo'[p][j].op = "draw"
<1>0. todo[p] \in Seq(Calls) /\ Len(todo[p]) \in Nat
  BY DEF TypeOK
<1>1. CASE todo'[p] = todo[p]
  BY <1>1
<1>2. ASSUME todo'[p] # todo[p], todo[p] # <<>>
      PROVE  i \in 2 .. Len(todo[p])
  <2>1. i # 1
    BY <1>2, ArgCall
  <2> QED
    BY <1>0, <2>1
<1>3. CASE todo'[p] # todo[p] /\ todo[p] # <<>> /\ todo'[p] = Tail(todo[p])
  <2>1. /\ Len(Tail(todo[p])) = Len(todo[p]) - 1
        /\ \A j \in 1 .. Len(Tail(todo[p])) : Tail(todo[p])[j] = todo[p][j + 1]
    BY <1>0, <1>3, TailElements
  <2>2. i - 1 \in 1 .. Len(Tail(todo[p])) /\ (i - 1) + 1 = i
    BY <1>0, <1>2, <1>3, <2>1
  <2>3. Tail(todo[p])[i - 1] = todo[p][i]
    BY <2>1, <2>2
  <2> QED
    BY <1>3, <2>2, <2>3
<1>4. CASE /\ todo'[p] # todo[p] /\ todo[p] # <<>> /\ Arg(p).op = "pack"
           /\ todo'[p] = <<Transform(Arg(p).q, Arg(p).r)>> \o Tail(todo[p])
  <2>1. Arg(p).q \in Moduli /\ Arg(p).r \in Rings
    BY <1>4, ArgCall, CallFields
  <2>2. Transform(Arg(p).q, Arg(p).r) \in Calls
    BY <2>1, TransformCall
  <2>3. Len(todo'[p]) = Len(todo[p]) /\ \A k \in 2 .. Len(todo[p]) : todo'[p][k] = todo[p][k]
    BY <1>0, <1>4, <2>2, ReplaceElements
  <2> QED
    BY <1>2, <1>4, <2>3
<1> QED
  BY <1>1, <1>3, <1>4 DEF Moved

\* A step leaves the main thread its generator, or the call that makes it, and
\* all threads what their packed encodings need.
LEMMA StepSupplied ==
  ASSUME Base, Supplied, NEW p \in Threads, Step(p)
  PROVE  Supplied'
<1>0. TypeOK /\ Places /\ PlaceOf(p)
  BY DEF Base, Places
<1>1. /\ Moved(p)
      /\ \A w \in Threads \ {p} : todo'[w] = todo[w] /\ pc'[w] = pc[w]
      /\ contexts' = contexts
  BY <1>0, StepMoves
<1>2. /\ prng \subseteq prng' /\ initRoot \subseteq initRoot'
      /\ todo[p] # <<>> /\ Arg(p).op = "draw" => todo'[p] = todo[p] \/ p \in prng'
  BY StepSupplies
<1>3. ASSUME contexts' # {}, Main \notin prng'
      PROVE  \E i \in 1 .. Len(todo'[Main]) : todo'[Main][i].op = "draw"
  <2>1. PICK i \in 1 .. Len(todo[Main]) : todo[Main][i].op = "draw"
    BY <1>1, <1>2, <1>3 DEF Supplied
  <2>2. CASE p # Main
    BY <1>1, <2>1, <2>2, ThreadAssumption
  <2>3. CASE p = Main
    <3>1. todo[p] \in Seq(Calls)
      BY <1>0 DEF TypeOK
    <3>2. todo[p] # <<>>
      BY <2>1, <2>3, <3>1
    <3>3. Arg(p).op = "draw" => todo'[p] = todo[p]
      BY <1>2, <1>3, <2>3, <3>2
    <3> QED
      BY <1>0, <1>1, <2>1, <2>3, <3>3, DrawStays
  <2> QED
    BY <2>2, <2>3
<1>4. ASSUME NEW w \in Threads, NEW j \in 1 .. Len(todo'[w]), todo'[w][j].op = "pack"
      PROVE  w \in prng' \/ todo'[w][j].r \in initRoot'
  <2>1. PICK i \in 1 .. Len(todo[w]) : todo'[w][j] = todo[w][i]
    <3>1. CASE w # p
      BY <1>1, <1>4, <3>1
    <3>2. CASE w = p
      BY <1>0, <1>1, <1>4, <3>2, MovedFrom
    <3> QED
      BY <3>1, <3>2
  <2> QED
    BY <1>2, <1>4, <2>1 DEF Supplied
<1>5. pc \in [Threads -> Labels] /\ (pc[p] # "next" => todo[p] # <<>>)
  BY <1>0 DEF TypeOK, PlaceOf
<1>6. /\ pc'[p] \in {"enterParams", "params"} => p \in prng'
      /\ pc'[p] = "enterPRNG" => Arg(p)'.op = "draw"
  <2>1. CASE GetPRNG(p)
    BY <1>5, <2>1 DEF GetPRNG, Calling, Done, Goto, Arg
  <2>2. CASE EnterPRNG(p) \/ MakePRNG(p) \/ Begin(p) \/ Find(p) \/ Enter(p) \/ WriteRoots(p) \/ Read(p)
             \/ Return(p) \/ PackBegin(p)
    BY <1>5, <2>2 DEF EnterPRNG, MakePRNG, Begin, Find, Enter, WriteRoots, Read, Return, PackBegin,
       Goto, Done
  <2>3. CASE Check(p) \/ WritePrecon(p)
    BY <1>5, <2>3 DEF Check, WritePrecon, AfterPreCompute, Goto, Done
  <2>4. CASE PackFind(p)
    <3>1. pc[p] = "pack" /\ todo[p] # <<>> /\ Arg(p).op = "pack"
      BY <1>0, <2>4 DEF PackFind, PlaceOf
    <3>2. Arg(p) = todo[p][1] /\ 1 \in 1 .. Len(todo[p])
      BY <1>0, <3>1, ArgCall, TailElements DEF TypeOK
    <3>3. p \in prng \/ Arg(p).r \in initRoot
      BY <3>1, <3>2 DEF Supplied
    <3> QED
      BY <1>2, <1>5, <2>4, <3>3 DEF PackFind, ThenTransform, Goto
  <2>5. CASE EnterParams(p)
    BY <1>2, <1>5, <2>5 DEF EnterParams, Goto, Supplied
  <2>6. CASE SetParams(p)
    <3>1. p \in prng
      BY <2>6 DEF SetParams, Supplied
    <3> QED
      BY <1>5, <2>6, <3>1 DEF SetParams, ThenTransform, Goto
  <2> QED
    BY <2>1, <2>2, <2>3, <2>4, <2>5, <2>6 DEF Step
<1>7. \A w \in Threads : pc'[w] \in {"enterParams", "params"} => w \in prng'
  BY <1>1, <1>2, <1>6 DEF Supplied
<1>8. \A w \in Threads : pc'[w] = "enterPRNG" => Arg(w)'.op = "draw"
  BY <1>1, <1>6 DEF Supplied, Arg
<1> QED
  BY <1>3, <1>4, <1>7, <1>8 DEF Supplied

\* A step that has the lock is in the region, and one that leaves it has not.
LEMMA StepHeld ==
  ASSUME Base, Held, NEW p \in Threads, Step(p)
  PROVE  Held'
<1>0. TypeOK /\ Places /\ PlaceOf(p) /\ pc \in [Threads -> Labels] /\ (Holds(p) => critical = p)
  BY DEF Base, Places, TypeOK, Mutex
<1>1. \A w \in Threads \ {p} : todo'[w] = todo[w] /\ pc'[w] = pc[w]
  BY <1>0, StepMoves
<1>2. \A w \in Threads \ {p} : Holds(w)' <=> Holds(w)
  BY <1>1 DEF Holds, Arg
<1>3. critical' = critical \/ critical' = None \/ critical' = p
  BY DEF Step, GetPRNG, EnterPRNG, MakePRNG, Begin, Find, Check, Enter, WriteRoots, WritePrecon,
     Read, Return, PackBegin, PackFind, EnterParams, SetParams
<1>4. critical' = p => Holds(p)'
  <2>1. CASE critical = p
    <3>1. Holds(p)
      BY <2>1, ThreadAssumption DEF Held
    <3> SUFFICES ASSUME critical' = p PROVE Holds(p)'
      OBVIOUS
    <3>2. p # None
      BY ThreadAssumption
    <3>3. pc[p] \in {"makePRNG", "roots", "precon", "params", "enterPRNG"}
      BY <3>1 DEF Holds, Inside
    <3>4. CASE EnterPRNG(p) \/ MakePRNG(p) \/ WritePrecon(p)
      BY <2>1, <3>2, <3>4 DEF EnterPRNG, MakePRNG, WritePrecon
    <3>5. CASE WriteRoots(p)
      BY <1>0, <3>5 DEF WriteRoots, Goto, Holds, Inside
    <3>6. CASE SetParams(p)
      BY <1>0, <3>2, <3>6 DEF SetParams, Goto, Holds, Inside, PlaceOf, Arg
    <3> QED
      BY <3>3, <3>4, <3>5, <3>6 DEF Step, GetPRNG, Begin, Find, Check, Enter,
         Read, Return, PackBegin, PackFind, EnterParams
  <2>2. CASE critical # p
    <3> SUFFICES ASSUME critical' = p PROVE Holds(p)'
      OBVIOUS
    <3>1. p # None
      BY ThreadAssumption
    <3>2. CASE EnterPRNG(p) \/ Enter(p) \/ EnterParams(p)
      BY <1>0, <3>2 DEF EnterPRNG, Enter, EnterParams, Goto, Holds, Inside
    <3>3. CASE ~(EnterPRNG(p) \/ Enter(p) \/ EnterParams(p))
      BY <2>2, <3>1, <3>3 DEF Step, GetPRNG, MakePRNG, Begin, Find, Check, WriteRoots, WritePrecon,
         Read, Return, PackBegin, PackFind, SetParams
    <3> QED
      BY <3>2, <3>3
  <2> QED
    BY <2>1, <2>2
<1>5. ASSUME critical' = critical, critical' # None, critical # p
      PROVE  Holds(critical)'
  <2>1. critical \in Threads \ {p} /\ Holds(critical)
    BY <1>0, <1>5 DEF TypeOK, Held
  <2>2. PICK w \in Threads \ {p} : w = critical
    BY <2>1
  <2>3. Holds(w)'
    BY <1>2, <2>1, <2>2
  <2> QED
    BY <1>5, <2>2, <2>3 DEF Holds, Arg
<1> QED
  BY <1>3, <1>4, <1>5 DEF Held, Holds, Arg

\* A program of contexts that draw random numbers keeps its threads supplied.
LEMMA ProgramSupplied ==
  ASSUME KeySwitching \subseteq {"HYBRID"}, SupplyInv, Program
  PROVE  Supplied' /\ Held'
<1>0. TypeOK /\ Places /\ Supplied /\ Held
  BY DEF SupplyInv, Base
<1>1. Empty /\ UNCHANGED <<initRoot, prng, critical, pc>>
  BY ProgramGives
<1>2. \A p \in Threads : pc[p] = "next"
  BY <1>0, <1>1 DEF Empty, Places, PlaceOf
<1>3. critical = None
  BY <1>0, <1>2 DEF TypeOK, Held, Holds, Inside
<1>4. Held'
  BY <1>1, <1>3 DEF Held
<1>5. /\ \A p \in Threads : pc'[p] \notin {"enterParams", "params", "enterPRNG"}
  BY <1>1, <1>2
<1>6. todo \in [Threads -> Seq(Calls)] /\ Main \in Threads
  BY <1>0, ThreadAssumption DEF TypeOK
<1>7. contexts # {} => Main \in prng
  BY <1>0, <1>1, <1>6 DEF Supplied, Empty
<1> DEFINE Draws == \E i \in 1 .. Len(todo'[Main]) : todo'[Main][i].op = "draw"
           Packs == \A p \in Threads : \A i \in 1 .. Len(todo'[p]) :
                      todo'[p][i].op = "pack" => p \in prng \/ todo'[p][i].r \in initRoot
<1>8. PICK r \in Rings : \/ Generate(r)
                         \/ \E technique \in KeySwitching : Load(r, technique)
                         \/ Encode(r)
                         \/ SwitchFormat(r)
                         \/ ParallelLoop(r)
  BY DEF Program
<1>9. ASSUME NEW calls \in Seq(Calls), todo' = [todo EXCEPT ![Main] = calls],
             \A i \in 1 .. Len(calls) : calls[i].op # "pack"
      PROVE  Packs /\ todo'[Main] = calls
  <2>1. todo'[Main] = calls /\ \A p \in Threads \ {Main} : todo'[p] = <<>>
    BY <1>1, <1>6, <1>9 DEF Empty
  <2> QED
    BY <1>9, <2>1
<1>10. Draw.op = "draw" /\ Draw \in Calls /\ PreComputeAll(r) \in Seq(Calls)
       /\ \A i \in 1 .. Len(PreComputeAll(r)) : PreComputeAll(r)[i].op = "precompute"
  BY CallTypes DEF Draw, PreComputeAll, PreCompute
<1>11. CASE Generate(r)
  <2> DEFINE calls == <<Draw>> \o PreComputeAll(r)
  <2>1. todo' = [todo EXCEPT ![Main] = calls]
    BY <1>11 DEF Generate, Serial
  <2> HIDE DEF calls
  <2>2. calls \in Seq(Calls) /\ 1 \in 1 .. Len(calls) /\ calls[1] = Draw
        /\ \A i \in 1 .. Len(calls) : calls[i].op # "pack"
    BY <1>10 DEF calls
  <2>3. Packs /\ todo'[Main] = calls
    BY <1>9, <2>1, <2>2
  <2>4. Draws
    BY <1>10, <2>2, <2>3
  <2> QED
    BY <1>1, <1>4, <1>5, <2>3, <2>4 DEF Supplied
<1>12. CASE \E technique \in KeySwitching : Load(r, technique)
  <2> DEFINE calls == PreComputeAll(r) \o <<Draw>>
  <2>1. todo' = [todo EXCEPT ![Main] = calls]
    BY <1>12 DEF Load, Serial
  <2> HIDE DEF calls
  <2>2. calls \in Seq(Calls) /\ Len(calls) \in 1 .. Len(calls) /\ calls[Len(calls)] = Draw
        /\ \A i \in 1 .. Len(calls) : calls[i].op # "pack"
    BY <1>10 DEF calls
  <2>3. Packs /\ todo'[Main] = calls
    BY <1>9, <2>1, <2>2
  <2>4. Draws
    BY <1>10, <2>2, <2>3
  <2> QED
    BY <1>1, <1>4, <1>5, <2>3, <2>4 DEF Supplied
<1>13. CASE Encode(r)
  <2>1. contexts' = contexts /\ Main \in prng /\ todo' = [todo EXCEPT ![Main] = <<Pack(r)>>]
    BY <1>7, <1>13 DEF Encode, Serial
  <2>2. \A p \in Threads \ {Main} : todo'[p] = <<>>
    BY <1>1, <1>6, <2>1 DEF Empty
  <2>3. Packs
    BY <2>1, <2>2
  <2> QED
    BY <1>1, <1>4, <1>5, <2>1, <2>3 DEF Supplied
<1>14. CASE SwitchFormat(r)
  <2>1. PICK cut \in Chunks(r) : todo' = [p \in Threads |-> ChunkOf(r, cut, p)]
    BY <1>14 DEF SwitchFormat, ChunkOf
  <2>2. contexts' = contexts /\ Main \in prng
    BY <1>7, <1>14 DEF SwitchFormat
  <2>3. ASSUME NEW p \in Threads, NEW j \in 1 .. Len(todo'[p])
        PROVE  todo'[p][j].op # "pack"
    <3>1. todo'[p] = ChunkOf(r, cut, p)
      BY <2>1
    <3>2. \E i \in 1 .. Len(Chain[r]) : todo'[p][j] = Transform(Chain[r][i], r)
      BY <2>3, <3>1, ChunkElements
    <3> QED
      BY <3>2 DEF Transform
  <2> QED
    BY <1>1, <1>4, <1>5, <2>2, <2>3 DEF Supplied
<1>15. CASE ParallelLoop(r)
  <2>1. contexts' = contexts /\ Main \in prng /\ r \in initRoot
    BY <1>7, <1>15 DEF ParallelLoop, Warm
  <2>2. PICK body \in [Threads -> {Transform(q, r) : q \in ModuliOf(r)} \cup {Pack(r), Draw}] :
          todo' = [p \in Threads |-> <<body[p]>>]
    BY <1>15 DEF ParallelLoop
  <2>3. ASSUME NEW p \in Threads, NEW j \in 1 .. Len(todo'[p]), todo'[p][j].op = "pack"
        PROVE  todo'[p][j].r \in initRoot
    <3>1. todo'[p][j] = body[p]
      BY <2>2, <2>3
    <3>2. body[p] \in {Transform(q, r) : q \in ModuliOf(r)} \cup {Pack(r), Draw}
      BY <2>2
    <3> QED
      BY <2>1, <2>3, <3>1, <3>2 DEF Transform, Pack, Draw
  <2> QED
    BY <1>1, <1>4, <1>5, <2>1, <2>3 DEF Supplied
<1> QED
  BY <1>8, <1>11, <1>12, <1>13, <1>14, <1>15

\* The three facts of an inductive invariant, for contexts that draw.
LEMMA NextSupply ==
  ASSUME KeySwitching \subseteq {"HYBRID"}, SupplyInv, [Next]_vars
  PROVE  SupplyInv'
<1>1. Base'
  BY NextBase DEF SupplyInv
<1>2. CASE Program
  BY <1>1, <1>2, ProgramSupplied DEF SupplyInv
<1>3. ASSUME NEW p \in Threads, Step(p) PROVE SupplyInv'
  BY <1>1, <1>3, StepSupplied, StepHeld DEF SupplyInv
<1>4. CASE UNCHANGED vars
  BY <1>1, <1>4 DEF SupplyInv, vars, Supplied, Held, Holds, Arg
<1> QED
  BY <1>2, <1>3, <1>4 DEF Next

\* No thread holds anything at first.
LEMMA InitSupply == Init => SupplyInv
BY InitBase, ThreadAssumption DEF Init, SupplyInv, Supplied, Held

\* A thread that asks for its generator inside the region would wait for the
\* region it is in: where every context that is made or loaded draws random
\* numbers, as those with hybrid key switching do, no thread ever does.
THEOREM GeneratorAlwaysAtHand ==
  ASSUME KeySwitching \subseteq {"HYBRID"}
  PROVE  Spec => []GeneratorAtHand
<1>1. Init => SupplyInv
  BY InitSupply
<1>2. SupplyInv /\ [Next]_vars => SupplyInv'
  BY NextSupply
<1>3. SupplyInv => GeneratorAtHand
  <2> SUFFICES ASSUME SupplyInv, NEW p \in Threads, pc[p] = "enterPRNG", critical = p
               PROVE  FALSE
    BY Zenon DEF GeneratorAtHand
  <2>1. p # None
    BY ThreadAssumption
  <2>2. Holds(p)
    BY <2>1 DEF SupplyInv, Held
  <2> QED
    BY <2>2 DEF SupplyInv, Supplied, Holds, Inside
<1> QED
  BY <1>1, <1>2, <1>3, PTL DEF Spec

\* The threads of a loop do not all wait for one another: while calls are left,
\* a thread that has some is not at the entry of the occupied region.
THEOREM RegionAlwaysLeft ==
  ASSUME KeySwitching \subseteq {"HYBRID"}
  PROVE  Spec => []SomeoneGoesOn
<1>1. Init => SupplyInv
  BY InitSupply
<1>2. SupplyInv /\ [Next]_vars => SupplyInv'
  BY NextSupply
<1>3. SupplyInv => SomeoneGoesOn
  <2> SUFFICES ASSUME SupplyInv, NEW p \in Threads, todo[p] # <<>>
               PROVE  \E w \in Threads : todo[w] # <<>> /\ ~Waits(w)
    BY DEF SomeoneGoesOn
  <2>1. CASE critical = None
    BY <2>1 DEF Waits
  <2>2. CASE critical # None
    <3>1. PICK w \in Threads : w = critical
      BY <2>2 DEF SupplyInv, Base, TypeOK
    <3>2. Holds(w)
      BY <2>2, <3>1 DEF SupplyInv, Held
    <3>3. pc[w] \in Inside
      BY <3>2 DEF SupplyInv, Supplied, Holds
    <3>4. todo[w] # <<>>
      BY <3>3 DEF SupplyInv, Base, Places, PlaceOf, Inside
    <3> QED
      BY <3>3, <3>4 DEF Waits, Inside
  <2> QED
    BY <2>1, <2>2
<1> QED
  BY <1>1, <1>2, <1>3, PTL DEF Spec
=============================================================================
