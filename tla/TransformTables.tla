-------------------------- MODULE TransformTables ---------------------------
(****************************************************************************)
(* The process-wide state behind transforms and packed encodings.           *)
(*                                                                          *)
(* The tables of the number theoretic transform are static maps with the    *)
(* modulus as their key; an entry is for the ring dimension it was last     *)
(* computed for.  A transform looks its modulus up without a lock and       *)
(* computes the tables if they are missing or of another length; contexts   *)
(* compute those of their moduli when they are made.  Packed encodings keep *)
(* a root of unity for each plaintext modulus and ring, computed when first *)
(* used, and each thread has a random number generator, created when first  *)
(* used.  All of these computations are inside "omp critical" regions       *)
(* without a name, which are one lock for the whole process.                *)
(*                                                                          *)
(* A program makes contexts and encodes on its main thread, and runs        *)
(* parallel loops that end with a barrier: the library's own, over the      *)
(* towers of an element, and its own, whose iterations use a context        *)
(* freely; for the latter everything it shares is computed beforehand.      *)
(****************************************************************************)
EXTENDS Sequences, Integers

CONSTANTS
  Threads, Main,  \* the threads of a team, and the one that forks it
  Rings,          \* ring dimensions, one context for each
  Moduli,
  Chain,          \* Chain[r]: the tower moduli of the context of ring r, in order
  PlainModulus,   \* PlainModulus[r]: its plaintext modulus
  KeySwitching,   \* key switching techniques of contexts that are loaded
  None

ASSUME ThreadAssumption ==
  /\ Main \in Threads
  /\ None \notin Threads \cup Rings \cup Moduli \cup (Moduli \X Rings)
  /\ None \notin [q : Moduli, r : Rings, read : SUBSET (Rings \cup {None})]
  /\ Chain \in [Rings -> Seq(Moduli)]
  /\ \A r \in Rings : \A i, j \in 1 .. Len(Chain[r]) : Chain[r][i] = Chain[r][j] => i = j
  /\ PlainModulus \in [Rings -> Moduli]

VARIABLES
  roots,     \* m_rootOfUnityReverseTableByModulus: the ring its table is for
  precon,    \* the tables of preconditioned values
  initRoot,  \* the rings with an entry in PackedEncoding::m_initRoot
  prng,      \* the threads whose m_prng exists
  critical,  \* the thread inside a critical region
  contexts,  \* the contexts made so far
  todo,      \* the calls a thread has still to make
  pc,        \* where in the first of them it is
  seen,      \* the rings of the tables its transform reads
  used       \* what its last transform was for, and read
vars == <<roots, precon, initRoot, prng, critical, contexts, todo, pc, seen, used>>
tables == <<roots, precon>>

\* Calls: PreCompute, a transform, Pack or Unpack, and a random number.
PreCompute(q, r) == [op |-> "precompute", q |-> q, r |-> r]
Transform(q, r)  == [op |-> "transform", q |-> q, r |-> r]
Pack(r)          == [op |-> "pack", q |-> PlainModulus[r], r |-> r]
Draw             == [op |-> "draw", q |-> None, r |-> None]

Calls == {PreCompute(q, r) : q \in Moduli, r \in Rings}
           \cup {Transform(q, r) : q \in Moduli, r \in Rings}
           \cup {Pack(r) : r \in Rings} \cup {Draw}

Arg(p) == Head(todo[p])
Calling(p, op) == todo[p] # <<>> /\ Arg(p).op = op

Goto(p, l) == pc' = [pc EXCEPT ![p] = l]
Done(p) == /\ todo' = [todo EXCEPT ![p] = Tail(@)]
           /\ Goto(p, "next")

-----------------------------------------------------------------------------
(* GetPRNG                                                                   *)

GetPRNG(p) ==
  /\ pc[p] = "next" /\ Calling(p, "draw")
  /\ IF p \in prng THEN Done(p) ELSE Goto(p, "enterPRNG") /\ UNCHANGED todo
  /\ UNCHANGED <<tables, initRoot, prng, critical, contexts, seen, used>>

EnterPRNG(p) ==
  /\ pc[p] = "enterPRNG"
  /\ critical = None
  /\ critical' = p
  /\ Goto(p, "makePRNG")
  /\ UNCHANGED <<tables, initRoot, prng, contexts, todo, seen, used>>

MakePRNG(p) ==
  /\ pc[p] = "makePRNG"
  /\ prng' = prng \cup {p}
  /\ critical' = None
  /\ Done(p)
  /\ UNCHANGED <<tables, initRoot, contexts, seen, used>>

-----------------------------------------------------------------------------
(* Transforms and PreCompute                                                 *)

Begin(p) ==
  /\ pc[p] = "next"
  /\ \/ Calling(p, "transform") /\ Goto(p, "find")
     \/ Calling(p, "precompute") /\ Goto(p, "check")
  /\ UNCHANGED <<tables, initRoot, prng, critical, contexts, todo, seen, used>>

\* The look-up of a transform, outside the critical region ...
Find(p) ==
  /\ pc[p] = "find"
  /\ Goto(p, IF roots[Arg(p).q] = Arg(p).r THEN "read" ELSE "check")
  /\ UNCHANGED <<tables, initRoot, prng, critical, contexts, todo, seen, used>>

AfterPreCompute(p) ==
  IF Arg(p).op = "transform" THEN Goto(p, "read") /\ UNCHANGED todo ELSE Done(p)

\* ... and the same look-up of PreCompute.
Check(p) ==
  /\ pc[p] = "check"
  /\ IF roots[Arg(p).q] = Arg(p).r
     THEN AfterPreCompute(p)
     ELSE Goto(p, "enter") /\ UNCHANGED todo
  /\ UNCHANGED <<tables, initRoot, prng, critical, contexts, seen, used>>

\* The region is entered while another thread is inside.
EnterAnyway(p) ==
  /\ pc[p] = "enter"
  /\ critical' = p
  /\ Goto(p, "roots")
  /\ UNCHANGED <<tables, initRoot, prng, contexts, todo, seen, used>>

Enter(p) ==
  /\ pc[p] = "enter"
  /\ critical = None
  /\ critical' = p
  /\ Goto(p, "roots")
  /\ UNCHANGED <<tables, initRoot, prng, contexts, todo, seen, used>>

\* The table is kept for the modulus it has.
WriteRootsOfModulus(p) ==
  /\ pc[p] = "roots"
  /\ roots' = [roots EXCEPT ![Arg(p).q] = Arg(p).q]
  /\ Goto(p, "precon")
  /\ UNCHANGED <<precon, initRoot, prng, critical, contexts, todo, seen, used>>

WriteRoots(p) ==
  /\ pc[p] = "roots"
  /\ roots' = [roots EXCEPT ![Arg(p).q] = Arg(p).r]
  /\ Goto(p, "precon")
  /\ UNCHANGED <<precon, initRoot, prng, critical, contexts, todo, seen, used>>

\* Preconditioned values that are there are kept.
WritePreconOnce(p) ==
  /\ pc[p] = "precon"
  /\ precon' = [precon EXCEPT ![Arg(p).q] = IF @ = None THEN Arg(p).r ELSE @]
  /\ critical' = None
  /\ AfterPreCompute(p)
  /\ UNCHANGED <<roots, initRoot, prng, contexts, seen, used>>

WritePrecon(p) ==
  /\ pc[p] = "precon"
  /\ precon' = [precon EXCEPT ![Arg(p).q] = Arg(p).r]
  /\ critical' = None
  /\ AfterPreCompute(p)
  /\ UNCHANGED <<roots, initRoot, prng, contexts, seen, used>>

\* The tables are looked up again, and read until the transform returns.
Read(p) ==
  /\ pc[p] = "read"
  /\ seen' = [seen EXCEPT ![p] = {roots[Arg(p).q], precon[Arg(p).q]}]
  /\ Goto(p, "compute")
  /\ UNCHANGED <<tables, initRoot, prng, critical, contexts, todo, used>>

Return(p) ==
  /\ pc[p] = "compute"
  /\ used' = [used EXCEPT ![p] =
       [q |-> Arg(p).q, r |-> Arg(p).r,
        read |-> seen[p] \cup {roots[Arg(p).q], precon[Arg(p).q]}]]
  /\ seen' = [seen EXCEPT ![p] = {}]
  /\ Done(p)
  /\ UNCHANGED <<tables, initRoot, prng, critical, contexts>>

-----------------------------------------------------------------------------
(* Packed encodings                                                          *)

\* Pack and Unpack look for the root of unity outside the critical region.
PackBegin(p) ==
  /\ pc[p] = "next" /\ Calling(p, "pack")
  /\ Goto(p, "pack")
  /\ UNCHANGED <<tables, initRoot, prng, critical, contexts, todo, seen, used>>

ThenTransform(p) ==
  /\ todo' = [todo EXCEPT ![p] = <<Transform(Arg(p).q, Arg(p).r)>> \o Tail(@)]
  /\ Goto(p, "next")

PackFind(p) ==
  /\ pc[p] = "pack"
  /\ IF Arg(p).r \in initRoot THEN ThenTransform(p) ELSE Goto(p, "enterParams") /\ UNCHANGED todo
  /\ UNCHANGED <<tables, initRoot, prng, critical, contexts, seen, used>>

EnterParams(p) ==
  /\ pc[p] = "enterParams"
  /\ critical = None
  /\ critical' = p
  /\ Goto(p, "params")
  /\ UNCHANGED <<tables, initRoot, prng, contexts, todo, seen, used>>

\* The root is computed and Pack looks again, but it is not stored.
SetParamsForgets(p) ==
  /\ pc[p] = "params"
  /\ IF p \in prng THEN critical' = None /\ Goto(p, "pack")
     ELSE Goto(p, "enterPRNG") /\ UNCHANGED critical
  /\ UNCHANGED <<tables, initRoot, prng, contexts, todo, seen, used>>

\* SetParams_2n: its primality test draws random numbers, inside the region.
SetParams(p) ==
  /\ pc[p] = "params"
  /\ IF p \in prng
     THEN /\ initRoot' = initRoot \cup {Arg(p).r}
          /\ critical' = None
          /\ ThenTransform(p)
     ELSE Goto(p, "enterPRNG") /\ UNCHANGED <<initRoot, critical, todo>>
  /\ UNCHANGED <<tables, prng, contexts, seen, used>>

-----------------------------------------------------------------------------
(* Programs                                                                  *)

\* After the barrier of a loop its results are the main thread's.
AtBarrier ==
  /\ \A p \in Threads : todo[p] = <<>>
  /\ used' = [p \in Threads |-> None]

Serial(calls) == todo' = [todo EXCEPT ![Main] = calls]

PreComputeAll(r) == [i \in 1 .. Len(Chain[r]) |-> PreCompute(Chain[r][i], r)]

\* Contexts are made without their tables.
GenerateBare(r) ==
  /\ AtBarrier
  /\ contexts' = contexts \cup {r}
  /\ Serial(<<Draw>>)
  /\ UNCHANGED <<tables, initRoot, prng, critical, pc, seen>>

\* GenCryptoContext: primes are searched for with random numbers.
Generate(r) ==
  /\ AtBarrier
  /\ contexts' = contexts \cup {r}
  /\ Serial(<<Draw>> \o PreComputeAll(r))
  /\ UNCHANGED <<tables, initRoot, prng, critical, pc, seen>>

\* The special primes come with a serialized context.
LoadWithPrimes(r, technique) ==
  /\ AtBarrier
  /\ contexts' = contexts \cup {r}
  /\ Serial(PreComputeAll(r))
  /\ UNCHANGED <<tables, initRoot, prng, critical, pc, seen>>

\* A serialized context: only HYBRID key switching searches for primes.
Load(r, technique) ==
  /\ AtBarrier
  /\ contexts' = contexts \cup {r}
  /\ Serial(IF technique = "HYBRID" THEN PreComputeAll(r) \o <<Draw>> ELSE PreComputeAll(r))
  /\ UNCHANGED <<tables, initRoot, prng, critical, pc, seen>>

\* A plaintext is encoded or decoded.
Encode(r) ==
  /\ AtBarrier
  /\ r \in contexts
  /\ Serial(<<Pack(r)>>)
  /\ UNCHANGED <<tables, initRoot, prng, critical, contexts, pc, seen>>

\* SwitchFormat of an element: each thread gets a chunk of its towers.
Chunks(r) ==
  {cut \in [Threads -> (0 .. Len(Chain[r])) \X (0 .. Len(Chain[r]))] :
     \A i \in 1 .. Len(Chain[r]) :
       \E p \in Threads : \A w \in Threads : (cut[w][1] < i /\ i <= cut[w][2]) <=> w = p}

SwitchFormat(r) ==
  /\ AtBarrier
  /\ r \in contexts
  /\ \E cut \in Chunks(r) :
       todo' = [p \in Threads |->
                  SubSeq([i \in 1 .. Len(Chain[r]) |-> Transform(Chain[r][i], r)],
                         cut[p][1] + 1, cut[p][2])]
  /\ UNCHANGED <<tables, initRoot, prng, critical, contexts, pc, seen>>

ModuliOf(r) == {Chain[r][i] : i \in 1 .. Len(Chain[r])}

Warm(r) == /\ r \in contexts \cap initRoot
           /\ \A q \in ModuliOf(r) \cup {PlainModulus[r]} : roots[q] = r

\* A loop of the program, with calls that use one context.
ParallelLoop(r) ==
  /\ AtBarrier
  /\ Warm(r)
  /\ \E body \in [Threads -> {Transform(q, r) : q \in ModuliOf(r)} \cup {Pack(r), Draw}] :
       todo' = [p \in Threads |-> <<body[p]>>]
  /\ UNCHANGED <<tables, initRoot, prng, critical, contexts, pc, seen>>

Program == \E r \in Rings :
  \/ Generate(r)
  \/ \E technique \in KeySwitching : Load(r, technique)
  \/ Encode(r)
  \/ SwitchFormat(r)
  \/ ParallelLoop(r)

Init ==
  /\ roots = [q \in Moduli |-> None]
  /\ precon = [q \in Moduli |-> None]
  /\ initRoot = {}
  /\ prng = {}
  /\ critical = None
  /\ contexts = {}
  /\ todo = [p \in Threads |-> <<>>]
  /\ pc = [p \in Threads |-> "next"]
  /\ seen = [p \in Threads |-> {}]
  /\ used = [p \in Threads |-> None]

Step(p) ==
  \/ GetPRNG(p) \/ EnterPRNG(p) \/ MakePRNG(p)
  \/ Begin(p) \/ Find(p) \/ Check(p) \/ Enter(p) \/ WriteRoots(p) \/ WritePrecon(p)
  \/ Read(p) \/ Return(p)
  \/ PackBegin(p) \/ PackFind(p) \/ EnterParams(p) \/ SetParams(p)

Next == Program \/ \E p \in Threads : Step(p)

\* A thread that can go on does so in time; nothing is said of a thread that
\* always finds others in the critical region.
Spec == Init /\ [][Next]_vars /\ \A p \in Threads : WF_vars(Step(p))

-----------------------------------------------------------------------------
(* Properties                                                                *)

Labels == {"next", "enterPRNG", "makePRNG", "find", "check", "enter", "roots", "precon",
           "read", "compute", "pack", "enterParams", "params"}

TypeOK ==
  /\ roots \in [Moduli -> Rings \cup {None}]
  /\ precon \in [Moduli -> Rings \cup {None}]
  /\ initRoot \subseteq Rings
  /\ prng \subseteq Threads
  /\ critical \in Threads \cup {None}
  /\ contexts \subseteq Rings
  /\ todo \in [Threads -> Seq(Calls)]
  /\ pc \in [Threads -> Labels]

\* One thread at a time computes, and the six tables of a modulus are of one
\* ring whenever no one does: a look-up of the first answers for all of them.
Inside == {"makePRNG", "roots", "precon", "params"}

TablesAgree ==
  /\ \A p \in Threads : pc[p] \in Inside => critical = p
  /\ \A q \in Moduli :
       roots[q] = precon[q] \/ \E p \in Threads : pc[p] = "precon" /\ Arg(p).q = q

\* No thread assigns to a map entry, or inserts one, while another looks into
\* that map, or reads that entry: the look-ups outside the critical region
\* are safe in the library's loops even when they recompute tables, because
\* towers have distinct moduli and none of their entries is missing.
ReadsRoots == {"find", "check", "read", "compute"}
ReadsPrecon == {"read", "compute"}

NoRace ==
  \A p, w \in Threads :
    p # w =>
      /\ (pc[w] = "roots" /\ pc[p] \in ReadsRoots) =>
           roots[Arg(w).q] # None /\ Arg(p).q # Arg(w).q
      /\ (pc[w] = "precon" /\ pc[p] \in ReadsPrecon) =>
           precon[Arg(w).q] # None /\ Arg(p).q # Arg(w).q
      /\ (pc[w] \in {"pack", "params"} /\ pc[p] \in {"pack", "params"}) =>
           Arg(w).r \in initRoot /\ Arg(p).r \in initRoot

\* Contexts of two rings may share a modulus, and each use of one throws the
\* tables of the other away; still every transform is made with the tables of
\* its own modulus and ring, and is made at last.
Service ==
  INSTANCE TransformService WITH
    Requests <- Moduli \X Rings,
    want <- [p \in Threads |->
               IF pc[p] # "next" /\ Calling(p, "transform") THEN <<Arg(p).q, Arg(p).r>> ELSE None],
    got <- [p \in Threads |->
              IF used[p] = None THEN None
              ELSE IF used[p].read = {used[p].r} THEN <<used[p].q, used[p].r>>
              ELSE <<used[p].q, used[p].read>>]

ImplementsService == Service!Spec

\* Every parallel loop reaches its barrier, and every call of the main thread
\* returns: no thread waits for the critical region for ever.
LoopsEnd == \A p \in Threads : (todo[p] # <<>>) ~> (todo[p] = <<>>)

\* Whatever is left to do, not every thread that has calls left waits for the
\* critical region to be free: the one inside can leave it.
Waits(p) == pc[p] \in {"enter", "enterPRNG", "enterParams"} /\ critical # None

SomeoneGoesOn ==
  (\E p \in Threads : todo[p] # <<>>) => \E p \in Threads : todo[p] # <<>> /\ ~Waits(p)

\* A thread can get random numbers wherever it is.
GeneratorAtHand == \A p \in Threads : ~(pc[p] = "enterPRNG" /\ critical = p)
=============================================================================
