------------------------------- MODULE KeyMaps -------------------------------
(****************************************************************************)
(* Crypto contexts and the evaluation keys of a process                     *)
(* (src/pke/lib/cryptocontext.cpp, cryptocontextfactory.cpp).               *)
(*                                                                          *)
(* The factory keeps the contexts made so far, so that equal parameters     *)
(* mean one object; every check that two objects belong together compares   *)
(* pointers to contexts.  Evaluation keys are found by the tag of the       *)
(* private key they are for, in three maps that all contexts share.  Keys   *)
(* for sums and automorphisms are held by pointer: a map that a program     *)
(* inserts stays shared with the program.                                   *)
(****************************************************************************)
EXTENDS Naturals, FiniteSets

CONSTANTS ParamSets,  \* crypto parameters a program uses
          Contexts,   \* context objects: a bound on how many are ever made
          Tags,       \* unique ids of private keys
          Indices,    \* automorphisms, and powers of the secret for products
          Maps,       \* map objects: a bound on how many are alive at once
          Programs,   \* what programs use: kinds of keys, private keys, parameters
          None

Kinds == {"mult", "sum", "automorphism"}

ASSUME KeyMapsAssumption ==
  /\ Indices \subseteq Nat
  /\ Programs \subseteq [kinds : SUBSET Kinds, tags : SUBSET Tags, params : SUBSET ParamSets]
  /\ None \notin ParamSets \union Contexts \union Maps

VARIABLES program,     \* the program that runs
          made,        \* made[c]: the parameters of context c
          AllContexts, \* the contexts the factory knows
          privateKey,  \* privateKey[t]: the context of the private key with tag t
          keyMap,      \* keyMap[k][t]: the map object filed under tag t
          object,      \* object[m]: index |-> key, of map object m
          held,        \* a map object the program holds, too
          file         \* keys written to a stream, each with its parameters

vars == <<program, made, AllContexts, privateKey, keyMap, object, held, file>>
contexts == <<made, AllContexts>>
keys == <<keyMap, object, held>>

Key == [tag : Tags, ctx : Contexts]
MapsOf(K) == UNION {[I -> K] : I \in SUBSET Indices}
EmptyMap == [i \in {} |-> None]

\* What begin() of a std::map, or element 0 of a vector, is.
First(m) == m[CHOOSE i \in DOMAIN m : \A j \in DOMAIN m : i <= j]

Filed(k) == {t \in Tags : keyMap[k][t] # None}
Found(k, t) == object[keyMap[k][t]]

-----------------------------------------------------------------------------
(* Contexts *)

\* Variant: parameters are compared by address.
FindContextByPointer(p) == {}

FindContext(p) == {c \in AllContexts : made[c] = p}

\* The contexts `of' that the factory answers with for the parameters P: those
\* it knows, or new ones, which it then knows.
GetContext(P, of) ==
  /\ of \in [P -> Contexts]
  /\ \A p \in P : IF FindContext(p) # {} THEN of[p] \in FindContext(p)
                                         ELSE made[of[p]] = None
  /\ \A p, r \in P : of[p] = of[r] => p = r
  /\ made' = [c \in Contexts |-> IF \E p \in P : of[p] = c
                                 THEN CHOOSE p \in P : of[p] = c ELSE made[c]]
  /\ AllContexts' = AllContexts \union {of[p] : p \in P}

GenCryptoContext ==
  /\ \E p \in program.params : \E of \in [{p} -> Contexts] : GetContext({p}, of)
  /\ UNCHANGED <<privateKey, keys, file>>

\* The objects of a released context keep it alive.
ReleaseAllContexts ==
  /\ AllContexts' = {}
  /\ UNCHANGED <<made, privateKey, keys, file>>

\* A key pair, of a context the factory knows (GetContextForPointer).
KeyGen ==
  /\ \E t \in program.tags, c \in AllContexts :
       /\ privateKey[t] = None
       /\ privateKey' = [privateKey EXCEPT ![t] = c]
  /\ UNCHANGED <<contexts, keys, file>>

\* A private key read back from a stream takes the factory's context for the
\* parameters written with it, as every deserialized object.
LoadPrivateKey ==
  /\ \E t \in {u \in Tags : privateKey[u] # None} :
       LET p == made[privateKey[t]]
       IN  \E of \in [{p} -> Contexts] :
             /\ GetContext({p}, of)
             /\ privateKey' = [privateKey EXCEPT ![t] = of[p]]
  /\ UNCHANGED <<keys, file>>

-----------------------------------------------------------------------------
(* Map objects *)

Alive == {keyMap[k][t] : k \in Kinds, t \in Tags} \union {held}

\* Map objects no pointer is left to are gone: content applies to the rest.
Contents(content) ==
  object' = [m \in Maps |->
               IF m = held' \/ (\E k \in Kinds, t \in Tags : keyMap'[k][t] = m)
               THEN content[m] ELSE EmptyMap]

\* A new map object, which nothing points to.
Fresh == CHOOSE m \in Maps : m \notin Alive
CanAllocate == Maps \ Alive # {}

\* Variant: the keys keep another tag.
NewKeysOfAnother(t, I) ==
  [i \in I |-> [tag |-> CHOOSE u \in Tags : u # t, ctx |-> privateKey[t]]]

\* The keys a generation with the private key of tag t makes.
NewKeys(t, I) == [i \in I |-> [tag |-> t, ctx |-> privateKey[t]]]

\* The vector of keys for products is for the powers from 2 on without a gap.
IsVector(I) == \A i \in I : \A j \in Indices : j <= i => j \in I

-----------------------------------------------------------------------------
(* Making keys *)

\* EvalMultKeyGen, EvalMultKeysGen and EvalSumKeyGen put new keys in the place
\* of those filed under the tag.
EvalKeyGen(k, t, I) ==
  /\ k \in {"mult", "sum"} /\ (k = "mult" => IsVector(I))
  /\ privateKey[t] # None
  /\ CanAllocate
  /\ keyMap' = [keyMap EXCEPT ![k][t] = Fresh]
  /\ UNCHANGED <<contexts, privateKey, held, file>>
  /\ Contents([object EXCEPT ![Fresh] = NewKeys(t, I)])

\* Variant: what is filed is replaced.
EvalAtIndexKeyGenReplacing(t, I) ==
  /\ privateKey[t] # None
  /\ CanAllocate
  /\ keyMap' = [keyMap EXCEPT !["automorphism"][t] = Fresh]
  /\ UNCHANGED <<contexts, privateKey, held, file>>
  /\ Contents([object EXCEPT ![Fresh] = NewKeys(t, I)])

\* EvalAtIndexKeyGen files new keys, or adds those that are missing to the map
\* object that is filed.
EvalAtIndexKeyGen(t, I) ==
  LET current == keyMap["automorphism"][t]
      new == NewKeys(t, I)
  IN  /\ privateKey[t] # None
      /\ UNCHANGED <<contexts, privateKey, held, file>>
      /\ \/ /\ current = None /\ CanAllocate
            /\ keyMap' = [keyMap EXCEPT !["automorphism"][t] = Fresh]
            /\ Contents([object EXCEPT ![Fresh] = new])
         \/ /\ current # None
            /\ UNCHANGED keyMap
            /\ Contents([object EXCEPT ![current] =
                 [i \in DOMAIN @ \union I |-> IF i \in DOMAIN @ THEN @[i] ELSE new[i]]])

\* EvalAutomorphismKeyGen only returns the keys.
EvalAutomorphismKeyGen(t, I) ==
  /\ privateKey[t] # None
  /\ CanAllocate
  /\ held' = Fresh
  /\ UNCHANGED <<contexts, privateKey, keyMap, file>>
  /\ Contents([object EXCEPT ![Fresh] = NewKeys(t, I)])

\* InsertEvalMultKey copies the vector, InsertEvalSumKey and
\* InsertEvalAutomorphismKey the pointer, under the tag of the first key.
Insert(k) ==
  /\ held # None
  /\ UNCHANGED <<contexts, privateKey, held, file>>
  /\ LET t == First(object[held]).tag
     IN  \/ /\ k = "mult" /\ IsVector(DOMAIN object[held]) /\ CanAllocate
            /\ keyMap' = [keyMap EXCEPT ![k][t] = Fresh]
            /\ Contents([object EXCEPT ![Fresh] = object[held]])
         \/ /\ k # "mult"
            /\ keyMap' = [keyMap EXCEPT ![k][t] = held]
            /\ Contents(object)

-----------------------------------------------------------------------------
(* Clearing, writing and reading the maps *)

\* Variant: only one entry is found.
OfContextOnce(k, c) ==
  LET T == {t \in Filed(k) : First(Found(k, t)).ctx = c}
  IN  IF T = {} THEN {} ELSE {CHOOSE t \in T : TRUE}

\* The context of an entry is taken to be that of its first key.
OfContext(k, c) == {t \in Filed(k) : First(Found(k, t)).ctx = c}

Clear(k, T) ==
  /\ keyMap' = [keyMap EXCEPT ![k] = [t \in Tags |-> IF t \in T THEN None ELSE @[t]]]
  /\ UNCHANGED <<contexts, privateKey, held, file>>
  /\ Contents(object)

ClearAll(k) == Clear(k, Tags)
ClearTag(k, t) == Clear(k, {t})
ClearContext(k, c) == made[c] # None /\ Clear(k, OfContext(k, c))

Saved(key) == [tag |-> key.tag, params |-> made[key.ctx]]

\* SerializeEval...Key: all entries, one, or those of a context; nothing is
\* written if there is none of the kind asked for.
Serialize(k, T) ==
  /\ file' = [kind |-> k,
              entries |-> [t \in T |-> [i \in DOMAIN Found(k, t) |-> Saved(Found(k, t)[i])]]]
  /\ UNCHANGED <<contexts, privateKey, keys>>

SerializeAll(k) == Serialize(k, Filed(k))
SerializeTag(k, t) == t \in Filed(k) /\ Serialize(k, {t})
SerializeContext(k, c) == OfContext(k, c) # {} /\ Serialize(k, OfContext(k, c))

\* Variant: keys keep what was read in the place of the factory's context.
LoadedAsRead(of) ==
  [t \in DOMAIN file.entries |->
     [i \in DOMAIN file.entries[t] |->
        [tag |-> file.entries[t][i].tag, ctx |-> file.entries[t][i].params]]]

\* The entries of the file, with the factory's contexts.
Loaded(of) ==
  [t \in DOMAIN file.entries |->
     [i \in DOMAIN file.entries[t] |->
        [tag |-> file.entries[t][i].tag, ctx |-> of[file.entries[t][i].params]]]]

SavedParams ==
  UNION {{file.entries[t][i].params : i \in DOMAIN file.entries[t]} : t \in DOMAIN file.entries}

\* DeserializeEval...Key.  Keys for sums and automorphisms are read into a map
\* of their own and filed tag by tag; keys for products are read into the map
\* of the process, which reading empties first.
Deserialize ==
  /\ file # None
  /\ LET T == DOMAIN file.entries
     IN  \E of \in [SavedParams -> Contexts], at \in [T -> Maps \ Alive] :
           /\ GetContext(SavedParams, of)
           /\ \A t, u \in T : at[t] = at[u] => t = u
           /\ keyMap' = [keyMap EXCEPT ![file.kind] =
                [t \in Tags |-> IF t \in T THEN at[t]
                                ELSE IF file.kind = "mult" THEN None ELSE @[t]]]
           /\ UNCHANGED <<privateKey, held, file>>
           /\ Contents([m \in Maps |-> IF \E t \in T : at[t] = m
                                       THEN Loaded(of)[CHOOSE t \in T : at[t] = m]
                                       ELSE object[m]])

-----------------------------------------------------------------------------
Init ==
  /\ program \in Programs
  /\ made = [c \in Contexts |-> None]
  /\ AllContexts = {}
  /\ privateKey = [t \in Tags |-> None]
  /\ keyMap = [k \in Kinds |-> [t \in Tags |-> None]]
  /\ object = [m \in Maps |-> EmptyMap]
  /\ held = None
  /\ file = None

Next ==
  /\ UNCHANGED program
  /\ \/ GenCryptoContext \/ ReleaseAllContexts \/ KeyGen \/ LoadPrivateKey \/ Deserialize
     \/ \E t \in program.tags, I \in (SUBSET Indices) \ {{}} :
          \/ \E k \in program.kinds : EvalKeyGen(k, t, I)
          \/ "automorphism" \in program.kinds /\ EvalAtIndexKeyGen(t, I)
          \/ EvalAutomorphismKeyGen(t, I)
     \/ \E k \in program.kinds :
          \/ Insert(k) \/ ClearAll(k) \/ SerializeAll(k)
          \/ \E t \in program.tags : ClearTag(k, t) \/ SerializeTag(k, t)
          \/ \E c \in Contexts : ClearContext(k, c) \/ SerializeContext(k, c)

Spec == Init /\ [][Next]_vars

-----------------------------------------------------------------------------
(* Properties *)

\* Types, of what is in use.
SavedKey == [tag : Tags, params : ParamSets]
Saves == [kind : Kinds,
          entries : UNION {[T -> MapsOf(SavedKey)] : T \in SUBSET Tags}]

TypeOK ==
  /\ program \in Programs
  /\ made \in [Contexts -> ParamSets \union {None}]
  /\ AllContexts \subseteq {c \in Contexts : made[c] # None}
  /\ privateKey \in [Tags -> Contexts \union {None}]
  /\ keyMap \in [Kinds -> [Tags -> Maps \union {None}]]
  /\ object \in [Maps -> MapsOf(Key)]
  /\ held \in Maps \union {None}
  /\ file = None \/ file \in Saves

\* An operation finds keys by the tag of its ciphertext, without looking at
\* them: what is filed under a tag is there and has that tag, also after maps
\* were shared, merged, copied, written and read back.
KeysUnderTheirTag ==
  \A k \in Kinds : \A t \in Filed(k) :
    /\ DOMAIN Found(k, t) # {}
    /\ \A i \in DOMAIN Found(k, t) : Found(k, t)[i].tag = t

\* The private key with a tag and the keys filed under it, whichever were made
\* here and whichever read from a stream, are of one context, as far as their
\* contexts have not been released: CheckKey does not refuse one for another,
\* and the context of an entry is that of its first key.
ContextsOf(t) ==
  {privateKey[t]} \union
  UNION {{Found(k, t)[i].ctx : i \in DOMAIN Found(k, t)} :
           k \in {l \in Kinds : t \in Filed(l)}}

OneContextPerTag ==
  \A t \in Tags : \A c, d \in ContextsOf(t) \intersect AllContexts : c = d

\* A key that can be found is the same after a step, unless the step was asked
\* to clear or replace what is filed under the tag, or reads keys for products,
\* which replaces them all.  In particular keys made later never displace the
\* keys for rotations made before, and nothing done under one tag disturbs
\* another.
Lost(k, t) ==
  /\ keyMap[k][t] # None
  /\ \/ keyMap'[k][t] = None
     \/ \E i \in DOMAIN Found(k, t) :
          \/ i \notin DOMAIN object'[keyMap'[k][t]]
          \/ object'[keyMap'[k][t]][i] # Found(k, t)[i]

Asked(k, t) ==
  \/ ClearAll(k) \/ ClearTag(k, t)
  \/ \E i \in DOMAIN Found(k, t) : ClearContext(k, Found(k, t)[i].ctx)
  \/ \E I \in (SUBSET Indices) \ {{}} : EvalKeyGen(k, t, I)
  \/ Insert(k) /\ First(object[held]).tag = t
  \/ Deserialize /\ file.kind = k /\ (k = "mult" \/ t \in DOMAIN file.entries)

LostOnlyWhenAsked == [][\A k \in Kinds, t \in Tags : Lost(k, t) => Asked(k, t)]_vars

\* The comments on the functions that clear: "flush EvalMultKey cache for a
\* given context".  Nothing of the context is left, provided no context of a
\* key has been released.
Registered(k) ==
  \A t \in Filed(k) : \A i \in DOMAIN Found(k, t) : Found(k, t)[i].ctx \in AllContexts

ClearedIsGone ==
  [][\A k \in Kinds, c \in Contexts :
       (ClearContext(k, c) /\ Registered(k)) =>
          \A t \in Tags : keyMap'[k][t] # None =>
             \A i \in DOMAIN object'[keyMap'[k][t]] : object'[keyMap'[k][t]][i].ctx # c]_vars

\* The comment on DeserializeEvalMultKey: "deserialized keys silently replace
\* any existing matching keys".  Keys of other tags stay.
LoadKeepsOthers ==
  [][\A k \in Kinds, t \in Tags :
       (Deserialize /\ DOMAIN file.entries # {} /\ t \notin DOMAIN file.entries)
         => ~Lost(k, t)]_vars
=============================================================================
