---------------------------- MODULE KeyMapsProofs ----------------------------
(****************************************************************************)
(* For any programs, parameters, private keys, indices and any number of    *)
(* contexts and map objects: the keys found under a tag are for it, and     *)
(* what belongs to one tag is of one context, unless one was released.      *)
(****************************************************************************)
EXTENDS KeyMaps, ArithmeticTheorems, NaturalsInduction, TLAPS

\* A map object that can be filed under tag t: keys for t, at least one, with
\* the parameters of the private key.
Good(x, t, private, params) ==
  /\ DOMAIN x # {}
  /\ private[t] # None
  /\ \A i \in DOMAIN x : x[i].tag = t /\ params[x[i].ctx] = params[private[t]]

GoodFor(x, t) == Good(x, t, privateKey, made)

HeapInv ==
  /\ \A k \in Kinds : \A t \in Filed(k) : GoodFor(Found(k, t), t)
  /\ held # None => \E t \in Tags : GoodFor(object[held], t)

\* The factory knows one context for some parameters, and private keys are of
\* contexts that were made.
FactoryInv ==
  /\ \A c, d \in AllContexts : made[c] = made[d] => c = d
  /\ \A t \in Tags : privateKey[t] # None => made[privateKey[t]] # None

\* So are the keys in the file.
SavedFor(x, t) ==
  /\ DOMAIN x # {}
  /\ privateKey[t] # None
  /\ \A i \in DOMAIN x : x[i].tag = t /\ x[i].params = made[privateKey[t]]

FileInv ==
  file # None => \A t \in DOMAIN file.entries : SavedFor(file.entries[t], t)

Inv == TypeOK /\ HeapInv /\ FactoryInv /\ FileInv

-----------------------------------------------------------------------------
(* Maps *)

\* A map object is a function on some of the indices.
LEMMA MapsAreFunctions ==
  ASSUME NEW K, NEW x
  PROVE  x \in MapsOf(K) <=> DOMAIN x \in SUBSET Indices /\ x \in [DOMAIN x -> K]
<1>1. ASSUME x \in MapsOf(K) PROVE DOMAIN x \in SUBSET Indices /\ x \in [DOMAIN x -> K]
  <2>1. PICK I \in SUBSET Indices : x \in [I -> K]
    BY <1>1 DEF MapsOf
  <2> QED BY <2>1
<1>2. ASSUME DOMAIN x \in SUBSET Indices, x \in [DOMAIN x -> K] PROVE x \in MapsOf(K)
  BY <1>2 DEF MapsOf
<1> QED BY <1>1, <1>2

\* What is in a map object is keys.
LEMMA KeysOfMap ==
  ASSUME NEW x \in MapsOf(Key)
  PROVE  /\ DOMAIN x \in SUBSET Indices
         /\ \A i \in DOMAIN x : x[i] \in Key /\ x[i].tag \in Tags /\ x[i].ctx \in Contexts
<1>1. DOMAIN x \in SUBSET Indices /\ x \in [DOMAIN x -> Key]
  BY MapsAreFunctions
<1> QED BY <1>1 DEF Key

\* The first key of a map object is one of its keys.
LEMMA FirstIsThere ==
  ASSUME NEW x, DOMAIN x \in SUBSET Indices, DOMAIN x # {}
  PROVE  \E i \in DOMAIN x : First(x) = x[i]
<1>1. DOMAIN x \in SUBSET Nat
  BY KeyMapsAssumption
<1>2. \E i \in DOMAIN x : \A j \in DOMAIN x : i <= j
  BY <1>1, LeastNat
<1> QED BY <1>2 DEF First

\* Nothing points to the map object an allocation takes.
LEMMA FreshIsNew == CanAllocate => Fresh \in Maps /\ Fresh \notin Alive
BY DEF CanAllocate, Fresh

\* What is alive after a step has the contents the step gives it.
LEMMA ContentsApply ==
  ASSUME NEW content, content \in [Maps -> MapsOf(Key)], Contents(content),
         keyMap' \in [Kinds -> [Tags -> Maps \union {None}]], held' \in Maps \union {None}
  PROVE  /\ object' \in [Maps -> MapsOf(Key)]
         /\ \A k \in Kinds, t \in Tags :
              keyMap'[k][t] # None => object'[keyMap'[k][t]] = content[keyMap'[k][t]]
         /\ held' # None => object'[held'] = content[held']
<1>1. EmptyMap \in MapsOf(Key)
  BY MapsAreFunctions DEF EmptyMap
<1>2. object' \in [Maps -> MapsOf(Key)]
  BY <1>1 DEF Contents
<1>3. ASSUME NEW k \in Kinds, NEW t \in Tags, keyMap'[k][t] # None
      PROVE  object'[keyMap'[k][t]] = content[keyMap'[k][t]]
  <2>1. keyMap'[k][t] \in Maps
    BY <1>3
  <2> QED BY <2>1 DEF Contents
<1>4. held' # None => object'[held'] = content[held']
  BY DEF Contents
<1> QED BY <1>2, <1>3, <1>4

-----------------------------------------------------------------------------
(* Contexts *)

\* The factory answers with a context of the parameters asked for, which it
\* knows from then on, and changes none of those made before.
LEMMA FactoryAnswers ==
  ASSUME TypeOK, FactoryInv, NEW P \in SUBSET ParamSets, NEW of, GetContext(P, of)
  PROVE  /\ made' \in [Contexts -> ParamSets \union {None}]
         /\ AllContexts' \subseteq {c \in Contexts : made'[c] # None}
         /\ \A c \in Contexts : made[c] # None => made'[c] = made[c]
         /\ \A p \in P : of[p] \in AllContexts' /\ made'[of[p]] = p
         /\ \A c, d \in AllContexts' : made'[c] = made'[d] => c = d
<1>1. of \in [P -> Contexts] /\ \A p, r \in P : of[p] = of[r] => p = r
  BY DEF GetContext
<1>2. /\ made \in [Contexts -> ParamSets \union {None}]
      /\ AllContexts \subseteq {c \in Contexts : made[c] # None}
  BY DEF TypeOK
<1>3. made' = [c \in Contexts |-> IF \E p \in P : of[p] = c
                                 THEN CHOOSE p \in P : of[p] = c ELSE made[c]]
  BY DEF GetContext
<1>4. ASSUME NEW p \in P PROVE made'[of[p]] = p
  <2>1. (CHOOSE r \in P : of[r] = of[p]) = p
    BY <1>1
  <2> QED BY <1>1, <1>3, <2>1
<1>5. \A c \in Contexts : (\A p \in P : of[p] # c) => made'[c] = made[c]
  BY <1>3
<1>6. ASSUME NEW p \in P
      PROVE  \/ of[p] \in AllContexts /\ made[of[p]] = p
             \/ made[of[p]] = None /\ \A c \in AllContexts : made[c] # p
  BY DEF GetContext, FindContext
<1>7. ASSUME NEW c \in Contexts, made[c] # None PROVE made'[c] = made[c]
  BY <1>4, <1>5, <1>6, <1>7
<1>8. AllContexts' = AllContexts \union {of[p] : p \in P}
  BY DEF GetContext
<1>9. None \notin ParamSets
  BY KeyMapsAssumption
<1>10. AllContexts' \subseteq {c \in Contexts : made'[c] # None}
  BY <1>1, <1>2, <1>4, <1>7, <1>8, <1>9
<1>11. made' \in [Contexts -> ParamSets \union {None}]
  <2>1. ASSUME NEW c \in Contexts PROVE made'[c] \in ParamSets \union {None}
    BY <1>2, <1>4, <1>5
  <2> QED BY <1>3, <2>1
<1>12. ASSUME NEW c \in AllContexts', NEW d \in AllContexts', made'[c] = made'[d] PROVE c = d
  <2>1. CASE c \in AllContexts /\ d \in AllContexts
    BY <1>2, <1>7, <1>12, <2>1 DEF FactoryInv
  <2>2. ASSUME NEW x \in AllContexts, NEW p \in P, made'[x] = made'[of[p]] PROVE x = of[p]
    <3>1. made[x] = p
      BY <1>2, <1>4, <1>7, <2>2
    <3>2. of[p] \in AllContexts /\ made[of[p]] = p
      BY <1>6, <3>1
    <3> QED BY <3>1, <3>2 DEF FactoryInv
  <2>3. CASE c \in AllContexts /\ d \notin AllContexts
    BY <1>8, <1>12, <2>2, <2>3
  <2>4. CASE c \notin AllContexts /\ d \in AllContexts
    BY <1>8, <1>12, <2>2, <2>4
  <2>5. CASE c \notin AllContexts /\ d \notin AllContexts
    <3>1. PICK p \in P : c = of[p]
      BY <1>8, <2>5
    <3>2. PICK r \in P : d = of[r]
      BY <1>8, <2>5
    <3> QED BY <1>4, <1>12, <3>1, <3>2
  <2> QED BY <2>1, <2>3, <2>4, <2>5
<1> QED BY <1>4, <1>7, <1>8, <1>10, <1>11, <1>12

-----------------------------------------------------------------------------
(* The heap *)

\* If what is filed and held after a step is good by the contents the step
\* gives, then so is the heap.
LEMMA HeapStep ==
  ASSUME NEW content, content \in [Maps -> MapsOf(Key)], Contents(content),
         keyMap' \in [Kinds -> [Tags -> Maps \union {None}]], held' \in Maps \union {None},
         \A k \in Kinds, t \in Tags :
           keyMap'[k][t] # None => Good(content[keyMap'[k][t]], t, privateKey', made'),
         held' # None => \E t \in Tags : Good(content[held'], t, privateKey', made')
  PROVE  object' \in [Maps -> MapsOf(Key)] /\ HeapInv'
<1>1. /\ object' \in [Maps -> MapsOf(Key)]
      /\ \A k \in Kinds, t \in Tags :
           keyMap'[k][t] # None => object'[keyMap'[k][t]] = content[keyMap'[k][t]]
      /\ held' # None => object'[held'] = content[held']
  BY ContentsApply
<1>2. ASSUME NEW k \in Kinds, NEW t \in Tags, keyMap'[k][t] # None
      PROVE  Good(object'[keyMap'[k][t]], t, privateKey', made')
  BY <1>1, <1>2
<1>3. ASSUME held' # None
      PROVE  \E t \in Tags : Good(object'[held'], t, privateKey', made')
  BY <1>1, <1>3
<1> QED BY <1>1, <1>2, <1>3 DEF HeapInv, Filed, Found, GoodFor

\* Contexts that are added, and private keys that keep their parameters, leave
\* good what was good.
PrivateKept ==
  /\ \A c \in Contexts : made[c] # None => made'[c] = made[c]
  /\ \A t \in Tags : privateKey[t] # None =>
       privateKey'[t] # None /\ made'[privateKey'[t]] = made[privateKey[t]]

\* A good map object stays good in such a step.
LEMMA StaysGood ==
  ASSUME FactoryInv, PrivateKept, NEW t \in Tags, NEW x \in MapsOf(Key), GoodFor(x, t)
  PROVE  Good(x, t, privateKey', made')
<1>1. DOMAIN x # {} /\ privateKey[t] # None /\ made[privateKey[t]] # None
  BY DEF GoodFor, Good, FactoryInv
<1>2. privateKey'[t] # None /\ made'[privateKey'[t]] = made[privateKey[t]]
  BY <1>1 DEF PrivateKept
<1>3. ASSUME NEW i \in DOMAIN x
      PROVE  x[i].tag = t /\ made'[x[i].ctx] = made'[privateKey'[t]]
  <2>1. x[i].tag = t /\ made[x[i].ctx] = made[privateKey[t]]
    BY DEF GoodFor, Good
  <2>2. x[i].ctx \in Contexts
    BY KeysOfMap
  <2>3. made'[x[i].ctx] = made[x[i].ctx]
    BY <1>1, <2>1, <2>2 DEF PrivateKept
  <2> QED BY <1>2, <2>1, <2>3
<1> QED BY <1>1, <1>2, <1>3 DEF Good

\* So does the file.
LEMMA FileStays ==
  ASSUME TypeOK, FileInv, PrivateKept, UNCHANGED file
  PROVE  FileInv'
<1>1. SUFFICES ASSUME file # None, NEW t \in DOMAIN file.entries
               PROVE  SavedFor(file.entries[t], t)'
  BY DEF FileInv
<1>2. t \in Tags
  BY <1>1 DEF TypeOK, Saves
<1>3. SavedFor(file.entries[t], t)
  BY <1>1 DEF FileInv
<1> QED BY <1>2, <1>3 DEF SavedFor, PrivateKept

\* A step of the contexts.
LEMMA ContextStep ==
  ASSUME Inv, PrivateKept, UNCHANGED <<keys, file>>
  PROVE  HeapInv' /\ FileInv'
<1>1. FileInv'
  BY FileStays DEF Inv
<1>2. ASSUME NEW k \in Kinds, NEW t \in Tags, keyMap[k][t] # None
      PROVE  Good(object[keyMap[k][t]], t, privateKey', made')
  <2>1. GoodFor(object[keyMap[k][t]], t)
    BY <1>2 DEF Inv, HeapInv, Filed, Found
  <2>2. object[keyMap[k][t]] \in MapsOf(Key)
    BY <1>2 DEF Inv, TypeOK
  <2> QED BY <2>1, <2>2, StaysGood DEF Inv
<1>3. ASSUME held # None PROVE \E t \in Tags : Good(object[held], t, privateKey', made')
  <2>1. PICK t \in Tags : GoodFor(object[held], t)
    BY <1>3 DEF Inv, HeapInv
  <2>2. object[held] \in MapsOf(Key)
    BY <1>3 DEF Inv, TypeOK
  <2> QED BY <2>1, <2>2, StaysGood DEF Inv
<1>4. HeapInv'
  BY <1>2, <1>3 DEF HeapInv, Filed, Found, GoodFor, keys
<1> QED BY <1>1, <1>4

-----------------------------------------------------------------------------
(* Steps that leave the contexts alone *)

ContextsStay == UNCHANGED <<program, contexts, privateKey, file>>

\* Such a step keeps the invariant if what it files and holds is good.
LEMMA FilingKeepsInv ==
  ASSUME Inv, ContextsStay,
         NEW content, content \in [Maps -> MapsOf(Key)], Contents(content),
         keyMap' \in [Kinds -> [Tags -> Maps \union {None}]], held' \in Maps \union {None},
         \A k \in Kinds, t \in Tags :
           keyMap'[k][t] # None => GoodFor(content[keyMap'[k][t]], t),
         held' # None => \E t \in Tags : GoodFor(content[held'], t)
  PROVE  Inv'
<1>1. made' = made /\ AllContexts' = AllContexts /\ privateKey' = privateKey /\ file' = file
      /\ program' = program
  BY DEF ContextsStay, contexts
<1>2. /\ \A k \in Kinds, t \in Tags :
           keyMap'[k][t] # None => Good(content[keyMap'[k][t]], t, privateKey', made')
      /\ held' # None => \E t \in Tags : Good(content[held'], t, privateKey', made')
  BY <1>1 DEF GoodFor
<1>3. object' \in [Maps -> MapsOf(Key)] /\ HeapInv'
  BY <1>2, HeapStep
<1>4. TypeOK'
  BY <1>1, <1>3 DEF Inv, TypeOK
<1>5. FactoryInv' /\ FileInv'
  BY <1>1 DEF Inv, FactoryInv, FileInv, SavedFor
<1> QED BY <1>3, <1>4, <1>5 DEF Inv

\* What is filed or held before the step is good.
LEMMA FiledIsGood ==
  ASSUME Inv
  PROVE  /\ \A k \in Kinds, t \in Tags : keyMap[k][t] # None =>
              keyMap[k][t] \in Maps \intersect Alive /\ GoodFor(object[keyMap[k][t]], t)
         /\ held # None =>
              held \in Maps \intersect Alive /\ \E t \in Tags : GoodFor(object[held], t)
<1>1. ASSUME NEW k \in Kinds, NEW t \in Tags, keyMap[k][t] # None
      PROVE  keyMap[k][t] \in Maps \intersect Alive /\ GoodFor(object[keyMap[k][t]], t)
  BY <1>1 DEF Inv, TypeOK, HeapInv, Filed, Found, Alive
<1>2. ASSUME held # None
      PROVE  held \in Maps \intersect Alive /\ \E t \in Tags : GoodFor(object[held], t)
  BY <1>2 DEF Inv, TypeOK, HeapInv, Alive
<1> QED BY <1>1, <1>2

\* What a generation makes is good for its private key.
LEMMA NewKeysAreGood ==
  ASSUME Inv, NEW t \in Tags, privateKey[t] # None, NEW I \in SUBSET Indices, I # {}
  PROVE  NewKeys(t, I) \in MapsOf(Key) /\ GoodFor(NewKeys(t, I), t)
<1> DEFINE x == [i \in I |-> [tag |-> t, ctx |-> privateKey[t]]]
<1>1. privateKey[t] \in Contexts
  BY DEF Inv, TypeOK
<1>2. DOMAIN x = I /\ \A i \in I : x[i] \in Key /\ x[i].tag = t /\ x[i].ctx = privateKey[t]
  BY <1>1 DEF Key
<1>3. x = NewKeys(t, I)
  BY DEF NewKeys
<1>4. x \in [I -> Key]
  BY <1>2
<1> HIDE DEF x
<1>5. x \in MapsOf(Key)
  BY <1>4 DEF MapsOf
<1>6. GoodFor(x, t)
  BY <1>2 DEF GoodFor, Good
<1> QED BY <1>3, <1>5, <1>6

\* Filing a new map object under a tag.
LEMMA FileFresh ==
  ASSUME Inv, ContextsStay, CanAllocate, UNCHANGED held,
         NEW kind \in Kinds, NEW tag \in Tags, NEW x \in MapsOf(Key), GoodFor(x, tag),
         keyMap' = [keyMap EXCEPT ![kind][tag] = Fresh],
         Contents([object EXCEPT ![Fresh] = x])
  PROVE  Inv'
<1> DEFINE content == [object EXCEPT ![Fresh] = x]
<1>1. Fresh \in Maps /\ Fresh \notin Alive
  BY FreshIsNew
<1>2. /\ keyMap \in [Kinds -> [Tags -> Maps \union {None}]]
      /\ object \in [Maps -> MapsOf(Key)] /\ held \in Maps \union {None}
  BY DEF Inv, TypeOK
<1>3. content \in [Maps -> MapsOf(Key)] /\ content[Fresh] = x
      /\ \A m \in Maps : m # Fresh => content[m] = object[m]
  BY <1>1, <1>2
<1>4. /\ keyMap' \in [Kinds -> [Tags -> Maps \union {None}]]
      /\ \A k \in Kinds, t \in Tags :
           keyMap'[k][t] = IF k = kind /\ t = tag THEN Fresh ELSE keyMap[k][t]
  BY <1>1, <1>2
<1>5. Contents(content)
  OBVIOUS
<1> HIDE DEF content
<1>6. ASSUME NEW k \in Kinds, NEW t \in Tags, keyMap'[k][t] # None
      PROVE  GoodFor(content[keyMap'[k][t]], t)
  <2>1. CASE k = kind /\ t = tag
    BY <1>3, <1>4, <2>1
  <2>2. CASE ~(k = kind /\ t = tag)
    BY <1>1, <1>3, <1>4, <1>6, <2>2, FiledIsGood
  <2> QED BY <2>1, <2>2
<1>7. held' # None => \E t \in Tags : GoodFor(content[held'], t)
  BY <1>1, <1>3, FiledIsGood
<1> QED BY <1>2, <1>3, <1>4, <1>5, <1>6, <1>7, FilingKeepsInv

\* Keys that replace what is filed.
LEMMA EvalKeyGenKeepsInv ==
  ASSUME Inv, UNCHANGED program, NEW k \in Kinds, NEW t \in Tags, NEW I \in SUBSET Indices,
         I # {}, EvalKeyGen(k, t, I)
  PROVE  Inv'
<1>1. NewKeys(t, I) \in MapsOf(Key) /\ GoodFor(NewKeys(t, I), t)
  BY NewKeysAreGood DEF EvalKeyGen
<1>2. ContextsStay /\ CanAllocate /\ UNCHANGED held
      /\ keyMap' = [keyMap EXCEPT ![k][t] = Fresh]
      /\ Contents([object EXCEPT ![Fresh] = NewKeys(t, I)])
  BY DEF EvalKeyGen, ContextsStay
<1> QED BY <1>1, <1>2, FileFresh

\* Adding the missing keys to a map object keeps its keys, and it stays good,
\* for whoever else points to it, too.
Merged(x, new, I) == [i \in DOMAIN x \union I |-> IF i \in DOMAIN x THEN x[i] ELSE new[i]]

\* The merge of two good map objects of a tag is good.
LEMMA MergedIsGood ==
  ASSUME NEW t \in Tags, NEW x \in MapsOf(Key), GoodFor(x, t),
         NEW I \in SUBSET Indices, NEW new \in MapsOf(Key), GoodFor(new, t), DOMAIN new = I
  PROVE  Merged(x, new, I) \in MapsOf(Key) /\ GoodFor(Merged(x, new, I), t)
<1> DEFINE y == Merged(x, new, I)
<1>1. DOMAIN y = DOMAIN x \union I
  BY DEF Merged
<1>2. \A i \in DOMAIN y : y[i] = IF i \in DOMAIN x THEN x[i] ELSE new[i]
  BY DEF Merged
<1>3. y \in [DOMAIN y -> Key] /\ DOMAIN y \in SUBSET Indices
  <2>1. \A i \in DOMAIN y : y[i] \in Key
    BY <1>1, <1>2, KeysOfMap
  <2>2. DOMAIN y \in SUBSET Indices
    BY <1>1, KeysOfMap
  <2> QED BY <1>1, <2>1, <2>2 DEF Merged
<1>4. y \in MapsOf(Key)
  BY <1>3, MapsAreFunctions
<1> HIDE DEF y
<1>5. GoodFor(y, t)
  BY <1>1, <1>2 DEF GoodFor, Good
<1> QED BY <1>4, <1>5 DEF y

\* Rotation keys that are filed or merged.
LEMMA EvalAtIndexKeyGenKeepsInv ==
  ASSUME Inv, UNCHANGED program, NEW t \in Tags, NEW I \in SUBSET Indices, I # {},
         EvalAtIndexKeyGen(t, I)
  PROVE  Inv'
<1> DEFINE current == keyMap["automorphism"][t]
           new == NewKeys(t, I)
           merged == Merged(object[current], new, I)
<1>1. new \in MapsOf(Key) /\ GoodFor(new, t) /\ DOMAIN new = I
  BY NewKeysAreGood DEF EvalAtIndexKeyGen, NewKeys
<1>2. ContextsStay /\ UNCHANGED held /\ "automorphism" \in Kinds
  BY DEF EvalAtIndexKeyGen, ContextsStay, Kinds
<1> HIDE DEF new
<1>3. CASE /\ current = None /\ CanAllocate
           /\ keyMap' = [keyMap EXCEPT !["automorphism"][t] = Fresh]
           /\ Contents([object EXCEPT ![Fresh] = new])
  BY <1>1, <1>2, <1>3, FileFresh
<1>4. CASE /\ current # None /\ UNCHANGED keyMap
           /\ Contents([object EXCEPT ![current] = merged])
  <2> DEFINE content == [object EXCEPT ![current] = merged]
  <2>1. /\ keyMap \in [Kinds -> [Tags -> Maps \union {None}]]
        /\ object \in [Maps -> MapsOf(Key)] /\ held \in Maps \union {None}
    BY DEF Inv, TypeOK
  <2>2. current \in Maps /\ GoodFor(object[current], t) /\ object[current] \in MapsOf(Key)
    BY <1>2, <1>4, <2>1, FiledIsGood
  <2>3. merged \in MapsOf(Key) /\ GoodFor(merged, t)
    BY <1>1, <2>2, MergedIsGood
  <2> HIDE DEF merged, current
  <2>4. content \in [Maps -> MapsOf(Key)] /\ content[current] = merged
        /\ \A m \in Maps : m # current => content[m] = object[m]
    BY <2>1, <2>2, <2>3
  <2>5. Contents(content)
    BY <1>4
  <2> HIDE DEF content
  <2>6. ASSUME NEW u \in Tags, GoodFor(object[current], u) PROVE u = t
    BY <2>2, <2>6 DEF GoodFor, Good
  <2>7. ASSUME NEW m \in Maps, NEW u \in Tags, GoodFor(object[m], u)
        PROVE  GoodFor(content[m], u)
    BY <2>3, <2>4, <2>6, <2>7
  <2>8. \A k \in Kinds, u \in Tags : keyMap'[k][u] # None => GoodFor(content[keyMap'[k][u]], u)
    BY <1>4, <2>7, FiledIsGood
  <2>9. held' # None => \E u \in Tags : GoodFor(content[held'], u)
    BY <1>2, <2>7, FiledIsGood
  <2>10. keyMap' \in [Kinds -> [Tags -> Maps \union {None}]] /\ held' \in Maps \union {None}
    BY <1>2, <1>4, <2>1
  <2> QED BY <1>2, <2>4, <2>5, <2>8, <2>9, <2>10, FilingKeepsInv
<1> QED BY <1>3, <1>4 DEF EvalAtIndexKeyGen, Merged, new

\* Keys that the program holds.
LEMMA EvalAutomorphismKeyGenKeepsInv ==
  ASSUME Inv, UNCHANGED program, NEW t \in Tags, NEW I \in SUBSET Indices, I # {},
         EvalAutomorphismKeyGen(t, I)
  PROVE  Inv'
<1> DEFINE x == NewKeys(t, I)
           content == [object EXCEPT ![Fresh] = x]
<1>1. x \in MapsOf(Key) /\ GoodFor(x, t)
  BY NewKeysAreGood DEF EvalAutomorphismKeyGen
<1> HIDE DEF x
<1>2. ContextsStay /\ UNCHANGED keyMap /\ held' = Fresh /\ Contents(content)
      /\ Fresh \in Maps /\ Fresh \notin Alive
  BY FreshIsNew DEF EvalAutomorphismKeyGen, ContextsStay, x
<1>3. /\ keyMap \in [Kinds -> [Tags -> Maps \union {None}]]
      /\ object \in [Maps -> MapsOf(Key)]
  BY DEF Inv, TypeOK
<1>4. content \in [Maps -> MapsOf(Key)] /\ content[Fresh] = x
      /\ \A m \in Maps : m # Fresh => content[m] = object[m]
  BY <1>1, <1>2, <1>3
<1> HIDE DEF content
<1>5. \A k \in Kinds, u \in Tags : keyMap'[k][u] # None => GoodFor(content[keyMap'[k][u]], u)
  BY <1>2, <1>4, FiledIsGood
<1>6. held' # None => \E u \in Tags : GoodFor(content[held'], u)
  BY <1>1, <1>2, <1>4
<1>7. keyMap' \in [Kinds -> [Tags -> Maps \union {None}]] /\ held' \in Maps \union {None}
  BY <1>2, <1>3
<1> QED BY <1>2, <1>4, <1>5, <1>6, <1>7, FilingKeepsInv

\* The tag of the first key is that of all keys of the map object held.
LEMMA InsertKeepsInv ==
  ASSUME Inv, UNCHANGED program, NEW k \in Kinds, Insert(k)
  PROVE  Inv'
<1> DEFINE tag == First(object[held]).tag
<1>1. held # None /\ ContextsStay /\ UNCHANGED held
  BY DEF Insert, ContextsStay
<1>2. held \in Maps /\ object[held] \in MapsOf(Key)
  BY <1>1 DEF Inv, TypeOK
<1>3. PICK u \in Tags : GoodFor(object[held], u)
  BY <1>1, FiledIsGood
<1>4. \E i \in DOMAIN object[held] : First(object[held]) = object[held][i]
  <2>1. DOMAIN object[held] \in SUBSET Indices /\ DOMAIN object[held] # {}
    BY <1>2, <1>3, KeysOfMap DEF GoodFor, Good
  <2> QED BY <2>1, FirstIsThere
<1>5. tag \in Tags /\ GoodFor(object[held], tag)
  BY <1>3, <1>4 DEF GoodFor, Good
<1> HIDE DEF tag
<1>6. CASE /\ CanAllocate /\ keyMap' = [keyMap EXCEPT ![k][tag] = Fresh]
           /\ Contents([object EXCEPT ![Fresh] = object[held]])
  BY <1>1, <1>2, <1>5, <1>6, FileFresh
<1>7. CASE keyMap' = [keyMap EXCEPT ![k][tag] = held] /\ Contents(object)
  <2>1. /\ keyMap \in [Kinds -> [Tags -> Maps \union {None}]]
        /\ object \in [Maps -> MapsOf(Key)]
    BY DEF Inv, TypeOK
  <2>2. /\ keyMap' \in [Kinds -> [Tags -> Maps \union {None}]]
        /\ \A l \in Kinds, t \in Tags :
             keyMap'[l][t] = IF l = k /\ t = tag THEN held ELSE keyMap[l][t]
    BY <1>2, <1>5, <1>7, <2>1
  <2>3. ASSUME NEW l \in Kinds, NEW t \in Tags, keyMap'[l][t] # None
        PROVE  GoodFor(object[keyMap'[l][t]], t)
    <3>1. CASE l = k /\ t = tag
      BY <1>5, <2>2, <3>1
    <3>2. CASE ~(l = k /\ t = tag)
      BY <2>2, <2>3, <3>2, FiledIsGood
    <3> QED BY <3>1, <3>2
  <2>4. held' \in Maps \union {None} /\ \E t \in Tags : GoodFor(object[held'], t)
    BY <1>1, <1>2, <1>3
  <2> QED BY <1>1, <1>7, <2>1, <2>2, <2>3, <2>4, FilingKeepsInv
<1> QED BY <1>6, <1>7 DEF Insert, tag

\* What is cleared takes nothing else with it.
LEMMA ClearKeepsInv ==
  ASSUME Inv, UNCHANGED program, NEW k \in Kinds, NEW T, Clear(k, T)
  PROVE  Inv'
<1>1. ContextsStay /\ UNCHANGED held /\ Contents(object)
  BY DEF Clear, ContextsStay
<1>2. /\ keyMap \in [Kinds -> [Tags -> Maps \union {None}]]
      /\ object \in [Maps -> MapsOf(Key)] /\ held \in Maps \union {None}
  BY DEF Inv, TypeOK
<1>3. /\ keyMap' \in [Kinds -> [Tags -> Maps \union {None}]]
      /\ \A l \in Kinds, t \in Tags : keyMap'[l][t] \in {None, keyMap[l][t]}
  BY <1>2 DEF Clear
<1>4. ASSUME NEW l \in Kinds, NEW t \in Tags, keyMap'[l][t] # None
      PROVE  GoodFor(object[keyMap'[l][t]], t)
  BY <1>3, <1>4, FiledIsGood
<1>5. held' \in Maps \union {None} /\ (held' # None => \E t \in Tags : GoodFor(object[held'], t))
  BY <1>1, <1>2, FiledIsGood
<1> QED BY <1>1, <1>2, <1>3, <1>4, <1>5, FilingKeepsInv

-----------------------------------------------------------------------------
(* Writing and reading *)

\* What is written of a good map object has the parameters of its private key.
LEMMA SavedIsGood ==
  ASSUME Inv, NEW t \in Tags, NEW x \in MapsOf(Key), GoodFor(x, t)
  PROVE  /\ [i \in DOMAIN x |-> Saved(x[i])] \in MapsOf(SavedKey)
         /\ SavedFor([i \in DOMAIN x |-> Saved(x[i])], t)
<1> DEFINE y == [i \in DOMAIN x |-> Saved(x[i])]
<1>1. DOMAIN x # {} /\ privateKey[t] # None /\ made[privateKey[t]] # None
  BY DEF Inv, GoodFor, Good, FactoryInv
<1>2. ASSUME NEW i \in DOMAIN x
      PROVE  Saved(x[i]) \in SavedKey /\ Saved(x[i]).tag = t
             /\ Saved(x[i]).params = made[privateKey[t]]
  <2>1. x[i].tag = t /\ made[x[i].ctx] = made[privateKey[t]]
    BY DEF GoodFor, Good
  <2>2. made[privateKey[t]] \in ParamSets
    <3>1. privateKey[t] \in Contexts
      BY <1>1 DEF Inv, TypeOK
    <3> QED BY <1>1, <3>1 DEF Inv, TypeOK
  <2> QED BY <2>1, <2>2 DEF Saved, SavedKey
<1>3. DOMAIN y = DOMAIN x /\ \A i \in DOMAIN x : y[i] = Saved(x[i])
  OBVIOUS
<1>4. y \in [DOMAIN x -> SavedKey] /\ DOMAIN x \in SUBSET Indices
  BY <1>2, KeysOfMap
<1> HIDE DEF y
<1>5. y \in MapsOf(SavedKey)
  BY <1>4 DEF MapsOf
<1>6. SavedFor(y, t)
  BY <1>1, <1>2, <1>3 DEF SavedFor
<1> QED BY <1>5, <1>6 DEF y

\* Writing keys leaves a good file.
LEMMA SerializeKeepsInv ==
  ASSUME Inv, UNCHANGED program, NEW k \in Kinds, NEW T \in SUBSET Filed(k), Serialize(k, T)
  PROVE  Inv'
<1> DEFINE entries == [t \in T |-> [i \in DOMAIN Found(k, t) |-> Saved(Found(k, t)[i])]]
<1>1. /\ file' = [kind |-> k, entries |-> entries]
      /\ made' = made /\ AllContexts' = AllContexts /\ privateKey' = privateKey
      /\ keyMap' = keyMap /\ object' = object /\ held' = held
  BY DEF Serialize, contexts, keys
<1>2. T \in SUBSET Tags
  BY DEF Filed
<1>3. ASSUME NEW t \in T
      PROVE  entries[t] \in MapsOf(SavedKey) /\ SavedFor(entries[t], t)
  <2>1. GoodFor(Found(k, t), t) /\ keyMap[k][t] \in Maps
    BY <1>2, FiledIsGood DEF Filed, Found
  <2>2. Found(k, t) \in MapsOf(Key)
    BY <2>1 DEF Found, Inv, TypeOK
  <2>3. entries[t] = [i \in DOMAIN Found(k, t) |-> Saved(Found(k, t)[i])]
    OBVIOUS
  <2> HIDE DEF entries
  <2> QED BY <1>2, <2>1, <2>2, <2>3, SavedIsGood
<1>4. DOMAIN entries = T
  OBVIOUS
<1>5. entries \in [T -> MapsOf(SavedKey)]
  BY <1>3
<1> HIDE DEF entries
<1>6. file'.kind = k /\ file'.entries = entries
  BY <1>1
<1>7. file' \in Saves
  BY <1>1, <1>2, <1>5 DEF Saves
<1>8. TypeOK'
  BY <1>1, <1>7 DEF Inv, TypeOK
<1>9. FileInv'
  BY <1>1, <1>3, <1>4, <1>6 DEF FileInv, SavedFor
<1>10. HeapInv' /\ FactoryInv'
  BY <1>1 DEF Inv, HeapInv, FactoryInv, Filed, Found, GoodFor, Good
<1> QED BY <1>8, <1>9, <1>10 DEF Inv

\* A context that is asked for alone.
LEMMA GenCryptoContextKeepsInv ==
  ASSUME Inv, UNCHANGED program, GenCryptoContext
  PROVE  Inv'
<1>1. PICK p \in program.params : \E of \in [{p} -> Contexts] : GetContext({p}, of)
  BY DEF GenCryptoContext
<1>2. PICK of \in [{p} -> Contexts] : GetContext({p}, of)
  BY <1>1
<1>3. {p} \in SUBSET ParamSets
  BY KeyMapsAssumption DEF Inv, TypeOK
<1>4. /\ made' \in [Contexts -> ParamSets \union {None}]
      /\ AllContexts' \subseteq {c \in Contexts : made'[c] # None}
      /\ \A c \in Contexts : made[c] # None => made'[c] = made[c]
      /\ \A c, d \in AllContexts' : made'[c] = made'[d] => c = d
  BY <1>2, <1>3, FactoryAnswers DEF Inv
<1>5. privateKey' = privateKey /\ UNCHANGED <<keys, file>>
  BY DEF GenCryptoContext
<1>6. ASSUME NEW t \in Tags, privateKey[t] # None
      PROVE  made[privateKey[t]] # None /\ made'[privateKey[t]] = made[privateKey[t]]
  <2>1. privateKey[t] \in Contexts
    BY <1>6 DEF Inv, TypeOK
  <2> QED BY <1>4, <1>6, <2>1 DEF Inv, FactoryInv
<1>7. PrivateKept
  BY <1>4, <1>5, <1>6 DEF PrivateKept
<1>8. FactoryInv'
  BY <1>4, <1>5, <1>6 DEF FactoryInv
<1>9. TypeOK'
  BY <1>4, <1>5 DEF Inv, TypeOK, keys
<1> QED BY <1>5, <1>7, <1>8, <1>9, ContextStep DEF Inv

\* Contexts that the factory forgets.
LEMMA ReleaseKeepsInv ==
  ASSUME Inv, UNCHANGED program, ReleaseAllContexts
  PROVE  Inv'
<1>1. AllContexts' = {} /\ made' = made /\ privateKey' = privateKey /\ UNCHANGED <<keys, file>>
  BY DEF ReleaseAllContexts
<1>2. PrivateKept
  BY <1>1 DEF PrivateKept
<1>3. FactoryInv'
  BY <1>1 DEF Inv, FactoryInv
<1>4. TypeOK'
  BY <1>1 DEF Inv, TypeOK, keys
<1> QED BY <1>1, <1>2, <1>3, <1>4, ContextStep DEF Inv

\* A private key that is made.
LEMMA KeyGenKeepsInv ==
  ASSUME Inv, UNCHANGED program, KeyGen
  PROVE  Inv'
<1>1. PICK t \in program.tags, c \in AllContexts :
        privateKey[t] = None /\ privateKey' = [privateKey EXCEPT ![t] = c]
  BY DEF KeyGen
<1>2. made' = made /\ AllContexts' = AllContexts /\ UNCHANGED <<keys, file>>
  BY DEF KeyGen, contexts
<1>3. t \in Tags
  BY KeyMapsAssumption DEF Inv, TypeOK
<1>4. privateKey \in [Tags -> Contexts \union {None}] /\ c \in Contexts /\ made[c] # None
  BY DEF Inv, TypeOK
<1>5. \A u \in Tags : privateKey'[u] = IF u = t THEN c ELSE privateKey[u]
  BY <1>1, <1>3, <1>4
<1>6. None \notin Contexts
  BY KeyMapsAssumption
<1>7. PrivateKept
  BY <1>1, <1>2, <1>5 DEF PrivateKept
<1>8. FactoryInv'
  BY <1>2, <1>4, <1>5 DEF Inv, FactoryInv
<1>9. TypeOK'
  BY <1>1, <1>2, <1>3, <1>4 DEF Inv, TypeOK, keys
<1> QED BY <1>2, <1>7, <1>8, <1>9, ContextStep DEF Inv

\* A private key that is read keeps its parameters.
LEMMA LoadPrivateKeyKeepsInv ==
  ASSUME Inv, UNCHANGED program, LoadPrivateKey
  PROVE  Inv'
<1>1. PICK t \in {u \in Tags : privateKey[u] # None} :
        \E of \in [{made[privateKey[t]]} -> Contexts] :
          /\ GetContext({made[privateKey[t]]}, of)
          /\ privateKey' = [privateKey EXCEPT ![t] = of[made[privateKey[t]]]]
  BY DEF LoadPrivateKey
<1> DEFINE p == made[privateKey[t]]
<1>2. PICK of \in [{p} -> Contexts] :
        GetContext({p}, of) /\ privateKey' = [privateKey EXCEPT ![t] = of[p]]
  BY <1>1
<1>3. t \in Tags /\ privateKey[t] # None /\ p # None
  BY <1>1 DEF Inv, FactoryInv
<1>4. p \in ParamSets /\ privateKey \in [Tags -> Contexts \union {None}]
  BY <1>3 DEF Inv, TypeOK
<1> HIDE DEF p
<1>5. /\ made' \in [Contexts -> ParamSets \union {None}]
      /\ AllContexts' \subseteq {c \in Contexts : made'[c] # None}
      /\ \A c \in Contexts : made[c] # None => made'[c] = made[c]
      /\ of[p] \in AllContexts' /\ made'[of[p]] = p
      /\ \A c, d \in AllContexts' : made'[c] = made'[d] => c = d
  BY <1>2, <1>4, FactoryAnswers DEF Inv
<1>6. UNCHANGED <<keys, file>>
  BY DEF LoadPrivateKey
<1>7. \A u \in Tags : privateKey'[u] = IF u = t THEN of[p] ELSE privateKey[u]
  BY <1>2, <1>3, <1>4
<1>8. of[p] \in Contexts /\ of[p] # None /\ p # None
  BY <1>3, <1>5, KeyMapsAssumption
<1>9. ASSUME NEW u \in Tags, privateKey[u] # None
      PROVE  /\ privateKey'[u] # None /\ made[privateKey[u]] # None
             /\ made'[privateKey'[u]] = made[privateKey[u]]
  <2>1. privateKey[u] \in Contexts /\ made[privateKey[u]] # None
    BY <1>4, <1>9 DEF Inv, FactoryInv
  <2>2. CASE u = t
    BY <1>5, <1>7, <1>8, <2>1, <2>2 DEF p
  <2>3. CASE u # t
    BY <1>5, <1>7, <1>9, <2>1, <2>3
  <2> QED BY <2>2, <2>3
<1>10. PrivateKept
  BY <1>5, <1>9 DEF PrivateKept
<1>11. FactoryInv'
  BY <1>5, <1>3, <1>7, <1>9 DEF FactoryInv
<1>12. TypeOK'
  BY <1>2, <1>4, <1>5, <1>6, <1>8 DEF Inv, TypeOK, keys
<1> QED BY <1>6, <1>10, <1>11, <1>12, ContextStep DEF Inv

\* What is read of the file has its tag, and the factory's context for the
\* parameters of the private key.
LEMMA LoadedIsGood ==
  ASSUME Inv, file # None, NEW of \in [SavedParams -> Contexts],
         \A p \in SavedParams : made'[of[p]] = p,
         \A c \in Contexts : made[c] # None => made'[c] = made[c],
         NEW t \in DOMAIN file.entries
  PROVE  Loaded(of)[t] \in MapsOf(Key) /\ Good(Loaded(of)[t], t, privateKey, made')
<1> DEFINE x == file.entries[t]
           y == [i \in DOMAIN x |-> [tag |-> x[i].tag, ctx |-> of[x[i].params]]]
<1>1. t \in Tags /\ x \in MapsOf(SavedKey)
  BY DEF Inv, TypeOK, Saves
<1>2. DOMAIN x \in SUBSET Indices /\ x \in [DOMAIN x -> SavedKey]
  BY <1>1, MapsAreFunctions
<1>3. /\ DOMAIN x # {} /\ privateKey[t] # None
      /\ \A i \in DOMAIN x : x[i].tag = t /\ x[i].params = made[privateKey[t]]
  BY DEF Inv, FileInv, SavedFor
<1>4. made'[privateKey[t]] = made[privateKey[t]]
  BY <1>1, <1>3 DEF Inv, TypeOK, FactoryInv
<1>5. \A i \in DOMAIN x : x[i].params \in SavedParams
  BY DEF SavedParams
<1>6. Loaded(of)[t] = y
  BY DEF Loaded
<1> HIDE DEF x
<1>7. ASSUME NEW i \in DOMAIN x
      PROVE  y[i] \in Key /\ y[i].tag = t /\ made'[y[i].ctx] = made'[privateKey[t]]
  BY <1>1, <1>3, <1>4, <1>5 DEF Key
<1>8. DOMAIN y = DOMAIN x /\ y \in [DOMAIN x -> Key]
  BY <1>7
<1> HIDE DEF y
<1>9. y \in MapsOf(Key)
  BY <1>2, <1>8 DEF MapsOf
<1>10. Good(y, t, privateKey, made')
  BY <1>3, <1>7, <1>8 DEF Good
<1> QED BY <1>6, <1>9, <1>10

\* What is written of contexts is parameters.
LEMMA SavedParamsAreParams ==
  ASSUME TypeOK, file # None
  PROVE  SavedParams \in SUBSET ParamSets
<1>1. ASSUME NEW t \in DOMAIN file.entries, NEW i \in DOMAIN file.entries[t]
      PROVE  file.entries[t][i].params \in ParamSets
  <2>1. file.entries[t] \in MapsOf(SavedKey)
    BY DEF TypeOK, Saves
  <2>2. file.entries[t] \in [DOMAIN file.entries[t] -> SavedKey]
    BY <2>1, MapsAreFunctions
  <2> QED BY <2>2 DEF SavedKey
<1> QED BY <1>1 DEF SavedParams

\* Keys that are read are filed under their tags, in map objects of their own.
LEMMA DeserializeKeepsInv ==
  ASSUME Inv, UNCHANGED program, Deserialize
  PROVE  Inv'
<1> DEFINE T == DOMAIN file.entries
<1>1. PICK of \in [SavedParams -> Contexts], at \in [T -> Maps \ Alive] :
        /\ GetContext(SavedParams, of)
        /\ \A t, u \in T : at[t] = at[u] => t = u
        /\ keyMap' = [keyMap EXCEPT ![file.kind] =
             [t \in Tags |-> IF t \in T THEN at[t]
                             ELSE IF file.kind = "mult" THEN None ELSE @[t]]]
        /\ UNCHANGED <<privateKey, held, file>>
        /\ Contents([m \in Maps |-> IF \E t \in T : at[t] = m
                                    THEN Loaded(of)[CHOOSE t \in T : at[t] = m]
                                    ELSE object[m]])
  BY DEF Deserialize
<1> DEFINE content == [m \in Maps |-> IF \E t \in T : at[t] = m
                                      THEN Loaded(of)[CHOOSE t \in T : at[t] = m]
                                      ELSE object[m]]
<1>2. file # None /\ file \in Saves
  BY DEF Deserialize, Inv, TypeOK
<1>3. file.kind \in Kinds /\ T \in SUBSET Tags
  BY <1>2 DEF Saves
<1>4. SavedParams \in SUBSET ParamSets
  BY <1>2, SavedParamsAreParams DEF Inv
<1>5. /\ made' \in [Contexts -> ParamSets \union {None}]
      /\ AllContexts' \subseteq {c \in Contexts : made'[c] # None}
      /\ \A c \in Contexts : made[c] # None => made'[c] = made[c]
      /\ \A p \in SavedParams : of[p] \in AllContexts' /\ made'[of[p]] = p
      /\ \A c, d \in AllContexts' : made'[c] = made'[d] => c = d
  BY <1>1, <1>4, FactoryAnswers DEF Inv
<1>6. /\ keyMap \in [Kinds -> [Tags -> Maps \union {None}]]
      /\ object \in [Maps -> MapsOf(Key)] /\ held \in Maps \union {None}
      /\ privateKey \in [Tags -> Contexts \union {None}]
  BY DEF Inv, TypeOK
<1>7. ASSUME NEW t \in T
      PROVE  Loaded(of)[t] \in MapsOf(Key) /\ Good(Loaded(of)[t], t, privateKey, made')
  BY <1>2, <1>5, LoadedIsGood
<1>8. ASSUME NEW t \in T PROVE at[t] \in Maps /\ content[at[t]] = Loaded(of)[t]
  <2>1. (CHOOSE u \in T : at[u] = at[t]) = t
    BY <1>1
  <2> QED BY <2>1, <1>1
<1>9. ASSUME NEW m \in Maps \intersect Alive PROVE content[m] = object[m]
  BY <1>1
<1>10. content \in [Maps -> MapsOf(Key)]
  <2>1. ASSUME NEW m \in Maps PROVE content[m] \in MapsOf(Key)
    <3>1. CASE \E t \in T : at[t] = m
      BY <1>7, <1>8, <3>1
    <3>2. CASE ~(\E t \in T : at[t] = m)
      BY <1>6, <3>2
    <3> QED BY <3>1, <3>2
  <2> QED BY <2>1
<1>11. Contents(content)
  BY <1>1
<1> HIDE DEF content, T
<1>12. \A k \in Kinds, t \in Tags :
         keyMap'[k][t] = IF k # file.kind THEN keyMap[k][t]
                         ELSE IF t \in T THEN at[t]
                         ELSE IF k = "mult" THEN None ELSE keyMap[k][t]
  BY <1>1, <1>3, <1>6
<1>13. keyMap' \in [Kinds -> [Tags -> Maps \union {None}]]
  <2>1. [t \in Tags |-> IF t \in T THEN at[t]
                        ELSE IF file.kind = "mult" THEN None ELSE keyMap[file.kind][t]]
          \in [Tags -> Maps \union {None}]
    BY <1>1, <1>3, <1>6
  <2> QED BY <1>1, <1>3, <1>6, <2>1
<1>14. PrivateKept /\ \A t \in Tags : privateKey[t] # None => made'[privateKey[t]] # None
  <2>1. ASSUME NEW t \in Tags, privateKey[t] # None
        PROVE  made[privateKey[t]] # None /\ made'[privateKey[t]] = made[privateKey[t]]
    BY <1>5, <1>6, <2>1 DEF Inv, FactoryInv
  <2> QED BY <1>1, <1>5, <2>1 DEF PrivateKept
<1>15. ASSUME NEW k \in Kinds, NEW t \in Tags, keyMap[k][t] # None
       PROVE  /\ content[keyMap[k][t]] = object[keyMap[k][t]]
              /\ Good(object[keyMap[k][t]], t, privateKey', made')
  <2>1. keyMap[k][t] \in Maps \intersect Alive /\ GoodFor(object[keyMap[k][t]], t)
    BY <1>15, FiledIsGood
  <2>2. object[keyMap[k][t]] \in MapsOf(Key)
    BY <1>6, <2>1
  <2> QED BY <1>9, <1>14, <2>1, <2>2, StaysGood DEF Inv
<1>16. ASSUME NEW k \in Kinds, NEW t \in Tags, keyMap'[k][t] # None
       PROVE  Good(content[keyMap'[k][t]], t, privateKey', made')
  <2>1. CASE k = file.kind /\ t \in T
    BY <1>1, <1>7, <1>8, <1>12, <2>1
  <2>2. CASE ~(k = file.kind /\ t \in T)
    <3>1. keyMap'[k][t] = keyMap[k][t]
      BY <1>12, <1>16, <2>2
    <3> QED BY <1>15, <1>16, <3>1
  <2> QED BY <2>1, <2>2
<1>17. ASSUME held' # None PROVE \E t \in Tags : Good(content[held'], t, privateKey', made')
  <2>1. held' = held /\ held \in Maps \intersect Alive
    BY <1>1, <1>17, FiledIsGood
  <2>2. PICK t \in Tags : GoodFor(object[held], t)
    BY <1>17, <2>1, FiledIsGood
  <2>3. object[held] \in MapsOf(Key)
    BY <1>6, <2>1
  <2> QED BY <1>9, <1>14, <2>1, <2>2, <2>3, StaysGood DEF Inv
<1>18. object' \in [Maps -> MapsOf(Key)] /\ HeapInv'
  BY <1>1, <1>6, <1>10, <1>11, <1>13, <1>16, <1>17, HeapStep
<1>19. FileInv'
  BY <1>1, <1>14, FileStays DEF Inv
<1>20. FactoryInv'
  BY <1>1, <1>5, <1>14 DEF FactoryInv
<1>21. TypeOK'
  BY <1>1, <1>5, <1>13, <1>18 DEF Inv, TypeOK
<1> QED BY <1>18, <1>19, <1>20, <1>21 DEF Inv

-----------------------------------------------------------------------------
(* Every step *)

\* What programs use exists.
LEMMA ProgramsUseWhatThereIs ==
  TypeOK => program.kinds \in SUBSET Kinds /\ program.tags \in SUBSET Tags
BY KeyMapsAssumption DEF TypeOK

\* At the start nothing is filed, held or written.
LEMMA InitInv == Init => Inv
<1>1. EmptyMap \in MapsOf(Key)
  BY MapsAreFunctions DEF EmptyMap
<1> SUFFICES ASSUME Init PROVE Inv
  OBVIOUS
<1>2. \A k \in Kinds : \A t \in Tags : keyMap[k][t] = None
  BY DEF Init
<1>3. held = None /\ file = None /\ AllContexts = {} /\ \A t \in Tags : privateKey[t] = None
  BY DEF Init
<1>4. TypeOK
  BY <1>1 DEF Init, TypeOK
<1>5. HeapInv
  BY <1>2, <1>3 DEF HeapInv, Filed
<1> QED BY <1>3, <1>4, <1>5 DEF Inv, FactoryInv, FileInv

\* The invariant is kept by making keys, and by what is done to one of the maps.
LEMMA NextInv == Inv /\ [Next]_vars => Inv'
<1> SUFFICES ASSUME Inv, [Next]_vars PROVE Inv'
  OBVIOUS
<1>1. program.kinds \in SUBSET Kinds /\ program.tags \in SUBSET Tags
  BY ProgramsUseWhatThereIs DEF Inv
<1>2. CASE UNCHANGED vars
  BY <1>2 DEF vars, Inv, TypeOK, HeapInv, FactoryInv, FileInv, Filed, Found, GoodFor, Good,
              SavedFor
<1>3. CASE Next
  <2>1. UNCHANGED program
    BY <1>3 DEF Next
  <2>2. CASE GenCryptoContext
    BY <2>1, <2>2, GenCryptoContextKeepsInv
  <2>3. CASE ReleaseAllContexts
    BY <2>1, <2>3, ReleaseKeepsInv
  <2>4. CASE KeyGen
    BY <2>1, <2>4, KeyGenKeepsInv
  <2>5. CASE LoadPrivateKey
    BY <2>1, <2>5, LoadPrivateKeyKeepsInv
  <2>6. CASE Deserialize
    BY <2>1, <2>6, DeserializeKeepsInv
  <2>7. ASSUME NEW t \in program.tags, NEW I \in (SUBSET Indices) \ {{}},
               \/ \E k \in program.kinds : EvalKeyGen(k, t, I)
               \/ "automorphism" \in program.kinds /\ EvalAtIndexKeyGen(t, I)
               \/ EvalAutomorphismKeyGen(t, I)
        PROVE  Inv'
    <3>1. t \in Tags /\ I \in SUBSET Indices /\ I # {}
      BY <1>1
    <3>2. CASE \E k \in program.kinds : EvalKeyGen(k, t, I)
      BY <1>1, <2>1, <3>1, <3>2, EvalKeyGenKeepsInv
    <3>3. CASE EvalAtIndexKeyGen(t, I)
      BY <2>1, <3>1, <3>3, EvalAtIndexKeyGenKeepsInv
    <3>4. CASE EvalAutomorphismKeyGen(t, I)
      BY <2>1, <3>1, <3>4, EvalAutomorphismKeyGenKeepsInv
    <3> QED BY <2>7, <3>2, <3>3, <3>4
  <2>8. ASSUME NEW k \in program.kinds,
               \/ Insert(k) \/ ClearAll(k) \/ SerializeAll(k)
               \/ \E t \in program.tags : ClearTag(k, t) \/ SerializeTag(k, t)
               \/ \E c \in Contexts : ClearContext(k, c) \/ SerializeContext(k, c)
        PROVE  Inv'
    <3>1. k \in Kinds
      BY <1>1
    <3>2. CASE Insert(k)
      BY <2>1, <3>1, <3>2, InsertKeepsInv
    <3>3. CASE \/ ClearAll(k)
               \/ \E t \in program.tags : ClearTag(k, t)
               \/ \E c \in Contexts : ClearContext(k, c)
      BY <2>1, <3>1, <3>3, ClearKeepsInv DEF ClearAll, ClearTag, ClearContext
    <3>4. CASE \/ SerializeAll(k)
               \/ \E t \in program.tags : SerializeTag(k, t)
               \/ \E c \in Contexts : SerializeContext(k, c)
      <4>1. PICK T \in SUBSET Filed(k) : Serialize(k, T)
        BY <3>4 DEF SerializeAll, SerializeTag, SerializeContext, OfContext
      <4> QED BY <2>1, <3>1, <4>1, SerializeKeepsInv
    <3> QED BY <2>8, <3>2, <3>3, <3>4
  <2> QED BY <1>3, <2>2, <2>3, <2>4, <2>5, <2>6, <2>7, <2>8 DEF Next
<1> QED BY <1>2, <1>3

\* The inductive invariant.
THEOREM InvAlways == Spec => []Inv
BY InitInv, NextInv, PTL DEF Spec

\* Types (TypeOK), however many contexts and map objects there are.
THEOREM TypeAlways == Spec => []TypeOK
<1>1. Inv => TypeOK
  BY DEF Inv
<1> QED BY <1>1, InvAlways, PTL

\* Whatever is shared, merged, copied, written and read back, the keys that are
\* filed under a tag are for it (KeysUnderTheirTag).
THEOREM TagsAlways == Spec => []KeysUnderTheirTag
<1>1. Inv => KeysUnderTheirTag
  BY DEF Inv, HeapInv, GoodFor, Good, KeysUnderTheirTag
<1> QED BY <1>1, InvAlways, PTL

\* A private key and the keys found under its tag are of one context, as far as
\* the factory knows their contexts (OneContextPerTag): they have the same
\* parameters, and of those it knows one context only.
THEOREM OneContextAlways == Spec => []OneContextPerTag
<1>1. ASSUME Inv, NEW t \in Tags PROVE \E p : \A c \in ContextsOf(t) \intersect AllContexts : made[c] = p
  <2>1. ASSUME NEW k \in Kinds, t \in Filed(k), NEW i \in DOMAIN Found(k, t)
        PROVE  made[Found(k, t)[i].ctx] = made[privateKey[t]]
    BY <1>1, <2>1 DEF Inv, HeapInv, GoodFor, Good
  <2>2. ASSUME NEW c \in ContextsOf(t) PROVE made[c] = made[privateKey[t]]
    <3>1. CASE c = privateKey[t]
      BY <3>1
    <3>2. CASE c # privateKey[t]
      <4>1. PICK k \in Kinds : t \in Filed(k) /\ \E i \in DOMAIN Found(k, t) : c = Found(k, t)[i].ctx
        BY <2>2, <3>2 DEF ContextsOf
      <4> QED BY <2>1, <4>1
    <3> QED BY <3>1, <3>2
  <2> QED BY <2>2
<1>2. Inv => OneContextPerTag
  <2>1. SUFFICES ASSUME Inv, NEW t \in Tags,
                        NEW c \in ContextsOf(t) \intersect AllContexts,
                        NEW d \in ContextsOf(t) \intersect AllContexts
                 PROVE  c = d
    BY DEF OneContextPerTag
  <2>2. made[c] = made[d]
    BY <1>1, <2>1
  <2> QED BY <2>1, <2>2 DEF Inv, FactoryInv
<1> QED BY <1>2, InvAlways, PTL

-----------------------------------------------------------------------------
(* What is lost *)

\* What stays filed, with contents that keep its keys, is not lost.
LEMMA NotLost ==
  ASSUME Inv, Inv', NEW content, Contents(content), NEW k \in Kinds, NEW t \in Tags,
         keyMap'[k][t] = keyMap[k][t],
         keyMap[k][t] # None =>
           \A i \in DOMAIN Found(k, t) :
             i \in DOMAIN content[keyMap[k][t]] /\ content[keyMap[k][t]][i] = Found(k, t)[i]
  PROVE  ~Lost(k, t)
<1>1. SUFFICES ASSUME keyMap[k][t] # None
               PROVE  \A i \in DOMAIN Found(k, t) :
                        /\ i \in DOMAIN object'[keyMap'[k][t]]
                        /\ object'[keyMap'[k][t]][i] = Found(k, t)[i]
  BY DEF Lost
<1>2. keyMap[k][t] \in Maps
  BY <1>1, FiledIsGood
<1>3. object'[keyMap'[k][t]] = content[keyMap[k][t]]
  BY <1>2 DEF Contents
<1> QED BY <1>1, <1>3

\* A step that leaves the contents alone loses only what it takes out.
LEMMA NotLostAlone ==
  ASSUME Inv, Inv', Contents(object), NEW k \in Kinds, NEW t \in Tags,
         keyMap'[k][t] = keyMap[k][t]
  PROVE  ~Lost(k, t)
BY NotLost DEF Found

\* So does one that files a new map object.
LEMMA NotLostFresh ==
  ASSUME Inv, Inv', CanAllocate, NEW x, Contents([object EXCEPT ![Fresh] = x]),
         NEW k \in Kinds, NEW t \in Tags, keyMap'[k][t] = keyMap[k][t]
  PROVE  ~Lost(k, t)
<1>1. keyMap[k][t] # None => keyMap[k][t] \in Maps /\ keyMap[k][t] # Fresh
  BY FiledIsGood, FreshIsNew
<1>2. object \in [Maps -> MapsOf(Key)]
  BY DEF Inv, TypeOK
<1>3. keyMap[k][t] # None => [object EXCEPT ![Fresh] = x][keyMap[k][t]] = Found(k, t)
  BY <1>1, <1>2 DEF Found
<1> QED BY <1>3, NotLost

\* Nothing is lost by a step that leaves maps and objects as they are.
LEMMA NotLostUnchanged ==
  ASSUME UNCHANGED keys, NEW k \in Kinds, NEW t \in Tags
  PROVE  ~Lost(k, t)
BY DEF keys, Lost, Found

\* Making keys puts them in the place of those of the tag, or adds the missing.
LEMMA MakingLoses ==
  ASSUME Inv, Inv', NEW tag \in Tags, NEW I \in SUBSET Indices, I # {},
         \/ \E kind \in Kinds : EvalKeyGen(kind, tag, I)
         \/ EvalAtIndexKeyGen(tag, I)
         \/ EvalAutomorphismKeyGen(tag, I),
         NEW k \in Kinds, NEW t \in Tags, Lost(k, t)
  PROVE  Asked(k, t)
<1>1. keyMap \in [Kinds -> [Tags -> Maps \union {None}]] /\ object \in [Maps -> MapsOf(Key)]
  BY DEF Inv, TypeOK
<1>2. ASSUME NEW kind \in Kinds, EvalKeyGen(kind, tag, I) PROVE Asked(k, t)
  <2>1. CASE k = kind /\ t = tag
    BY <1>2, <2>1 DEF Asked
  <2>2. CASE ~(k = kind /\ t = tag)
    <3>1. keyMap'[k][t] = keyMap[k][t]
      BY <1>1, <1>2, <2>2 DEF EvalKeyGen
    <3> QED BY <1>2, <3>1, NotLostFresh DEF EvalKeyGen
  <2> QED BY <2>1, <2>2
<1>3. ASSUME EvalAtIndexKeyGen(tag, I) PROVE FALSE
  <2> DEFINE current == keyMap["automorphism"][tag]
             new == NewKeys(tag, I)
             merged == [i \in DOMAIN object[current] \union I |->
                          IF i \in DOMAIN object[current] THEN object[current][i] ELSE new[i]]
  <2>1. CASE /\ current = None /\ CanAllocate
             /\ keyMap' = [keyMap EXCEPT !["automorphism"][tag] = Fresh]
             /\ Contents([object EXCEPT ![Fresh] = new])
    <3>1. CASE k = "automorphism" /\ t = tag
      BY <2>1, <3>1 DEF Lost
    <3>2. CASE ~(k = "automorphism" /\ t = tag)
      <4>1. keyMap'[k][t] = keyMap[k][t]
        BY <1>1, <2>1, <3>2
      <4> QED BY <2>1, <4>1, NotLostFresh
    <3> QED BY <3>1, <3>2
  <2>2. CASE /\ current # None /\ UNCHANGED keyMap
             /\ Contents([object EXCEPT ![current] = merged])
    <3> DEFINE content == [object EXCEPT ![current] = merged]
    <3>1. \A i \in DOMAIN object[current] : i \in DOMAIN merged /\ merged[i] = object[current][i]
      OBVIOUS
    <3>2. current \in Maps
      BY <2>2, FiledIsGood DEF Kinds
    <3> HIDE DEF merged, current
    <3>3. content[current] = merged /\ \A m \in Maps : m # current => content[m] = object[m]
      BY <1>1, <3>2
    <3>4. Contents(content)
      BY <2>2
    <3> HIDE DEF content
    <3>5. keyMap[k][t] # None =>
            \A i \in DOMAIN Found(k, t) :
              i \in DOMAIN content[keyMap[k][t]] /\ content[keyMap[k][t]][i] = Found(k, t)[i]
      <4>1. ASSUME keyMap[k][t] # None
            PROVE  \A i \in DOMAIN Found(k, t) :
                     /\ i \in DOMAIN content[keyMap[k][t]]
                     /\ content[keyMap[k][t]][i] = Found(k, t)[i]
        <5>1. CASE keyMap[k][t] = current
          BY <3>1, <3>3, <5>1 DEF Found
        <5>2. CASE keyMap[k][t] # current
          BY <3>3, <4>1, <5>2, FiledIsGood DEF Found
        <5> QED BY <5>1, <5>2
      <4> QED BY <4>1
    <3> QED BY <2>2, <3>4, <3>5, NotLost
  <2> QED BY <1>3, <2>1, <2>2 DEF EvalAtIndexKeyGen
<1>4. ASSUME EvalAutomorphismKeyGen(tag, I) PROVE FALSE
  BY <1>4, NotLostFresh DEF EvalAutomorphismKeyGen
<1> QED BY <1>2, <1>3, <1>4

\* An insertion replaces what is filed under the tag of the first key.
LEMMA InsertLoses ==
  ASSUME Inv, Inv', NEW kind \in Kinds, Insert(kind), NEW k \in Kinds, NEW t \in Tags, Lost(k, t)
  PROVE  Asked(k, t)
<1> DEFINE tag == First(object[held]).tag
<1>1. keyMap \in [Kinds -> [Tags -> Maps \union {None}]]
  BY DEF Inv, TypeOK
<1>2. CASE k = kind /\ t = tag
  BY <1>2 DEF Asked
<1>3. CASE ~(k = kind /\ t = tag)
  <2> HIDE DEF tag
  <2>1. ASSUME NEW m, keyMap' = [keyMap EXCEPT ![kind][tag] = m]
        PROVE  keyMap'[k][t] = keyMap[k][t]
    BY <1>1, <1>3, <2>1
  <2>2. CASE /\ CanAllocate /\ keyMap' = [keyMap EXCEPT ![kind][tag] = Fresh]
             /\ Contents([object EXCEPT ![Fresh] = object[held]])
    BY <2>1, <2>2, NotLostFresh
  <2>3. CASE keyMap' = [keyMap EXCEPT ![kind][tag] = held] /\ Contents(object)
    BY <2>1, <2>3, NotLostAlone
  <2> QED BY <2>2, <2>3 DEF Insert, tag
<1> QED BY <1>2, <1>3

\* Clearing takes out what is asked for; the context of an entry is one of its keys'.
LEMMA ClearLoses ==
  ASSUME Inv, Inv', NEW kind \in Kinds,
         \/ ClearAll(kind)
         \/ \E u \in Tags : ClearTag(kind, u)
         \/ \E c \in Contexts : ClearContext(kind, c),
         NEW k \in Kinds, NEW t \in Tags, Lost(k, t)
  PROVE  Asked(k, t)
<1>1. keyMap \in [Kinds -> [Tags -> Maps \union {None}]]
  BY DEF Inv, TypeOK
<1>2. ASSUME NEW T, Clear(kind, T) PROVE k = kind /\ t \in T
  <2>1. CASE ~(k = kind /\ t \in T)
    <3>1. keyMap'[k][t] = keyMap[k][t]
      BY <1>1, <1>2, <2>1 DEF Clear
    <3> QED BY <1>2, <3>1, NotLostAlone DEF Clear
  <2> QED BY <2>1
<1>3. CASE ClearAll(kind)
  BY <1>2, <1>3 DEF ClearAll, Asked
<1>4. ASSUME NEW u \in Tags, ClearTag(kind, u) PROVE Asked(k, t)
  <2>1. k = kind /\ t = u
    BY <1>2, <1>4 DEF ClearTag
  <2> QED BY <1>4, <2>1 DEF Asked
<1>5. ASSUME NEW c \in Contexts, ClearContext(kind, c) PROVE Asked(k, t)
  <2>1. k = kind /\ t \in OfContext(kind, c)
    BY <1>2, <1>5 DEF ClearContext
  <2>2. First(Found(k, t)).ctx = c /\ keyMap[k][t] # None
    BY <2>1 DEF OfContext, Filed
  <2>3. Found(k, t) \in MapsOf(Key) /\ GoodFor(Found(k, t), t)
    BY <2>2, FiledIsGood DEF Inv, TypeOK, Found
  <2>4. DOMAIN Found(k, t) \in SUBSET Indices /\ DOMAIN Found(k, t) # {}
    BY <2>3, KeysOfMap DEF GoodFor, Good
  <2>5. PICK i \in DOMAIN Found(k, t) : Found(k, t)[i].ctx = c
    BY <2>2, <2>4, FirstIsThere
  <2> QED BY <1>5, <2>1, <2>5 DEF Asked
<1> QED BY <1>3, <1>4, <1>5

\* Reading replaces what has the tags of the file, and all keys for products.
LEMMA DeserializeLoses ==
  ASSUME Inv, Inv', Deserialize, NEW k \in Kinds, NEW t \in Tags, Lost(k, t)
  PROVE  Asked(k, t)
<1> DEFINE T == DOMAIN file.entries
<1>1. CASE file.kind = k /\ (k = "mult" \/ t \in T)
  BY <1>1 DEF Asked
<1>2. CASE ~(file.kind = k /\ (k = "mult" \/ t \in T))
  <2>1. keyMap \in [Kinds -> [Tags -> Maps \union {None}]] /\ file.kind \in Kinds
    BY DEF Inv, TypeOK, Saves, Deserialize
  <2>2. PICK of \in [SavedParams -> Contexts], at \in [T -> Maps \ Alive] :
          /\ keyMap' = [keyMap EXCEPT ![file.kind] =
               [u \in Tags |-> IF u \in T THEN at[u]
                               ELSE IF file.kind = "mult" THEN None ELSE @[u]]]
          /\ Contents([m \in Maps |-> IF \E u \in T : at[u] = m
                                      THEN Loaded(of)[CHOOSE u \in T : at[u] = m]
                                      ELSE object[m]])
    BY DEF Deserialize
  <2> DEFINE content == [m \in Maps |-> IF \E u \in T : at[u] = m
                                        THEN Loaded(of)[CHOOSE u \in T : at[u] = m]
                                        ELSE object[m]]
  <2>3. keyMap'[k][t] = keyMap[k][t]
    BY <1>2, <2>1, <2>2
  <2>4. keyMap[k][t] # None => content[keyMap[k][t]] = Found(k, t)
    BY FiledIsGood DEF Found
  <2>5. Contents(content)
    BY <2>2
  <2> HIDE DEF content
  <2> QED BY <2>3, <2>4, <2>5, NotLost
<1> QED BY <1>1, <1>2

\* All steps together.
LEMMA StepLosesOnlyWhenAsked ==
  ASSUME Inv, Inv', [Next]_vars, NEW k \in Kinds, NEW t \in Tags, Lost(k, t)
  PROVE  Asked(k, t)
<1>1. program.kinds \in SUBSET Kinds /\ program.tags \in SUBSET Tags
  BY ProgramsUseWhatThereIs DEF Inv
<1>2. CASE UNCHANGED keys
  BY <1>2, NotLostUnchanged
<1>3. CASE GenCryptoContext \/ ReleaseAllContexts \/ KeyGen \/ LoadPrivateKey
  BY <1>2, <1>3 DEF GenCryptoContext, ReleaseAllContexts, KeyGen, LoadPrivateKey
<1>4. CASE Deserialize
  BY <1>4, DeserializeLoses
<1>5. ASSUME NEW u \in program.tags, NEW I \in (SUBSET Indices) \ {{}},
             \/ \E kind \in program.kinds : EvalKeyGen(kind, u, I)
             \/ "automorphism" \in program.kinds /\ EvalAtIndexKeyGen(u, I)
             \/ EvalAutomorphismKeyGen(u, I)
      PROVE  Asked(k, t)
  <2>1. u \in Tags /\ I \in SUBSET Indices /\ I # {}
    BY <1>1
  <2>2. \/ \E kind \in Kinds : EvalKeyGen(kind, u, I)
        \/ EvalAtIndexKeyGen(u, I) \/ EvalAutomorphismKeyGen(u, I)
    BY <1>1, <1>5
  <2> QED BY <2>1, <2>2, MakingLoses
<1>6. ASSUME NEW kind \in program.kinds,
             \/ Insert(kind) \/ ClearAll(kind) \/ SerializeAll(kind)
             \/ \E u \in program.tags : ClearTag(kind, u) \/ SerializeTag(kind, u)
             \/ \E c \in Contexts : ClearContext(kind, c) \/ SerializeContext(kind, c)
      PROVE  Asked(k, t)
  <2>1. kind \in Kinds
    BY <1>1
  <2>2. CASE Insert(kind)
    BY <2>1, <2>2, InsertLoses
  <2>3. CASE \/ ClearAll(kind)
             \/ \E u \in program.tags : ClearTag(kind, u)
             \/ \E c \in Contexts : ClearContext(kind, c)
    BY <1>1, <2>1, <2>3, ClearLoses
  <2>4. CASE \/ SerializeAll(kind)
             \/ \E u \in program.tags : SerializeTag(kind, u)
             \/ \E c \in Contexts : SerializeContext(kind, c)
    BY <1>2, <2>4 DEF SerializeAll, SerializeTag, SerializeContext, Serialize
  <2> QED BY <1>6, <2>2, <2>3, <2>4
<1> QED BY <1>2, <1>3, <1>4, <1>5, <1>6 DEF Next, vars, keys

\* No step loses a key that can be found unless it was asked to
\* (LostOnlyWhenAsked): making keys for rotations adds to those made before,
\* and nothing done for one private key disturbs another's.
THEOREM LostAlways == Spec => LostOnlyWhenAsked
<1>1. Inv /\ Inv' /\ [Next]_vars => [\A k \in Kinds, t \in Tags : Lost(k, t) => Asked(k, t)]_vars
  BY StepLosesOnlyWhenAsked
<1> QED BY <1>1, InvAlways, PTL DEF Spec, LostOnlyWhenAsked

-----------------------------------------------------------------------------
(* What is cleared *)

\* All keys of an entry are of one context if the factory knows their contexts.
LEMMA EntryOfOneContext ==
  ASSUME Inv, NEW k \in Kinds, NEW t \in Filed(k), Registered(k), NEW i \in DOMAIN Found(k, t)
  PROVE  First(Found(k, t)).ctx = Found(k, t)[i].ctx
<1>1. t \in Tags /\ keyMap[k][t] # None
  BY DEF Filed
<1>2. Found(k, t) \in MapsOf(Key) /\ GoodFor(Found(k, t), t)
  BY <1>1, FiledIsGood DEF Inv, TypeOK, Found
<1>3. DOMAIN Found(k, t) \in SUBSET Indices
  BY <1>2, KeysOfMap
<1>4. PICK j \in DOMAIN Found(k, t) : First(Found(k, t)) = Found(k, t)[j]
  BY <1>3, FirstIsThere
<1>5. made[Found(k, t)[i].ctx] = made[Found(k, t)[j].ctx]
  BY <1>2 DEF GoodFor, Good
<1>6. Found(k, t)[i].ctx \in AllContexts /\ Found(k, t)[j].ctx \in AllContexts
  BY <1>1 DEF Registered
<1> QED BY <1>4, <1>5, <1>6 DEF Inv, FactoryInv

\* What clearing leaves is of other contexts.
LEMMA ClearedStepIsGone ==
  ASSUME Inv, Inv', NEW k \in Kinds, NEW c \in Contexts, ClearContext(k, c), Registered(k),
         NEW t \in Tags, keyMap'[k][t] # None, NEW i \in DOMAIN object'[keyMap'[k][t]]
  PROVE  object'[keyMap'[k][t]][i].ctx # c
<1>1. keyMap \in [Kinds -> [Tags -> Maps \union {None}]]
  BY DEF Inv, TypeOK
<1>2. keyMap'[k][t] = keyMap[k][t] /\ t \notin OfContext(k, c) /\ t \in Filed(k)
  BY <1>1 DEF ClearContext, Clear, Filed
<1>3. object'[keyMap'[k][t]] = Found(k, t)
  <2>1. keyMap[k][t] \in Maps
    BY <1>2, FiledIsGood
  <2> QED BY <1>2, <2>1 DEF ClearContext, Clear, Contents, Found
<1>4. First(Found(k, t)).ctx # c
  BY <1>2 DEF OfContext
<1> QED BY <1>2, <1>3, <1>4, EntryOfOneContext

\* Clearing the keys of a context leaves none of its keys, provided that the
\* factory knows the contexts of all keys of the kind (ClearedIsGone).
THEOREM ClearedAlways == Spec => ClearedIsGone
<1>1. Inv /\ Inv' /\ [Next]_vars =>
        [\A k \in Kinds, c \in Contexts :
           (ClearContext(k, c) /\ Registered(k)) =>
              \A t \in Tags : keyMap'[k][t] # None =>
                 \A i \in DOMAIN object'[keyMap'[k][t]] : object'[keyMap'[k][t]][i].ctx # c]_vars
  BY ClearedStepIsGone
<1> QED BY <1>1, InvAlways, PTL DEF Spec, ClearedIsGone
=============================================================================
