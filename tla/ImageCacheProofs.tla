-------------------------- MODULE ImageCacheProofs ---------------------------
(***************************************************************************)
(* Reference counts, the bound on the number of lines and the truth of a   *)
(* hit, for any number of threads, lines and images, as long as nothing    *)
(* undefined has happened: until a flush has freed a line that is used     *)
(* later, or two threads have evicted at once.                             *)
(***************************************************************************)
EXTENDS ImageCache, FiniteSetTheorems, TLAPS

-----------------------------------------------------------------------------
(***************************************************************************)
(* The invariant, while ImagesDefined                                      *)
(***************************************************************************)

Owns(t) == at[t] \in {"fill", "link"}

\* A line on its way in belongs to one thread and is not in the table.
Owners ==
  /\ \A t \in Senders : Owns(t) => cl[t] \in Images /\ cl[t] \notin icache
  /\ \A t, u \in Senders : Owns(t) /\ Owns(u) /\ cl[t] = cl[u] => t = u

\* A line that was chosen to go stays unused until it is gone.
Victims == \A t \in Senders :
  at[t] = "evict" /\ cl[t] \in icache => "INUSE" \notin imgFlags[cl[t]]

\* Lines being filled, and lines that are nowhere, have no flags.
Blank ==
  /\ \A t \in Senders : at[t] = "fill" => imgFlags[cl[t]] = {}
  /\ \A l \in Images : l \notin icache /\ l \notin Private => imgFlags[l] = {}

\* refcnt and CLF_INUSE tell the threads that send a line, in use or not.
CountOK(l) ==
  /\ imgRef[l] = Cardinality(SendersOf(l))
  /\ "INUSE" \in imgFlags[l] <=> SendersOf(l) # {}
Counts == \A l \in Images : CountOK(l)

\* The keys: of a filled line, of a line found (there is one) that was not
\* evicted since, and of the lines in the table.
Keys ==
  /\ \A t \in Senders : at[t] = "link" => imgKey[cl[t]] = want[t]
  /\ \A t \in Senders :
       at[t] \in {"recheck", "send"} /\ cl[t] \in Images /\ ~evicted[t] =>
         cl[t] \in icache /\ imgKey[cl[t]] = want[t]
  /\ \A t \in Senders : at[t] \in {"recheck", "send"} => cl[t] # NoImage
  /\ \A l, m \in icache : imgKey[l] = imgKey[m] => l = m

Bounded ==
  /\ IsFiniteSet(icache \cup Private)
  /\ Cardinality(icache \cup Private) <= ImageSize + Cardinality(Senders) - 1

ImageInv ==
  /\ ImageTypeOK
  /\ ImagesDefined => Owners /\ Victims /\ Blank /\ Counts /\ Keys /\ Bounded

-----------------------------------------------------------------------------
(***************************************************************************)
(* Counting                                                                *)
(***************************************************************************)

LEMMA SendersFinite ==
  /\ Cardinality(Senders) \in Nat \ {0}
  /\ \A S \in SUBSET Senders : IsFiniteSet(S) /\ Cardinality(S) \in Nat
<1>1. \A S \in SUBSET Senders : IsFiniteSet(S) /\ Cardinality(S) \in Nat
  BY ImagesAssumption, FS_Subset, FS_CardinalityType
<1>2. Cardinality(Senders) # 0
  BY ImagesAssumption, FS_EmptySet
<1> QED BY <1>1, <1>2

\* What threads point to is no more than threads.
LEMMA PointedTo ==
  ASSUME NEW f, NEW T, \A l \in T : \E t \in Senders : f[t] = l
  PROVE  IsFiniteSet(T) /\ Cardinality(T) <= Cardinality(Senders)
<1> DEFINE S == {t \in Senders : f[t] \in T}
           g == [t \in S |-> f[t]]
<1>1. g \in Surjection(S, T)
  BY DEF Surjection
<1>2. IsFiniteSet(S) /\ Cardinality(S) <= Cardinality(Senders)
  BY ImagesAssumption, FS_Subset
<1>3. IsFiniteSet(T) /\ Cardinality(T) <= Cardinality(S)
  BY <1>1, <1>2, FS_Surjection
<1>4. Cardinality(T) \in Nat /\ Cardinality(S) \in Nat /\ Cardinality(Senders) \in Nat
  BY <1>2, <1>3, ImagesAssumption, FS_CardinalityType
<1> QED BY <1>2, <1>3, <1>4

LEMMA OneSender ==
  ASSUME NEW S \in SUBSET Senders, NEW t \in Senders
  PROVE  /\ t \notin S => Cardinality(S \cup {t}) = Cardinality(S) + 1
         /\ t \in S => Cardinality(S \ {t}) = Cardinality(S) - 1
BY SendersFinite, FS_AddElement, FS_RemoveElement

LEMMA EmptyCount == Cardinality({}) = 0
BY FS_EmptySet

\* Part of the lines is within the bound, too.
LEMMA BoundedPart ==
  ASSUME Bounded, icache' \cup Private' \subseteq icache \cup Private
  PROVE  Bounded'
<1>1. /\ IsFiniteSet(icache' \cup Private')
      /\ Cardinality(icache' \cup Private') <= Cardinality(icache \cup Private)
  BY FS_Subset DEF Bounded
<1>2. /\ Cardinality(icache' \cup Private') \in Nat
      /\ Cardinality(icache \cup Private) \in Nat
  BY <1>1, FS_CardinalityType DEF Bounded
<1> QED BY <1>1, <1>2, SendersFinite, ImagesAssumption DEF Bounded

-----------------------------------------------------------------------------
(***************************************************************************)
(* The actions                                                             *)
(***************************************************************************)

Good == ImageTypeOK /\ Owners /\ Victims /\ Blank /\ Counts /\ Keys /\ Bounded

\* Thread t moves on, and neither takes a line to send nor gives one back.
Elsewhere(t) ==
  /\ at[t] # "send" /\ at'[t] # "send"
  /\ \A u \in Senders : u # t => at'[u] = at[u] /\ cl'[u] = cl[u] /\ want'[u] = want[u]

LEMMA SameSenders ==
  ASSUME NEW t \in Senders, Elsewhere(t)
  PROVE  \A l : SendersOf(l)' = SendersOf(l)
BY DEF Elsewhere, SendersOf

LEMMA LookupKeeps ==
  ASSUME Good, NEW t \in Senders, NEW k \in ImageKeys, LookupImage(t, k)
  PROVE  Good'
<1> DEFINE found == {l \in icache : imgKey[l] = k}
<1>1. /\ at[t] = "idle" /\ UNCHANGED <<icache, imgKey, imgFlags, imgRef, evicted>>
      /\ want' = [want EXCEPT ![t] = k]
  BY DEF LookupImage, table
<1>2. \/ \E l \in found : cl' = [cl EXCEPT ![t] = l] /\ at' = [at EXCEPT ![t] = "recheck"]
      \/ cl' = cl /\ at' = [at EXCEPT ![t] = "encode"]
  BY DEF LookupImage
<1>3. ImageTypeOK'
  BY <1>1, <1>2 DEF Good, ImageTypeOK
<1>4. Elsewhere(t)
  BY <1>1, <1>2 DEF Elsewhere, Good, ImageTypeOK
<1>5. \A u \in Senders : Owns(u)' <=> Owns(u)
  BY <1>1, <1>2, <1>4 DEF Owns, Elsewhere, Good, ImageTypeOK
<1>6. Private' = Private
  BY <1>1, <1>4, <1>5 DEF Private, Owns, Elsewhere
<1>7. Owners' /\ Victims'
  BY <1>1, <1>2, <1>4, <1>5 DEF Good, ImageTypeOK, Owners, Victims, Owns, Elsewhere
<1>8. Blank'
  BY <1>1, <1>2, <1>4, <1>6 DEF Good, ImageTypeOK, Blank, Elsewhere
<1>9. Counts'
  BY <1>1, <1>4, SameSenders DEF Good, Counts, CountOK
<1>10. Keys'
  BY <1>1, <1>2, <1>4, ImagesAssumption DEF Good, ImageTypeOK, Keys, Elsewhere
<1>11. Bounded'
  BY <1>1, <1>6 DEF Good, Bounded
<1> QED BY <1>3, <1>7, <1>8, <1>9, <1>10, <1>11 DEF Good

LEMMA RecheckKeeps ==
  ASSUME Good, NEW t \in Senders, RecheckImage(t)
  PROVE  Good'
<1>1. /\ at[t] = "recheck" /\ cl[t] \in Images /\ WriteLock
      /\ UNCHANGED <<icache, imgKey, want>>
  BY DEF RecheckImage, Continue
<1>2. CASE ~StillValid(cl[t])
  <2>1. /\ at' = [at EXCEPT ![t] = "encode"] /\ cl' = [cl EXCEPT ![t] = NoImage]
        /\ evicted' = [evicted EXCEPT ![t] = FALSE] /\ UNCHANGED <<imgFlags, imgRef>>
    BY <1>2 DEF RecheckImage, Continue
  <2>2. ImageTypeOK'
    BY <1>1, <2>1 DEF Good, ImageTypeOK
  <2>3. Elsewhere(t)
    BY <1>1, <2>1 DEF Elsewhere, Good, ImageTypeOK
  <2>4. \A u \in Senders : Owns(u)' <=> Owns(u)
    BY <1>1, <2>1, <2>3 DEF Owns, Elsewhere, Good, ImageTypeOK
  <2>5. Private' = Private
    BY <1>1, <2>3, <2>4 DEF Private, Owns, Elsewhere
  <2>6. Owners' /\ Victims'
    BY <1>1, <2>1, <2>3, <2>4 DEF Good, ImageTypeOK, Owners, Victims, Owns, Elsewhere
  <2>7. Blank'
    BY <1>1, <2>1, <2>3, <2>5 DEF Good, ImageTypeOK, Blank, Elsewhere
  <2>8. Counts'
    BY <2>1, <2>3, SameSenders DEF Good, Counts, CountOK
  <2>9. Keys'
    BY <1>1, <2>1, <2>3 DEF Good, ImageTypeOK, Keys, Elsewhere
  <2>10. Bounded'
    BY <1>1, <2>5 DEF Good, Bounded
  <2> QED BY <2>2, <2>6, <2>7, <2>8, <2>9, <2>10 DEF Good
<1>3. CASE StillValid(cl[t])
  <2>0. PICK l \in Images : l = cl[t]
    BY <1>1
  <2>1. /\ imgRef' = [imgRef EXCEPT ![l] = imgRef[l] + 1]
        /\ imgFlags' = [imgFlags EXCEPT ![l] = @ \cup {"INUSE"}]
        /\ at' = [at EXCEPT ![t] = "send"] /\ UNCHANGED <<cl, evicted>>
    BY <1>1, <1>3, <2>0 DEF RecheckImage, Continue, CountReference, Good, ImageTypeOK
  <2>2. ImageTypeOK'
    BY <1>1, <2>0, <2>1 DEF Good, ImageTypeOK
  <2>3. \A u \in Senders : Owns(u)' <=> Owns(u)
    BY <1>1, <2>0, <2>1 DEF Owns, Good, ImageTypeOK
  <2>4. Private' = Private
    BY <1>1, <2>0, <2>1, <2>3 DEF Private, Owns
  <2>5. Owners'
    BY <1>1, <2>0, <2>1, <2>3 DEF Good, Owners
  <2>6. Victims'
    BY <1>1, <2>0, <2>1 DEF Good, ImageTypeOK, Victims, WriteLock, Evicting
  <2>7. l \in icache \/ l \in Private
    BY <1>1, <1>3, <2>0 DEF StillValid, Good, Blank
  <2>8. \A u \in Senders : at[u] = "fill" => cl[u] # l
    BY <1>3, <2>0 DEF StillValid, Good, Blank
  <2>9. Blank'
    BY <1>1, <2>0, <2>1, <2>4, <2>7, <2>8 DEF Good, ImageTypeOK, Blank, Owners, Owns
  <2>10. SendersOf(l)' = SendersOf(l) \cup {t} /\ t \notin SendersOf(l)
    BY <1>1, <2>0, <2>1 DEF SendersOf, Good, ImageTypeOK
  <2>11. \A m : m # l => SendersOf(m)' = SendersOf(m)
    BY <1>1, <2>0, <2>1 DEF SendersOf, Good, ImageTypeOK
  <2>12. Cardinality(SendersOf(l)') = Cardinality(SendersOf(l)) + 1
    BY <2>10, OneSender DEF SendersOf
  <2>13. Counts'
    <3>1. ASSUME NEW m \in Images, m # l
          PROVE  CountOK(m)'
      BY <2>0, <2>1, <2>11, <3>1 DEF Good, ImageTypeOK, Counts, CountOK
    <3>2. CountOK(l)'
      BY <1>1, <2>0, <2>1, <2>10, <2>12 DEF Good, ImageTypeOK, Counts, CountOK
    <3> QED BY <3>1, <3>2 DEF Counts
  <2>14. Keys'
    BY <1>1, <2>0, <2>1 DEF Good, ImageTypeOK, Keys
  <2>15. Bounded'
    BY <1>1, <2>0, <2>4 DEF Good, Bounded
  <2> QED BY <2>2, <2>5, <2>6, <2>9, <2>13, <2>14, <2>15 DEF Good
<1> QED BY <1>2, <1>3

LEMMA ReleaseKeeps ==
  ASSUME Good, NEW t \in Senders, ReleaseImage(t)
  PROVE  Good'
<1>0. PICK l \in Images : l = cl[t]
  BY DEF ReleaseImage
<1>1. /\ at[t] = "send" /\ WriteLock
      /\ imgRef' = [imgRef EXCEPT ![l] = imgRef[l] - 1]
      /\ imgFlags' = [imgFlags EXCEPT ![l] = IF imgRef[l] > 1 THEN @ ELSE @ \ {"INUSE"}]
      /\ at' = [at EXCEPT ![t] = "idle"] /\ cl' = [cl EXCEPT ![t] = NoImage]
      /\ want' = [want EXCEPT ![t] = NoImage] /\ evicted' = [evicted EXCEPT ![t] = FALSE]
      /\ UNCHANGED <<icache, imgKey>>
  BY <1>0 DEF ReleaseImage, Finished, Good, ImageTypeOK
<1>2. t \in SendersOf(l) /\ SendersOf(l)' = SendersOf(l) \ {t}
  BY <1>0, <1>1 DEF SendersOf, Good, ImageTypeOK
<1>3. \A m : m # l => SendersOf(m)' = SendersOf(m)
  BY <1>0, <1>1 DEF SendersOf, Good, ImageTypeOK
<1>4. /\ SendersOf(l) \in SUBSET Senders /\ SendersOf(l)' \in SUBSET Senders
      /\ Cardinality(SendersOf(l)') = Cardinality(SendersOf(l)) - 1
  BY <1>2, OneSender DEF SendersOf
<1>5. Cardinality(SendersOf(l)') \in Nat /\ (Cardinality(SendersOf(l)') = 0 <=> SendersOf(l)' = {})
  BY <1>4, SendersFinite, FS_EmptySet
<1>6. imgRef[l] = Cardinality(SendersOf(l)) /\ "INUSE" \in imgFlags[l]
  BY <1>2 DEF Good, Counts, CountOK
<1>7. ImageTypeOK'
  <2>1. imgRef[l] - 1 \in Nat
    BY <1>4, <1>5, <1>6
  <2> QED BY <1>1, <2>1 DEF Good, ImageTypeOK
<1>8. \A u \in Senders : Owns(u)' <=> Owns(u)
  BY <1>1 DEF Owns, Good, ImageTypeOK
<1>9. Private' = Private
  BY <1>1, <1>8 DEF Private, Owns, Good, ImageTypeOK
<1>10. Owners' /\ Victims'
  BY <1>1, <1>8 DEF Good, ImageTypeOK, Owners, Victims, Owns, WriteLock, Evicting
<1>11. Blank'
  BY <1>1, <1>9 DEF Good, ImageTypeOK, Blank
<1>12. Counts'
  <2>1. ASSUME NEW m \in Images, m # l
        PROVE  CountOK(m)'
    BY <1>1, <1>3, <2>1 DEF Good, ImageTypeOK, Counts, CountOK
  <2>2. CountOK(l)'
    BY <1>1, <1>4, <1>5, <1>6 DEF Good, ImageTypeOK, CountOK
  <2> QED BY <2>1, <2>2 DEF Counts
<1>13. Keys'
  BY <1>1 DEF Good, ImageTypeOK, Keys
<1>14. Bounded'
  BY <1>1, <1>9 DEF Good, Bounded
<1> QED BY <1>7, <1>10, <1>11, <1>12, <1>13, <1>14 DEF Good

LEMMA ChooseKeeps ==
  ASSUME Good, NEW t \in Senders, ChooseVictim(t)
  PROVE  Good'
<1>1. PICK l \in icache : /\ "INUSE" \notin imgFlags[l]
                          /\ at' = [at EXCEPT ![t] = "evict"]
                          /\ cl' = [cl EXCEPT ![t] = l]
  BY DEF ChooseVictim, Unused, Continue
<1>2. at[t] = "encode" /\ UNCHANGED <<icache, imgKey, imgFlags, imgRef, evicted, want>>
  BY DEF ChooseVictim, Continue, table
<1>3. ImageTypeOK'
  BY <1>1, <1>2 DEF Good, ImageTypeOK
<1>4. Elsewhere(t)
  BY <1>1, <1>2 DEF Elsewhere, Good, ImageTypeOK
<1>5. \A u \in Senders : Owns(u)' <=> Owns(u)
  BY <1>1, <1>2 DEF Owns, Good, ImageTypeOK
<1>6. Private' = Private
  BY <1>1, <1>2, <1>5 DEF Private, Owns, Good, ImageTypeOK
<1>7. Owners' /\ Victims'
  BY <1>1, <1>2, <1>4, <1>5 DEF Good, ImageTypeOK, Owners, Victims, Owns, Elsewhere
<1>8. Blank'
  BY <1>1, <1>2, <1>4, <1>6 DEF Good, ImageTypeOK, Blank, Elsewhere
<1>9. Counts'
  BY <1>2, <1>4, SameSenders DEF Good, Counts, CountOK
<1>10. Keys'
  BY <1>1, <1>2, <1>4 DEF Good, ImageTypeOK, Keys, Elsewhere
<1>11. Bounded'
  BY <1>2, <1>6 DEF Good, Bounded
<1> QED BY <1>3, <1>7, <1>8, <1>9, <1>10, <1>11 DEF Good

LEMMA EvictKeeps ==
  ASSUME Good, NEW t \in Senders, Evict(t)
  PROVE  Good'
<1>0. PICK l \in icache : l = cl[t]
  BY DEF Evict
<1>1. /\ at[t] = "evict" /\ icache' = icache \ {l} /\ Clean({l})
      /\ at' = [at EXCEPT ![t] = "fill"]
      /\ evicted' = [u \in Senders |-> evicted[u] \/ (u # t /\ cl[u] = l)]
      /\ UNCHANGED want
  BY <1>0 DEF Evict, Continue
<1>2. UNCHANGED cl
  BY <1>0 DEF Evict, Continue, Good, ImageTypeOK
<1>3. l \in Images /\ "INUSE" \notin imgFlags[l] /\ SendersOf(l) = {} /\ imgRef[l] = 0
  <2>1. l \in Images /\ "INUSE" \notin imgFlags[l]
    BY <1>0, <1>1 DEF Good, ImageTypeOK, Victims
  <2> QED BY <2>1, EmptyCount DEF Good, Counts, CountOK
<1>4. /\ imgKey'[l] = NoImage /\ imgFlags'[l] = {} /\ imgRef'[l] = 0
      /\ \A m \in Images : m # l => /\ imgKey'[m] = imgKey[m] /\ imgFlags'[m] = imgFlags[m]
                                    /\ imgRef'[m] = imgRef[m]
  BY <1>1, <1>3 DEF Clean
<1>5. ImageTypeOK'
  <2>1. /\ imgKey' \in [Images -> ImageKeys \cup {NoImage}]
        /\ imgFlags' \in [Images -> SUBSET {"VALID", "INUSE"}]
        /\ imgRef' \in [Images -> Nat]
    BY <1>1 DEF Good, ImageTypeOK, Clean
  <2>2. evicted' \in [Senders -> BOOLEAN]
    BY <1>1, Zenon
  <2> QED BY <1>1, <1>2, <2>1, <2>2 DEF Good, ImageTypeOK
<1>6. \A u \in Senders : Owns(u)' <=> (Owns(u) \/ u = t)
  BY <1>1 DEF Owns, Good, ImageTypeOK
<1>7. Private' = Private \cup {l}
  BY <1>0, <1>2, <1>6 DEF Private, Owns
<1>8. Owners'
  BY <1>0, <1>1, <1>2, <1>3, <1>6 DEF Good, Owners
<1>9. Victims'
  BY <1>1, <1>2, <1>4 DEF Good, ImageTypeOK, Victims
<1>10. Blank'
  <2>1. \A u \in Senders : at'[u] = "fill" => imgFlags'[cl'[u]] = {}
    BY <1>0, <1>1, <1>2, <1>4 DEF Good, ImageTypeOK, Blank, Owners, Owns
  <2>2. \A m \in Images : m \notin icache' /\ m \notin Private' => imgFlags'[m] = {}
    BY <1>1, <1>4, <1>7 DEF Good, Blank
  <2> QED BY <2>1, <2>2 DEF Blank
<1>11. Counts'
  <2>1. \A m : SendersOf(m)' = SendersOf(m)
    BY <1>1, <1>2 DEF SendersOf, Good, ImageTypeOK
  <2>2. ASSUME NEW m \in Images, m # l
        PROVE  CountOK(m)'
    BY <1>4, <2>1, <2>2 DEF Good, Counts, CountOK
  <2>3. CountOK(l)'
    BY <1>3, <1>4, <2>1, EmptyCount DEF CountOK
  <2> QED BY <2>2, <2>3 DEF Counts
<1>12. Keys'
  <2>1. \A u \in Senders : at'[u] = "link" => imgKey'[cl'[u]] = want'[u]
    BY <1>0, <1>1, <1>2, <1>4 DEF Good, ImageTypeOK, Keys, Owners, Owns
  <2>2. ASSUME NEW u \in Senders, at'[u] \in {"recheck", "send"}, cl'[u] \in Images, ~evicted'[u]
        PROVE  cl'[u] \in icache' /\ imgKey'[cl'[u]] = want'[u]
    <3>1. u # t /\ at[u] = at'[u]
      BY <1>1, <2>2 DEF Good, ImageTypeOK
    <3>2. cl[u] # l /\ ~evicted[u]
      BY <1>1, <2>2, <3>1
    <3> QED BY <1>1, <1>2, <1>4, <2>2, <3>1, <3>2 DEF Good, Keys
  <2>3. \A m, k \in icache' : imgKey'[m] = imgKey'[k] => m = k
    BY <1>1, <1>4 DEF Good, ImageTypeOK, Keys
  <2>4. \A u \in Senders : at'[u] \in {"recheck", "send"} => cl'[u] # NoImage
    BY <1>1, <1>2 DEF Good, ImageTypeOK, Keys
  <2> QED BY <2>1, <2>2, <2>3, <2>4 DEF Keys
<1>13. Bounded'
  <2>1. icache' \cup Private' = icache \cup Private
    BY <1>1, <1>7
  <2> QED BY <2>1 DEF Good, Bounded
<1> QED BY <1>5, <1>8, <1>9, <1>10, <1>11, <1>12, <1>13 DEF Good

\* Allocation is where the cache may outgrow its size: by the lines of the
\* other threads when there is room, and to no more than one line per thread
\* when all of the table is being sent.
LEMMA AllocationIsBounded ==
  ASSUME Good, NEW t \in Senders, at[t] = "encode", ~TableFull \/ Unused = {},
         icache' = icache, \A u \in Senders : u # t => at'[u] = at[u] /\ cl'[u] = cl[u]
  PROVE  Bounded'
<1>1. \A l \in Private' : \E u \in Senders : cl'[u] = l
  BY DEF Private
<1>2. Cardinality(Senders) \in Nat \ {0} /\ ImageSize \in Nat \ {0}
  BY SendersFinite, ImagesAssumption
<1>3. CASE ~TableFull
  <2>1. IsFiniteSet(icache) /\ Cardinality(icache) \in Nat /\ Cardinality(icache) < ImageSize
    <3>1. IsFiniteSet(icache)
      BY FS_Subset DEF Good, Bounded
    <3>2. Cardinality(icache) \in Nat
      BY <3>1, FS_CardinalityType
    <3> QED BY <1>2, <1>3, <3>1, <3>2 DEF TableFull
  <2>2. IsFiniteSet(Private') /\ Cardinality(Private') <= Cardinality(Senders)
    BY <1>1, PointedTo
  <2>3. /\ IsFiniteSet(icache \cup Private')
        /\ Cardinality(icache \cup Private') =
             Cardinality(icache) + Cardinality(Private') - Cardinality(icache \cap Private')
    BY <2>1, <2>2, FS_Union
  <2>4. Cardinality(Private') \in Nat /\ Cardinality(icache \cap Private') \in Nat
    <3>1. IsFiniteSet(icache \cap Private')
      BY <2>1, FS_Subset
    <3> QED BY <2>2, <3>1, FS_CardinalityType
  <2>5. Cardinality(icache \cup Private') <= ImageSize + Cardinality(Senders) - 1
    BY <1>2, <2>1, <2>2, <2>3, <2>4
  <2> QED BY <2>3, <2>5 DEF Bounded
<1>4. CASE Unused = {}
  <2>1. ASSUME NEW l \in icache
        PROVE  \E u \in Senders : cl'[u] = l
    <3>1. l \in Images /\ "INUSE" \in imgFlags[l]
      BY <1>4 DEF Unused, Good, ImageTypeOK
    <3>2. PICK u \in Senders : at[u] = "send" /\ cl[u] = l
      BY <3>1 DEF Good, Counts, CountOK, SendersOf
    <3> QED BY <3>2
  <2>2. /\ IsFiniteSet(icache \cup Private')
        /\ Cardinality(icache \cup Private') <= Cardinality(Senders)
    <3>1. \A l \in icache \cup Private' : \E u \in Senders : cl'[u] = l
      BY <1>1, <2>1
    <3> QED BY <3>1, PointedTo
  <2>3. Cardinality(icache \cup Private') \in Nat
    BY <2>2, FS_CardinalityType
  <2>4. Cardinality(icache \cup Private') <= ImageSize + Cardinality(Senders) - 1
    BY <1>2, <2>2, <2>3
  <2> QED BY <2>2, <2>4 DEF Bounded
<1> QED BY <1>3, <1>4

LEMMA AllocateKeeps ==
  ASSUME Good, NEW t \in Senders, AllocateImage(t)
  PROVE  Good'
<1>1. PICK l \in Images : /\ l \notin icache /\ l \notin Private
                          /\ at' = [at EXCEPT ![t] = "fill"]
                          /\ cl' = [cl EXCEPT ![t] = l]
  BY DEF AllocateImage, Continue
<1>2. at[t] = "encode" /\ UNCHANGED <<icache, imgKey, imgFlags, imgRef, evicted, want>>
  BY DEF AllocateImage, Continue, table
<1>3. ImageTypeOK'
  BY <1>1, <1>2 DEF Good, ImageTypeOK
<1>4. Elsewhere(t)
  BY <1>1, <1>2 DEF Elsewhere, Good, ImageTypeOK
<1>5. \A u \in Senders : Owns(u)' <=> (Owns(u) \/ u = t)
  BY <1>1, <1>2 DEF Owns, Good, ImageTypeOK
<1>6. cl'[t] = l /\ \A u \in Senders : Owns(u) => cl[u] # l
  BY <1>1 DEF Good, ImageTypeOK, Private, Owns
<1>7. Owners'
  BY <1>1, <1>2, <1>4, <1>5, <1>6 DEF Good, Owners, Elsewhere
<1>8. Victims'
  BY <1>1, <1>2, <1>4 DEF Good, ImageTypeOK, Victims, Elsewhere
<1>9. Private' = Private \cup {l}
  BY <1>2, <1>4, <1>5, <1>6 DEF Private, Owns, Elsewhere
<1>10. Blank'
  BY <1>1, <1>2, <1>4, <1>6, <1>9 DEF Good, ImageTypeOK, Blank, Elsewhere
<1>11. Counts'
  BY <1>2, <1>4, SameSenders DEF Good, Counts, CountOK
<1>12. Keys'
  BY <1>1, <1>2, <1>4 DEF Good, ImageTypeOK, Keys, Elsewhere
<1>13. Bounded'
  BY <1>2, <1>4, AllocationIsBounded DEF AllocateImage, Elsewhere
<1> QED BY <1>3, <1>7, <1>8, <1>10, <1>11, <1>12, <1>13 DEF Good

LEMMA FillKeeps ==
  ASSUME Good, NEW t \in Senders, FillImage(t)
  PROVE  Good'
<1>0. PICK l \in Images : l = cl[t] /\ l \notin icache
  BY DEF FillImage, Good, Owners, Owns
<1>1. /\ at[t] = "fill" /\ at' = [at EXCEPT ![t] = "link"]
      /\ imgKey' = [imgKey EXCEPT ![l] = want[t]]
      /\ imgFlags' = [imgFlags EXCEPT ![l] = {"VALID"}]
      /\ UNCHANGED <<icache, imgRef, evicted, want, cl>>
  BY <1>0 DEF FillImage, Continue, Good, ImageTypeOK
<1>2. imgFlags[l] = {} /\ SendersOf(l) = {}
  BY <1>0, <1>1 DEF Good, Blank, Counts, CountOK
<1>3. ImageTypeOK'
  BY <1>1 DEF Good, ImageTypeOK
<1>4. Elsewhere(t)
  BY <1>1 DEF Elsewhere, Good, ImageTypeOK
<1>5. \A u \in Senders : Owns(u)' <=> Owns(u)
  BY <1>1 DEF Owns, Good, ImageTypeOK
<1>6. Private' = Private
  BY <1>1, <1>5 DEF Private, Owns
<1>7. Owners'
  BY <1>1, <1>5 DEF Good, Owners
<1>8. Victims'
  BY <1>0, <1>1 DEF Good, ImageTypeOK, Victims
<1>9. \A u \in Senders : u # t /\ Owns(u) => cl[u] # l
  BY <1>0, <1>1 DEF Good, Owners, Owns
<1>10. Blank'
  <2>1. l \in Private
    BY <1>0, <1>1 DEF Private
  <2> QED BY <1>0, <1>1, <1>6, <1>9, <2>1 DEF Good, ImageTypeOK, Blank, Owns
<1>11. Counts'
  BY <1>1, <1>2, <1>4, SameSenders DEF Good, ImageTypeOK, Counts, CountOK
<1>12. Keys'
  BY <1>0, <1>1, <1>9 DEF Good, ImageTypeOK, Keys, Owns
<1>13. Bounded'
  BY <1>1, <1>6 DEF Good, Bounded
<1> QED BY <1>3, <1>7, <1>8, <1>10, <1>11, <1>12, <1>13 DEF Good

LEMMA LinkKeeps ==
  ASSUME Good, NEW t \in Senders, LinkImage(t)
  PROVE  Good'
<1>0. PICK l \in Images : l = cl[t] /\ l \notin icache
  BY DEF LinkImage, Good, Owners, Owns
<1>1. /\ at[t] = "link" /\ WriteLock /\ at' = [at EXCEPT ![t] = "idle"]
      /\ want' = [want EXCEPT ![t] = NoImage] /\ evicted' = [evicted EXCEPT ![t] = FALSE]
  BY DEF LinkImage
<1>2. /\ \A u \in Senders : Owns(u)' <=> (Owns(u) /\ u # t)
      /\ \A u \in Senders : u # t /\ Owns(u) => cl[u] # l
  BY <1>0, <1>1 DEF Good, ImageTypeOK, Owners, Owns
<1>3. CASE Duplicate(t)
  <2>1. /\ Clean({l}) /\ UNCHANGED icache
        /\ cl' = [u \in Senders |-> IF u = t THEN NoImage
                                    ELSE IF cl[u] = l THEN FreedImage ELSE cl[u]]
    BY <1>0, <1>3 DEF LinkImage, Dangle
  <2>2. /\ imgKey'[l] = NoImage /\ imgFlags'[l] = {} /\ imgRef'[l] = 0
        /\ \A m \in Images : m # l => /\ imgKey'[m] = imgKey[m] /\ imgFlags'[m] = imgFlags[m]
                                      /\ imgRef'[m] = imgRef[m]
    BY <2>1 DEF Clean
  <2>3. ImageTypeOK'
    <3>1. /\ imgKey' \in [Images -> ImageKeys \cup {NoImage}]
          /\ imgFlags' \in [Images -> SUBSET {"VALID", "INUSE"}]
          /\ imgRef' \in [Images -> Nat]
      BY <2>1 DEF Good, ImageTypeOK, Clean
    <3> QED BY <1>1, <2>1, <3>1 DEF Good, ImageTypeOK
  <2>4. \A u \in Senders : Owns(u) /\ u # t => cl'[u] = cl[u]
    BY <1>2, <2>1
  <2>5. Private' = Private \ {l}
    BY <1>0, <1>1, <1>2, <2>4 DEF Private, Owns
  <2>6. Owners' /\ Victims'
    BY <1>1, <1>2, <2>1, <2>4 DEF Good, ImageTypeOK, Owners, Victims, WriteLock, Evicting
  <2>7. Blank'
    <3>1. \A u \in Senders : at'[u] = "fill" => imgFlags'[cl'[u]] = {}
      BY <1>1, <1>2, <2>2, <2>4 DEF Good, ImageTypeOK, Blank, Owners, Owns
    <3>2. \A m \in Images : m \notin icache' /\ m \notin Private' => imgFlags'[m] = {}
      BY <2>1, <2>2, <2>5 DEF Good, Blank
    <3> QED BY <3>1, <3>2 DEF Blank
  <2>8. Counts'
    <3>1. l # FreedImage /\ SendersOf(l)' = {}
      BY <1>1, <2>1, ImagesAssumption DEF SendersOf, Good, ImageTypeOK
    <3>2. ASSUME NEW m \in Images, m # l
          PROVE  CountOK(m)'
      <4>1. SendersOf(m)' = SendersOf(m)
        BY <1>0, <1>1, <2>1, <3>2, ImagesAssumption DEF SendersOf, Good, ImageTypeOK
      <4> QED BY <2>2, <3>2, <4>1 DEF Good, Counts, CountOK
    <3>3. CountOK(l)'
      BY <2>2, <3>1, EmptyCount DEF CountOK
    <3> QED BY <3>2, <3>3 DEF Counts
  <2>9. Keys'
    <3>1. \A u \in Senders : at'[u] = "link" => imgKey'[cl'[u]] = want'[u]
      BY <1>1, <1>2, <2>2, <2>4 DEF Good, ImageTypeOK, Keys, Owners, Owns
    <3>2. \A u \in Senders :
            at'[u] \in {"recheck", "send"} /\ cl'[u] \in Images /\ ~evicted'[u] =>
              cl'[u] \in icache' /\ imgKey'[cl'[u]] = want'[u]
      BY <1>1, <2>1, <2>2, ImagesAssumption DEF Good, ImageTypeOK, Keys
    <3>3. \A m, k \in icache' : imgKey'[m] = imgKey'[k] => m = k
      BY <1>0, <2>1, <2>2 DEF Good, ImageTypeOK, Keys
    <3>4. \A u \in Senders : at'[u] \in {"recheck", "send"} => cl'[u] # NoImage
      BY <1>1, <2>1, ImagesAssumption DEF Good, ImageTypeOK, Keys
    <3> QED BY <3>1, <3>2, <3>3, <3>4 DEF Keys
  <2>10. Bounded'
    BY <2>1, <2>5, BoundedPart DEF Good
  <2> QED BY <2>3, <2>6, <2>7, <2>8, <2>9, <2>10 DEF Good
<1>4. CASE ~Duplicate(t)
  <2>1. /\ icache' = icache \cup {l} /\ UNCHANGED <<imgKey, imgFlags, imgRef>>
        /\ cl' = [cl EXCEPT ![t] = NoImage]
    BY <1>0, <1>4 DEF LinkImage, Dangle, Good, ImageTypeOK
  <2>2. ImageTypeOK'
    BY <1>1, <2>1 DEF Good, ImageTypeOK
  <2>3. Elsewhere(t)
    BY <1>1, <2>1 DEF Elsewhere, Good, ImageTypeOK
  <2>4. Private' = Private \ {l} /\ l \in Private
    BY <1>0, <1>1, <1>2, <2>3 DEF Private, Owns, Elsewhere
  <2>5. Owners' /\ Victims'
    BY <1>1, <1>2, <2>1, <2>3 DEF Good, ImageTypeOK, Owners, Victims, Elsewhere, WriteLock,
                                  Evicting
  <2>6. Blank'
    BY <1>1, <2>1, <2>3, <2>4 DEF Good, ImageTypeOK, Blank, Elsewhere
  <2>7. Counts'
    BY <2>1, <2>3, SameSenders DEF Good, Counts, CountOK
  <2>8. imgKey[l] = want[t] /\ \A m \in icache : imgKey[m] # want[t]
    BY <1>0, <1>1, <1>4 DEF Duplicate, Good, Keys
  <2>9. Keys'
    <3>1. \A m, k \in icache' : imgKey'[m] = imgKey'[k] => m = k
      BY <2>1, <2>8 DEF Good, Keys
    <3> QED BY <1>1, <2>1, <2>3, <3>1 DEF Good, ImageTypeOK, Keys, Elsewhere
  <2>10. Bounded'
    BY <2>1, <2>4, BoundedPart DEF Good
  <2> QED BY <2>2, <2>5, <2>6, <2>7, <2>9, <2>10 DEF Good
<1> QED BY <1>3, <1>4

LEMMA FlushKeeps ==
  ASSUME Good, FlushImages
  PROVE  Good'
<1>1. /\ WriteLock /\ icache' = {} /\ UNCHANGED <<at, want, evicted>>
      /\ cl' = [t \in Senders |-> IF cl[t] \in icache THEN FreedImage ELSE cl[t]]
  BY DEF FlushImages
<1>2. \A m \in Images :
        /\ m \in icache => imgKey'[m] = NoImage /\ imgFlags'[m] = {} /\ imgRef'[m] = 0
        /\ m \notin icache => /\ imgKey'[m] = imgKey[m] /\ imgFlags'[m] = imgFlags[m]
                              /\ imgRef'[m] = imgRef[m]
  BY DEF FlushImages, Clean
<1>3. ImageTypeOK'
  <2>1. /\ imgKey' \in [Images -> ImageKeys \cup {NoImage}]
        /\ imgFlags' \in [Images -> SUBSET {"VALID", "INUSE"}]
        /\ imgRef' \in [Images -> Nat]
    BY DEF FlushImages, Clean, Good, ImageTypeOK
  <2> QED BY <1>1, <2>1 DEF Good, ImageTypeOK
<1>4. \A u \in Senders : Owns(u)' <=> Owns(u)
  BY <1>1 DEF Owns
<1>5. \A u \in Senders : Owns(u) => cl'[u] = cl[u]
  BY <1>1 DEF Good, Owners
<1>6. Private' = Private
  BY <1>1, <1>5 DEF Private, Owns
<1>7. Owners' /\ Victims'
  BY <1>1, <1>4, <1>5 DEF Good, Owners, Victims
<1>8. Blank'
  BY <1>1, <1>2, <1>5, <1>6 DEF Good, Blank, Owners, Owns
<1>9. Counts'
  <2>1. ASSUME NEW m \in Images, m \in icache
        PROVE  CountOK(m)'
    <3>1. SendersOf(m)' = {}
      BY <1>1, <2>1, ImagesAssumption DEF SendersOf
    <3> QED BY <1>2, <2>1, <3>1, EmptyCount DEF CountOK
  <2>2. ASSUME NEW m \in Images, m \notin icache
        PROVE  CountOK(m)'
    <3>1. SendersOf(m)' = SendersOf(m)
      BY <1>1, <2>2, ImagesAssumption DEF SendersOf
    <3> QED BY <1>2, <2>2, <3>1 DEF Good, Counts, CountOK
  <2> QED BY <2>1, <2>2 DEF Counts
<1>10. Keys'
  BY <1>1, <1>2, <1>5, ImagesAssumption DEF Good, Keys, Owners, Owns
<1>11. Bounded'
  BY <1>1, <1>6, BoundedPart DEF Good
<1> QED BY <1>3, <1>7, <1>8, <1>9, <1>10, <1>11 DEF Good

-----------------------------------------------------------------------------
(***************************************************************************)
(* The theorems                                                            *)
(***************************************************************************)

LEMMA ImageStep ==
  ASSUME ImageInv, [ImageCacheNext]_icacheVars
  PROVE  ImageInv'
<1>1. CASE UNCHANGED icacheVars
  <2>1. /\ UNCHANGED <<icache, imgKey, imgFlags, imgRef, at, want, cl, evicted>>
        /\ Private' = Private /\ \A l : SendersOf(l)' = SendersOf(l)
    BY <1>1 DEF icacheVars, table, Private, SendersOf
  <2> QED BY <2>1 DEF ImageInv, ImagesDefined, ImageTypeOK, Owners, Owns, Victims, Blank, Counts,
                      CountOK, Keys, Bounded
<1>2. CASE ImageCacheNext
  <2>1. Good
    BY <1>2 DEF ImageCacheNext, ImageInv, Good
  <2>2. ASSUME NEW t \in Senders, UndefinedImage(t)
        PROVE  ImageInv'
    BY <2>1, <2>2 DEF UndefinedImage, table, Good, ImageInv, ImagesDefined, ImageTypeOK
  <2>3. Good' => ImageInv'
    BY DEF Good, ImageInv
  <2> QED BY <1>2, <2>1, <2>2, <2>3, LookupKeeps, RecheckKeeps, ReleaseKeeps, ChooseKeeps,
             EvictKeeps, AllocateKeeps, FillKeeps, LinkKeeps, FlushKeeps DEF ImageCacheNext
<1> QED BY <1>1, <1>2

LEMMA ImageStart ==
  ASSUME ImageCacheInit
  PROVE  ImageInv
<1>1. Private = {} /\ \A l : SendersOf(l) = {}
  BY DEF ImageCacheInit, Private, SendersOf
<1>2. Bounded
  <2>1. icache \cup Private = {}
    BY <1>1 DEF ImageCacheInit
  <2> QED BY <2>1, EmptyCount, FS_EmptySet, SendersFinite, ImagesAssumption DEF Bounded
<1>3. Counts
  BY <1>1, EmptyCount DEF ImageCacheInit, Counts, CountOK
<1> QED BY <1>1, <1>2, <1>3 DEF ImageCacheInit, ImageInv, ImageTypeOK, Owners, Owns, Victims, Blank,
                                Keys

THEOREM ImageInvariant == ImageCacheSpec => []ImageInv
<1> QED BY ImageStart, ImageStep, PTL DEF ImageCacheSpec

\* The cache never holds more than cfg_cachesize images and one for each
\* further thread, whatever the threads do at once (icache_add_buffer()).
THEOREM ImagesAreBounded == ImageCacheSpec => []ImageBound
<1>1. ImageInv => ImageBound
  BY DEF ImageInv, Bounded, ImageBound
<1> QED BY <1>1, ImageInvariant, PTL

\* refcnt is the number of threads that send the line, also of lines that are
\* on their way in or out (icache_get_buffer(), icache_release_buffer()).
THEOREM ImagesAreCounted == ImageCacheSpec => []ImageRefcnt
<1>1. ASSUME ImageInv, ImagesDefined, NEW l \in icache \cup Private
      PROVE  CountOK(l)
  <2>1. l \in Images
    BY <1>1 DEF ImageInv, ImageTypeOK, Owners, Owns, Private
  <2> QED BY <1>1, <2>1 DEF ImageInv, Counts
<1>2. ImageInv => ImageRefcnt
  BY <1>1 DEF ImageRefcnt, CountOK
<1> QED BY <1>2, ImageInvariant, PTL

\* A hit is the requested image unless the line was evicted on the way, and an
\* image is cached once (icache_get_buffer(), icache_add_buffer()).
THEOREM HitsAreRequested == ImageCacheSpec => []HitIsRequested
<1>1. ImageInv => HitIsRequested
  BY DEF ImageInv, Keys, HitIsRequested
<1> QED BY <1>1, ImageInvariant, PTL

\* While a thread sends an image, no other thread that looks up, evicts or
\* adds images takes it away or changes it (ic_flush_cache() may).
THEOREM SentImagesStay == ImageCacheSpec => SentImageStays
<1> DEFINE Stays(t) ==
      \/ cl'[t] = cl[t] /\ cl[t] \in icache' /\ imgKey'[cl[t]] = want[t]
      \/ icache' = {} /\ cl'[t] = FreedImage
      \/ cl'[t] = FreedImage /\ cl[t] = FreedImage
<1>1. ASSUME ImageInv, ImageCacheNext,
             NEW t \in Senders, at[t] = "send", at'[t] = "send", ~evicted[t]
      PROVE  Stays(t)
  <2>0. Good
    BY <1>1 DEF ImageCacheNext, ImageInv, Good
  <2>1. CASE cl[t] \notin Images
    <3>1. cl[t] = FreedImage
      BY <1>1, <2>0, <2>1 DEF Good, ImageTypeOK, Keys
    <3>2. FreedImage \notin Images
      BY ImagesAssumption
    <3>3. ASSUME NEW u \in Senders, \/ \E k \in ImageKeys : LookupImage(u, k)
                                    \/ RecheckImage(u) \/ ReleaseImage(u)
          PROVE  cl'[t] = cl[t]
      <4>1. u # t
        BY <1>1, <3>1, <3>2, <3>3 DEF LookupImage, RecheckImage, ReleaseImage
      <4> QED BY <2>0, <3>3, <4>1
              DEF LookupImage, RecheckImage, ReleaseImage, Continue, Finished, Good, ImageTypeOK
    <3>4. ASSUME NEW u \in Senders, ChooseVictim(u) \/ Evict(u) \/ AllocateImage(u) \/ FillImage(u)
          PROVE  cl'[t] = cl[t]
      <4>1. u # t
        BY <1>1, <3>4 DEF ChooseVictim, Evict, AllocateImage, FillImage
      <4> QED BY <2>0, <3>4, <4>1
              DEF ChooseVictim, Evict, AllocateImage, FillImage, Continue, Good, ImageTypeOK
    <3>5. ASSUME NEW u \in Senders, LinkImage(u)
          PROVE  cl'[t] = FreedImage
      <4>1. u # t
        BY <1>1, <3>5 DEF LinkImage
      <4> QED BY <3>1, <3>5, <4>1 DEF LinkImage, Dangle
    <3>6. FlushImages => cl'[t] = FreedImage
      BY <3>1 DEF FlushImages
    <3>7. \A u \in Senders : UndefinedImage(u) => cl'[t] = cl[t]
      BY DEF UndefinedImage
    <3>8. cl'[t] = FreedImage
      BY <1>1, <3>1, <3>3, <3>4, <3>5, <3>6, <3>7 DEF ImageCacheNext
    <3> QED BY <3>1, <3>8
  <2>2. CASE cl[t] \in Images
    <3>1. PICK l \in Images : l = cl[t] /\ l \in icache /\ imgKey[l] = want[t]
      BY <1>1, <2>0, <2>2 DEF Good, Keys
    <3>2. "INUSE" \in imgFlags[l]
      <4>1. t \in SendersOf(l)
        BY <1>1, <3>1 DEF SendersOf
      <4> QED BY <2>0, <4>1 DEF Good, Counts, CountOK
    <3>3. ASSUME NEW u \in Senders, NEW k \in ImageKeys, LookupImage(u, k)
          PROVE  Stays(t)
      BY <1>1, <2>0, <3>1, <3>3 DEF LookupImage, table, Good, ImageTypeOK
    <3>4. ASSUME NEW u \in Senders, RecheckImage(u) \/ ReleaseImage(u)
          PROVE  Stays(t)
      <4>1. u # t
        BY <1>1, <2>0, <3>4 DEF RecheckImage, ReleaseImage, Finished, Good, ImageTypeOK
      <4>2. cl'[t] = cl[t] /\ icache' = icache /\ imgKey' = imgKey
        BY <2>0, <3>4, <4>1 DEF RecheckImage, ReleaseImage, Continue, Finished, Good, ImageTypeOK
      <4> QED BY <3>1, <4>2
    <3>5. ASSUME NEW u \in Senders, ChooseVictim(u) \/ AllocateImage(u)
          PROVE  Stays(t)
      BY <1>1, <2>0, <3>1, <3>5 DEF ChooseVictim, AllocateImage, Continue, table, Good, ImageTypeOK
    <3>6. ASSUME NEW u \in Senders, Evict(u)
          PROVE  Stays(t)
      <4>1. u # t /\ cl[u] # l /\ cl[u] \in icache
        BY <1>1, <2>0, <3>2, <3>6 DEF Evict, Good, Victims
      <4>2. icache' = icache \ {cl[u]} /\ cl'[t] = cl[t] /\ imgKey'[l] = imgKey[l]
        BY <2>0, <3>1, <3>6, <4>1 DEF Evict, Continue, Clean, Good, ImageTypeOK
      <4> QED BY <3>1, <4>1, <4>2
    <3>7. ASSUME NEW u \in Senders, FillImage(u) \/ LinkImage(u)
          PROVE  Stays(t)
      <4>1. u # t /\ cl[u] \in Images /\ cl[u] # l
        BY <1>1, <2>0, <3>1, <3>7 DEF FillImage, LinkImage, Good, Owners, Owns
      <4>2. cl'[t] = cl[t] /\ l \in icache' /\ imgKey'[l] = imgKey[l]
        BY <2>0, <3>1, <3>7, <4>1 DEF FillImage, LinkImage, Continue, Clean, Dangle, Good, ImageTypeOK
      <4> QED BY <3>1, <4>2
    <3>8. ASSUME FlushImages
          PROVE  Stays(t)
      BY <3>1, <3>8 DEF FlushImages
    <3>9. ASSUME NEW u \in Senders, UndefinedImage(u)
          PROVE  Stays(t)
      BY <2>0, <3>1, <3>9 DEF UndefinedImage, table
    <3> QED BY <1>1, <3>3, <3>4, <3>5, <3>6, <3>7, <3>8, <3>9 DEF ImageCacheNext
  <2> QED BY <2>1, <2>2
<1>2. ImageInv /\ [ImageCacheNext]_icacheVars =>
        [\A t \in Senders :
           (at[t] = "send" /\ at'[t] = "send" /\ ~evicted[t]) =>
             \/ cl'[t] = cl[t] /\ cl[t] \in icache' /\ imgKey'[cl[t]] = want[t]
             \/ icache' = {} /\ cl'[t] = FreedImage
             \/ cl'[t] = FreedImage /\ cl[t] = FreedImage]_icacheVars
  BY <1>1
<1> QED BY <1>2, ImageInvariant, PTL DEF ImageCacheSpec, SentImageStays

-----------------------------------------------------------------------------
(***************************************************************************)
(* The refinement of CacheService                                          *)
(***************************************************************************)

\* A thread has a request unless it is idle; a line that may be taken, and one
\* that is being sent, has a key.
WantsOK ==
  /\ \A t \in Senders : at[t] = "idle" => want[t] = NoImage /\ cl[t] = NoImage
  /\ \A t \in Senders : at[t] # "idle" => want[t] \in ImageKeys
  /\ \A l \in Images : "VALID" \in imgFlags[l] => imgKey[l] \in ImageKeys
  /\ \A t \in Senders : at[t] = "send" /\ cl[t] \in Images => imgKey[cl[t]] \in ImageKeys

\* What everyone but t asks for, sends and was misled about stays.
OthersKeep(t) ==
  \A v \in Senders \ {t} :
    /\ want'[v] = want[v] /\ ImageGiven'[v] = ImageGiven[v] /\ evicted'[v] = evicted[v]

\* A line that is sent is not one that another thread owns before it is filled
\* or has chosen to evict.
LEMMA SentElsewhere ==
  ASSUME Good, NEW t \in Senders, NEW v \in Senders \ {t},
         at[v] = "send", cl[v] \in Images
  PROVE  /\ at[t] = "fill" => cl[v] # cl[t]
         /\ at[t] = "evict" /\ cl[t] \in icache => cl[v] # cl[t]
<1>1. PICK l \in Images : l = cl[v] /\ v \in SendersOf(l)
  BY DEF SendersOf
<1>2. "INUSE" \in imgFlags[l]
  BY <1>1 DEF Good, Counts, CountOK
<1> QED BY <1>1, <1>2 DEF Good, Blank, Victims

LEMMA Extensional ==
  ASSUME ImageTypeOK, ImageTypeOK', NEW t \in Senders, OthersKeep(t)
  PROVE  /\ want'[t] = want[t] => want' = want
         /\ evicted'[t] = evicted[t] => evicted' = evicted
         /\ ImageGiven'[t] = ImageGiven[t] => ImageGiven' = ImageGiven
         /\ ImageGiven' = [ImageGiven EXCEPT ![t] = ImageGiven'[t]]
<1>1. want'[t] = want[t] => want' = want
  BY DEF OthersKeep, ImageTypeOK
<1>2. evicted'[t] = evicted[t] => evicted' = evicted
  BY DEF OthersKeep, ImageTypeOK
<1>3. \A v \in Senders \ {t} : ImageGiven'[v] = ImageGiven[v]
  BY DEF OthersKeep
<1>4. ImageGiven'[t] = ImageGiven[t] => ImageGiven' = ImageGiven
  BY <1>3 DEF ImageGiven
<1>5. ImageGiven' = [ImageGiven EXCEPT ![t] = ImageGiven'[t]]
  BY <1>3 DEF ImageGiven
<1> QED BY <1>1, <1>2, <1>4, <1>5

\* Thread t waits for its image; the others do not see what it does.
LEMMA WaitingStep ==
  ASSUME ImageTypeOK, ImageTypeOK', WantsOK, NEW t \in Senders, OthersKeep(t),
         at[t] # "idle", at[t] # "send", at'[t] # "send", want'[t] = want[t],
         evicted'[t] => evicted[t]
  PROVE  ImageService!Work(t)
<1>1. ImageGiven[t] = NoImage /\ ImageGiven'[t] = NoImage
  BY DEF ImageGiven
<1>2. want' = want /\ ImageGiven' = ImageGiven
  BY <1>1, Extensional
<1>3. ImageService!Seeking(t)
  BY <1>1, ImagesAssumption DEF WantsOK, ImageService!Seeking
<1>4. ImageService!OthersMayBeMisled(t)
  BY DEF ImageService!OthersMayBeMisled, OthersKeep, ImageTypeOK
<1> QED BY <1>2, <1>3, <1>4 DEF ImageService!Work

LEMMA LookupAsks ==
  ASSUME Good, ImageTypeOK', WantsOK, NEW t \in Senders, NEW k \in ImageKeys, LookupImage(t, k)
  PROVE  ImageService!Ask(t, k)
<1>1. /\ at[t] = "idle" /\ UNCHANGED <<icache, imgKey, evicted>>
      /\ want' = [want EXCEPT ![t] = k] /\ at'[t] # "send"
      /\ \A v \in Senders \ {t} : at'[v] = at[v] /\ cl'[v] = cl[v]
  BY DEF LookupImage, table, Good, ImageTypeOK
<1>2. OthersKeep(t)
  BY <1>1 DEF OthersKeep, ImageGiven, Good, ImageTypeOK
<1>3. ImageGiven'[t] = ImageGiven[t]
  BY <1>1 DEF ImageGiven
<1>4. ImageGiven' = ImageGiven
  BY <1>2, <1>3, Extensional DEF Good
<1> QED BY <1>1, <1>4 DEF ImageService!Ask, WantsOK

LEMMA RecheckGives ==
  ASSUME Good, ImageTypeOK', WantsOK, NEW t \in Senders, RecheckImage(t)
  PROVE  ImageService!Give(t) \/ ImageService!Work(t)
<1>1. /\ at[t] = "recheck" /\ cl[t] \in Images /\ want' = want
      /\ UNCHANGED <<icache, imgKey>>
      /\ \A v \in Senders \ {t} : at'[v] = at[v] /\ cl'[v] = cl[v] /\ evicted'[v] = evicted[v]
  BY DEF RecheckImage, Continue, Good, ImageTypeOK
<1>2. OthersKeep(t)
  BY <1>1 DEF OthersKeep, ImageGiven
<1>3. CASE StillValid(cl[t])
  <2>1. at'[t] = "send" /\ cl'[t] = cl[t] /\ evicted' = evicted
    BY <1>3 DEF RecheckImage, Continue, Good, ImageTypeOK
  <2>2. ImageGiven'[t] = imgKey[cl[t]] /\ ImageGiven[t] = NoImage
    BY <1>1, <2>1 DEF ImageGiven
  <2>3. imgKey[cl[t]] \in ImageKeys
    BY <1>1, <1>3 DEF WantsOK, StillValid
  <2>4. evicted[t] \/ imgKey[cl[t]] = want[t]
    BY <1>1 DEF Good, Keys
  <2>5. ImageGiven' = [ImageGiven EXCEPT ![t] = imgKey[cl[t]]]
    BY <1>2, <2>2, Extensional DEF Good
  <2>6. ImageService!Seeking(t)
    BY <1>1, <2>2, ImagesAssumption DEF WantsOK, ImageService!Seeking
  <2> QED BY <1>1, <2>1, <2>3, <2>4, <2>5, <2>6 DEF ImageService!Give
<1>4. CASE ~StillValid(cl[t])
  <2>1. at'[t] = "encode" /\ ~evicted'[t]
    BY <1>4 DEF RecheckImage, Continue, Good, ImageTypeOK
  <2> QED BY <1>1, <1>2, <2>1, WaitingStep DEF Good
<1> QED BY <1>3, <1>4

LEMMA ReleaseReturns ==
  ASSUME Good, ImageTypeOK', WantsOK, NEW t \in Senders, ReleaseImage(t)
  PROVE  ImageService!Return(t)
<1>1. /\ at[t] = "send" /\ at'[t] = "idle" /\ ~evicted'[t]
      /\ want' = [want EXCEPT ![t] = NoImage] /\ imgKey' = imgKey
      /\ \A v \in Senders \ {t} : at'[v] = at[v] /\ cl'[v] = cl[v] /\ evicted'[v] = evicted[v]
  BY DEF ReleaseImage, Finished, Good, ImageTypeOK
<1>2. OthersKeep(t)
  BY <1>1 DEF OthersKeep, ImageGiven, Good, ImageTypeOK
<1>3. ImageGiven'[t] = NoImage
  BY <1>1 DEF ImageGiven
<1>4. ImageGiven' \in [Senders -> ImageKeys \cup {NoImage}]
  BY DEF ImageTypeOK, ImageGiven
<1>5. ImageService!NobodyIsMisled
  BY <1>1 DEF ImageService!NobodyIsMisled, ImageTypeOK
<1> QED BY <1>1, <1>2, <1>3, <1>4, <1>5, ImagesAssumption DEF ImageService!Return, OthersKeep, WantsOK

\* Steps that the service does not see.
LEMMA InnerSteps ==
  ASSUME Good, ImageTypeOK', WantsOK, NEW t \in Senders,
         ChooseVictim(t) \/ AllocateImage(t) \/ FillImage(t)
  PROVE  ImageService!Work(t)
<1>1. /\ at[t] \in {"encode", "fill"} /\ at'[t] # "send" /\ want' = want /\ evicted' = evicted
      /\ \A v \in Senders \ {t} : at'[v] = at[v] /\ cl'[v] = cl[v]
  BY DEF ChooseVictim, AllocateImage, FillImage, Continue, Good, ImageTypeOK
<1>2. ASSUME NEW v \in Senders \ {t}, at[v] = "send", cl[v] \in Images
      PROVE  imgKey'[cl[v]] = imgKey[cl[v]]
  <2>1. CASE ChooseVictim(t) \/ AllocateImage(t)
    BY <2>1 DEF ChooseVictim, AllocateImage, table
  <2>2. CASE FillImage(t)
    <3>1. cl[v] # cl[t]
      BY <1>2, <2>2, SentElsewhere DEF FillImage
    <3> QED BY <1>2, <2>2, <3>1 DEF FillImage, Good, ImageTypeOK
  <2> QED BY <2>1, <2>2
<1>3. OthersKeep(t)
  BY <1>1, <1>2 DEF OthersKeep, ImageGiven
<1> QED BY <1>1, <1>3, WaitingStep DEF Good

LEMMA EvictMisleads ==
  ASSUME Good, ImageTypeOK', WantsOK, NEW t \in Senders, Evict(t)
  PROVE  ImageService!Work(t)
<1>1. /\ at[t] = "evict" /\ at'[t] = "fill" /\ want' = want /\ cl[t] \in icache
      /\ evicted' = [u \in Senders |-> evicted[u] \/ (u # t /\ cl[u] = cl[t])]
      /\ imgKey' = [l \in Images |-> IF l = cl[t] THEN NoImage ELSE imgKey[l]]
      /\ \A v \in Senders \ {t} : at'[v] = at[v] /\ cl'[v] = cl[v]
  BY DEF Evict, Continue, Clean, Good, ImageTypeOK
<1>2. \A v \in Senders \ {t} : ImageGiven'[v] = ImageGiven[v]
  <2>1. \A v \in Senders \ {t} : at[v] = "send" /\ cl[v] \in Images => cl[v] # cl[t]
    BY <1>1, SentElsewhere
  <2> QED BY <1>1, <2>1 DEF ImageGiven
<1>3. ImageGiven' = ImageGiven
  <2>1. ImageGiven'[t] = ImageGiven[t]
    BY <1>1 DEF ImageGiven
  <2> QED BY <1>2, <2>1 DEF ImageGiven
<1>4. ImageService!Seeking(t)
  BY <1>1, ImagesAssumption DEF WantsOK, ImageService!Seeking, ImageGiven
<1>5. ASSUME NEW v \in Senders \ {t}, evicted'[v] # evicted[v]
      PROVE  ImageService!Seeking(v)
  <2>1. cl[v] = cl[t] /\ cl[v] \in Images /\ cl[v] # NoImage
    BY <1>1, <1>5, ImagesAssumption DEF Good, ImageTypeOK
  <2>2. at[v] # "send"
    BY <1>1, <2>1, SentElsewhere
  <2>3. at[v] # "idle"
    BY <2>1 DEF WantsOK
  <2> QED BY <2>2, <2>3, ImagesAssumption DEF WantsOK, ImageService!Seeking, ImageGiven
<1>6. ImageService!OthersMayBeMisled(t)
  BY <1>1, <1>5 DEF ImageService!OthersMayBeMisled, ImageTypeOK
<1> QED BY <1>1, <1>3, <1>4, <1>6 DEF ImageService!Work

LEMMA LinkReturns ==
  ASSUME Good, ImageTypeOK', WantsOK, WantsOK', NEW t \in Senders, LinkImage(t)
  PROVE  ImageService!Return(t)
<1>1. /\ at[t] = "link" /\ at'[t] = "idle" /\ ~evicted'[t]
      /\ want' = [want EXCEPT ![t] = NoImage]
      /\ \A v \in Senders \ {t} : at'[v] = at[v] /\ evicted'[v] = evicted[v]
  BY DEF LinkImage, Good, ImageTypeOK
<1>2. ImageGiven'[t] = NoImage
  BY <1>1 DEF ImageGiven
<1>3. cl[t] \in Images /\ cl[t] \notin icache
  BY <1>1 DEF Good, Owners, Owns
<1>4. ASSUME NEW v \in Senders \ {t}
      PROVE  ImageGiven'[v] = ImageGiven[v] \/ (evicted[v] /\ ImageGiven'[v] = NoImage)
  <2>1. CASE at[v] # "send"
    BY <1>1, <2>1 DEF ImageGiven
  <2>2. CASE at[v] = "send" /\ cl[v] = cl[t]
    <3>1. evicted[v]
      BY <1>3, <2>2 DEF Good, Keys
    <3>2. CASE Duplicate(t)
      <4>1. cl'[v] = FreedImage
        BY <3>2 , <2>2 DEF LinkImage, Dangle
      <4> QED BY <3>1, <4>1, ImagesAssumption DEF ImageGiven
    <3>3. CASE ~Duplicate(t)
      <4>1. cl'[v] = cl[v] /\ imgKey' = imgKey
        BY <3>3 DEF LinkImage, Dangle
      <4> QED BY <1>1, <2>2, <4>1 DEF ImageGiven
    <3> QED BY <3>2, <3>3
  <2>3. CASE at[v] = "send" /\ cl[v] # cl[t]
    <3>1. cl'[v] = cl[v]
      BY <2>3 DEF LinkImage, Dangle
    <3>2. cl[v] \in Images => imgKey'[cl[v]] = imgKey[cl[v]]
      BY <2>3 DEF LinkImage, Clean
    <3> QED BY <1>1, <2>3, <3>1, <3>2 DEF ImageGiven
  <2> QED BY <2>1, <2>2, <2>3
<1>5. ImageGiven' \in [Senders -> ImageKeys \cup {NoImage}]
  BY DEF ImageTypeOK, ImageGiven
<1>6. ImageService!NobodyIsMisled
  BY <1>1 DEF ImageService!NobodyIsMisled, ImageTypeOK
<1>7. want[t] # NoImage
  BY <1>1, ImagesAssumption DEF WantsOK
<1> QED BY <1>1, <1>2, <1>4, <1>5, <1>6, <1>7 DEF ImageService!Return

LEMMA FlushClears ==
  ASSUME Good, ImageTypeOK', FlushImages
  PROVE  ImageService!Clear
<1>1. UNCHANGED <<at, want, evicted>>
  BY DEF FlushImages
<1>2. ASSUME NEW v \in Senders
      PROVE  ImageGiven'[v] = ImageGiven[v] \/ ImageGiven'[v] = NoImage
  <2>1. CASE cl[v] \in icache
    BY <2>1, ImagesAssumption DEF FlushImages, ImageGiven
  <2>2. CASE cl[v] \notin icache
    BY <1>1, <2>2 DEF FlushImages, Clean, ImageGiven
  <2> QED BY <2>1, <2>2
<1>3. ImageGiven' \in [Senders -> ImageKeys \cup {NoImage}]
  BY DEF ImageTypeOK, ImageGiven
<1>4. ImageService!NobodyIsMisled
  BY <1>1 DEF ImageService!NobodyIsMisled, ImageTypeOK
<1> QED BY <1>1, <1>2, <1>3, <1>4 DEF ImageService!Clear

LEMMA UndefinedIsSilent ==
  ASSUME Good, NEW t \in Senders, UndefinedImage(t)
  PROVE  UNCHANGED <<want, ImageGiven, evicted>>
<1>1. /\ UNCHANGED <<imgKey, want, cl, evicted>>
      /\ \A v \in Senders \ {t} : at'[v] = at[v]
      /\ at'[t] = "undefined"
  BY DEF UndefinedImage, table, Good, ImageTypeOK
<1>2. ImageGiven'[t] = ImageGiven[t]
  BY <1>1, ImagesAssumption DEF UndefinedImage, ImageGiven
<1>3. \A v \in Senders : ImageGiven'[v] = ImageGiven[v]
  BY <1>1, <1>2 DEF ImageGiven
<1> QED BY <1>1, <1>3 DEF ImageGiven

LEMMA WantsStart ==
  ASSUME ImageCacheInit
  PROVE  WantsOK
BY DEF ImageCacheInit, WantsOK

\* The threads' half of WantsOK: t goes on, the others stay where they are.
LEMMA WantsOfThreads ==
  ASSUME Good, ImageTypeOK', WantsOK, NEW t \in Senders,
         at'[t] # "idle" => want'[t] \in ImageKeys,
         at'[t] = "idle" => want'[t] = NoImage /\ cl'[t] = NoImage,
         \A v \in Senders \ {t} : at'[v] = at[v] /\ want'[v] = want[v],
         \A v \in Senders \ {t} : cl'[v] = cl[v] \/ cl[v] \in Images
  PROVE  \A v \in Senders : /\ at'[v] = "idle" => want'[v] = NoImage /\ cl'[v] = NoImage
                            /\ at'[v] # "idle" => want'[v] \in ImageKeys
<1>1. NoImage \notin Images
  BY ImagesAssumption
<1> QED BY <1>1 DEF WantsOK

\* A step that changes no key and makes no line valid.
LEMMA WantsOfLines ==
  ASSUME Good, ImageTypeOK', WantsOK, NEW t \in Senders, imgKey' = imgKey,
         \A l \in Images : "VALID" \in imgFlags'[l] => "VALID" \in imgFlags[l],
         at'[t] = "send" => "VALID" \in imgFlags[cl'[t]],
         \A v \in Senders \ {t} : at'[v] = at[v] /\ cl'[v] = cl[v]
  PROVE  /\ \A l \in Images : "VALID" \in imgFlags'[l] => imgKey'[l] \in ImageKeys
         /\ \A v \in Senders : at'[v] = "send" /\ cl'[v] \in Images => imgKey'[cl'[v]] \in ImageKeys
BY DEF WantsOK

LEMMA WantsStep ==
  ASSUME Good, ImageTypeOK', WantsOK, ImageCacheNext
  PROVE  WantsOK'
<1>1. ASSUME NEW t \in Senders, NEW k \in ImageKeys, LookupImage(t, k)
      PROVE  WantsOK'
  <2>1. /\ imgKey' = imgKey /\ imgFlags' = imgFlags /\ at'[t] \in {"recheck", "encode"}
        /\ want'[t] = k
        /\ \A v \in Senders \ {t} : at'[v] = at[v] /\ want'[v] = want[v] /\ cl'[v] = cl[v]
    BY <1>1 DEF LookupImage, table, Good, ImageTypeOK
  <2> QED BY <2>1, WantsOfThreads, WantsOfLines DEF WantsOK
<1>2. ASSUME NEW t \in Senders, RecheckImage(t)
      PROVE  WantsOK'
  <2>1. /\ at[t] = "recheck" /\ at'[t] # "idle" /\ want' = want /\ imgKey' = imgKey
        /\ at'[t] = "send" => "VALID" \in imgFlags[cl'[t]]
        /\ \A l \in Images : "VALID" \in imgFlags'[l] => "VALID" \in imgFlags[l]
        /\ \A v \in Senders \ {t} : at'[v] = at[v] /\ cl'[v] = cl[v]
    BY <1>2 DEF RecheckImage, Continue, StillValid, Good, ImageTypeOK
  <2>2. want'[t] \in ImageKeys
    BY <2>1 DEF WantsOK
  <2> QED BY <2>1, <2>2, WantsOfThreads, WantsOfLines DEF WantsOK
<1>3. ASSUME NEW t \in Senders, ReleaseImage(t)
      PROVE  WantsOK'
  <2>1. /\ at'[t] = "idle" /\ want'[t] = NoImage /\ cl'[t] = NoImage /\ imgKey' = imgKey
        /\ \A l \in Images : "VALID" \in imgFlags'[l] => "VALID" \in imgFlags[l]
        /\ \A v \in Senders \ {t} : at'[v] = at[v] /\ cl'[v] = cl[v] /\ want'[v] = want[v]
    BY <1>3 DEF ReleaseImage, Finished, Good, ImageTypeOK
  <2> QED BY <2>1, WantsOfThreads, WantsOfLines DEF WantsOK
<1>4. ASSUME NEW t \in Senders, ChooseVictim(t) \/ AllocateImage(t)
      PROVE  WantsOK'
  <2>1. /\ at[t] = "encode" /\ at'[t] \in {"evict", "fill"} /\ want' = want
        /\ imgKey' = imgKey /\ imgFlags' = imgFlags
        /\ \A v \in Senders \ {t} : at'[v] = at[v] /\ cl'[v] = cl[v]
    BY <1>4 DEF ChooseVictim, AllocateImage, Continue, table, Good, ImageTypeOK
  <2>2. want'[t] \in ImageKeys
    BY <2>1 DEF WantsOK
  <2> QED BY <2>1, <2>2, WantsOfThreads, WantsOfLines DEF WantsOK
<1>5. ASSUME NEW t \in Senders, Evict(t) \/ FillImage(t)
      PROVE  WantsOK'
  <2>1. /\ at[t] \in {"evict", "fill"} /\ at'[t] \in {"fill", "link"} /\ want' = want /\ cl[t] \in Images
        /\ \A v \in Senders \ {t} : at'[v] = at[v] /\ cl'[v] = cl[v]
        /\ \A l \in Images \ {cl[t]} : imgKey'[l] = imgKey[l] /\ imgFlags'[l] = imgFlags[l]
    BY <1>5 DEF Evict, FillImage, Continue, Clean, Good, ImageTypeOK, Owners, Owns
  <2>2. want[t] \in ImageKeys /\ want'[t] \in ImageKeys
    BY <2>1 DEF WantsOK
  <2>3. "VALID" \in imgFlags'[cl[t]] => imgKey'[cl[t]] \in ImageKeys
    BY <1>5, <2>1, <2>2 DEF Evict, FillImage, Clean, Good, ImageTypeOK
  <2>4. \A v \in Senders \ {t} : at[v] = "send" /\ cl[v] \in Images => cl[v] # cl[t]
    BY <1>5, SentElsewhere DEF Evict, FillImage
  <2>5. \A v \in Senders : at'[v] = "send" /\ cl'[v] \in Images => imgKey'[cl'[v]] \in ImageKeys
    BY <2>1, <2>4 DEF WantsOK
  <2>6. \A l \in Images : "VALID" \in imgFlags'[l] => imgKey'[l] \in ImageKeys
    BY <2>1, <2>3 DEF WantsOK
  <2>7. \A v \in Senders : /\ at'[v] = "idle" => want'[v] = NoImage /\ cl'[v] = NoImage
                           /\ at'[v] # "idle" => want'[v] \in ImageKeys
    BY <2>1, <2>2, WantsOfThreads
  <2> QED BY <2>5, <2>6, <2>7 DEF WantsOK
<1>6. ASSUME NEW t \in Senders, LinkImage(t)
      PROVE  WantsOK'
  <2>1. /\ at[t] = "link" /\ at'[t] = "idle" /\ want'[t] = NoImage /\ cl'[t] = NoImage
        /\ \A v \in Senders \ {t} : at'[v] = at[v] /\ want'[v] = want[v]
        /\ \A v \in Senders \ {t} : cl'[v] = cl[v] \/ (cl[v] = cl[t] /\ cl'[v] = FreedImage)
    BY <1>6 DEF LinkImage, Dangle, Good, ImageTypeOK
  <2>2. cl[t] \in Images /\ FreedImage \notin Images
    BY <2>1, ImagesAssumption DEF Good, Owners, Owns
  <2>3. \A v \in Senders : /\ at'[v] = "idle" => want'[v] = NoImage /\ cl'[v] = NoImage
                           /\ at'[v] # "idle" => want'[v] \in ImageKeys
    BY <2>1, <2>2, WantsOfThreads
  <2>4. CASE Duplicate(t)
    <3>1. /\ \A v \in Senders \ {t} : cl'[v] = IF cl[v] = cl[t] THEN FreedImage ELSE cl[v]
          /\ \A l \in Images \ {cl[t]} : imgKey'[l] = imgKey[l] /\ imgFlags'[l] = imgFlags[l]
          /\ imgFlags'[cl[t]] = {}
      BY <1>6, <2>2, <2>4 DEF LinkImage, Dangle, Clean
    <3>2. \A l \in Images : "VALID" \in imgFlags'[l] => imgKey'[l] \in ImageKeys
      BY <3>1 DEF WantsOK
    <3>3. \A v \in Senders : at'[v] = "send" /\ cl'[v] \in Images => imgKey'[cl'[v]] \in ImageKeys
      BY <2>1, <2>2, <3>1 DEF WantsOK
    <3> QED BY <2>3, <3>2, <3>3 DEF WantsOK
  <2>5. CASE ~Duplicate(t)
    <3>1. UNCHANGED <<imgKey, imgFlags>> /\ \A v \in Senders \ {t} : cl'[v] = cl[v]
      BY <1>6, <2>5 DEF LinkImage, Dangle
    <3> QED BY <2>1, <2>3, <3>1, WantsOfLines DEF WantsOK
  <2> QED BY <2>4, <2>5
<1>7. ASSUME FlushImages
      PROVE  WantsOK'
  <2>1. /\ UNCHANGED <<at, want>>
        /\ \A v \in Senders : cl'[v] = IF cl[v] \in icache THEN FreedImage ELSE cl[v]
        /\ \A l \in Images : imgFlags'[l] = IF l \in icache THEN {} ELSE imgFlags[l]
        /\ \A l \in Images \ icache : imgKey'[l] = imgKey[l]
    BY <1>7 DEF FlushImages, Clean
  <2>2. NoImage \notin icache /\ FreedImage \notin Images
    BY ImagesAssumption DEF Good, ImageTypeOK
  <2> QED BY <2>1, <2>2 DEF WantsOK
<1>8. ASSUME NEW t \in Senders, UndefinedImage(t)
      PROVE  WantsOK'
  <2>1. /\ UNCHANGED <<imgKey, imgFlags, want, cl>> /\ at'[t] = "undefined"
        /\ \A v \in Senders \ {t} : at'[v] = at[v]
    BY <1>8 DEF UndefinedImage, table, Good, ImageTypeOK
  <2>2. at[t] # "idle"
    BY <1>8, ImagesAssumption DEF UndefinedImage, WantsOK
  <2> QED BY <2>1, <2>2 DEF WantsOK
<1> QED BY <1>1, <1>2, <1>3, <1>4, <1>5, <1>6, <1>7, <1>8 DEF ImageCacheNext

ImageServiceInv == ImageInv /\ WantsOK

LEMMA ServiceStep ==
  ASSUME ImageServiceInv, [ImageCacheNext]_icacheVars
  PROVE  /\ ImageServiceInv'
         /\ [ImageService!Next]_<<want, ImageGiven, evicted>>
<1>1. CASE UNCHANGED icacheVars
  <2>1. UNCHANGED <<imgKey, imgFlags, at, want, cl, evicted>>
    BY <1>1 DEF icacheVars, table
  <2>2. ImageInv'
    BY <1>1, ImageStep DEF ImageServiceInv
  <2>3. WantsOK' /\ UNCHANGED <<want, ImageGiven, evicted>>
    BY <2>1 DEF ImageServiceInv, WantsOK, ImageGiven
  <2> QED BY <2>2, <2>3 DEF ImageServiceInv
<1>2. CASE ImageCacheNext
  <2>1. Good /\ WantsOK
    BY <1>2 DEF ImageCacheNext, ImageInv, Good, ImageServiceInv
  <2>2. ImageInv' /\ ImageTypeOK'
    BY <1>2, ImageStep DEF ImageInv, ImageServiceInv
  <2>3. WantsOK'
    BY <1>2, <2>1, <2>2, WantsStep
  <2>4. CASE ImageService!Next
    BY <2>2, <2>3, <2>4 DEF ImageServiceInv
  <2>5. CASE UNCHANGED <<want, ImageGiven, evicted>>
    BY <2>2, <2>3, <2>5 DEF ImageServiceInv
  <2>6. ASSUME NEW t \in Senders, NEW k \in ImageKeys, LookupImage(t, k)
        PROVE  ImageService!Next
    BY <2>1, <2>2, <2>6, LookupAsks DEF ImageService!Next
  <2>7. ASSUME NEW t \in Senders, RecheckImage(t) \/ ReleaseImage(t) \/ ChooseVictim(t)
                 \/ Evict(t) \/ AllocateImage(t) \/ FillImage(t) \/ LinkImage(t)
        PROVE  ImageService!Next
    <3>1. ImageService!Work(t) \/ ImageService!Give(t) \/ ImageService!Return(t)
      BY <2>1, <2>2, <2>3, <2>7, RecheckGives, ReleaseReturns, InnerSteps, EvictMisleads, LinkReturns
    <3> QED BY <3>1 DEF ImageService!Next
  <2>8. FlushImages => ImageService!Next
    BY <2>1, <2>2, FlushClears DEF ImageService!Next
  <2> QED BY <1>2, <2>1, <2>4, <2>5, <2>6, <2>7, <2>8, UndefinedIsSilent DEF ImageCacheNext
<1> QED BY <1>1, <1>2

\* The image cache implements CacheService: icache_get_buffer() gives a request
\* the image it asked for and the request keeps it until it releases it,
\* whatever the others add and evict; the exceptions are a line that was
\* evicted between the two locks, and a flush.
THEOREM ImageCacheServes == ImageCacheSpec => ImagesAsAsked
<1>1. ImageCacheInit => ImageServiceInv /\ ImageService!Init
  BY ImageStart, WantsStart DEF ImageServiceInv, ImageCacheInit, ImageService!Init, ImageGiven
<1> QED BY <1>1, ServiceStep, PTL DEF ImageCacheSpec, ImagesAsAsked, ImageService!Spec
=============================================================================
