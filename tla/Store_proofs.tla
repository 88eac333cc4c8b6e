---------------------------- MODULE Store_proofs ----------------------------
(***************************************************************************)
(* Proofs about Store, for any servers, passphrases and salts and for jars  *)
(* and rings of any size.                                                   *)
(***************************************************************************)
EXTENDS Store, FiniteSetTheorems, TLAPS

USE StoreAssumption, MarkerAssumption

-----------------------------------------------------------------------------
(* Facts about the operators.                                              *)

\* A set of numbers has a least one: what a walk along the cookies stops at.
LEMMA LeastOf ==
    ASSUME NEW T \in SUBSET Nat, T # {}
    PROVE  \E m \in T : \A k \in T : m <= k
<1> DEFINE Below(m) == 0..(m - 1)
           R == StrictSubsetOrdering(Nat)
           Segments == {Below(m) : m \in T}
<1>1. \A m \in T : Below(m) \in FiniteSubsetsOf(Nat)
  BY FS_Interval DEF FiniteSubsetsOf
<1>2. Segments \subseteq FiniteSubsetsOf(Nat) /\ Segments # {}
  BY <1>1
<1>3. PICK x \in Segments : \A y \in Segments : ~ (<<y, x>> \in R)
  <2> HIDE DEF R, Segments
  <2> QED BY <1>2, FS_StrictSubsetOrderingWellFounded, WFMin DEF R
<1>4. PICK m \in T : x = Below(m)
  OBVIOUS
<1>5. ASSUME NEW k \in T, k < m PROVE FALSE
  <2>1. Below(k) \in Segments /\ <<Below(k), x>> \notin R
    BY <1>3
  <2>2. Below(k) \subseteq Below(m) /\ k \in Below(m) /\ k \notin Below(k)
    BY <1>5
  <2>3. Below(k) \in SUBSET Nat /\ Below(m) \in SUBSET Nat
    OBVIOUS
  <2> HIDE DEF Below, Segments
  <2> QED BY <2>1, <2>2, <2>3, <1>4 DEF StrictSubsetOrdering
<1> QED BY <1>4, <1>5

\* The keys of two registers differ when their kinds, owners or indices do.
LEMMA KeyFacts ==
    /\ MasterKeys \subseteq Keys
    /\ \A s \in 0..(Slots - 1) : Master(s) \in MasterKeys
    /\ Master(0) \in MasterKeys
    /\ \A h \in Servers :
          /\ ClientKeys(h) \in Keys /\ ClientMeta(h) \in Keys /\ Drift(h) \in Keys
          /\ ClientKeys(h) \notin MasterKeys /\ ClientMeta(h) \notin MasterKeys
          /\ Drift(h) \notin MasterKeys
          /\ \A i \in Jar : Cookie(h, i) \in Keys /\ Cookie(h, i) \notin MasterKeys
<1>1. \A s \in 0..(Slots - 1) : Master(s) \in MasterKeys
  BY DEF MasterKeys
<1>2. Master(0) \in MasterKeys
  BY <1>1
<1>3. MasterKeys \subseteq Keys
  BY DEF Keys
<1>4. ASSUME NEW h \in Servers
      PROVE  /\ ClientKeys(h) \in Keys /\ ClientMeta(h) \in Keys /\ Drift(h) \in Keys
             /\ \A i \in Jar : Cookie(h, i) \in Keys
  BY DEF Keys
<1>5. ASSUME NEW h \in Servers
      PROVE  /\ ClientKeys(h) \notin MasterKeys /\ ClientMeta(h) \notin MasterKeys
             /\ Drift(h) \notin MasterKeys
             /\ \A i \in Jar : Cookie(h, i) \notin MasterKeys
  BY DEF MasterKeys, Master, ClientKeys, ClientMeta, Drift, Cookie
<1> QED BY <1>1, <1>2, <1>3, <1>4, <1>5

LEMMA CookieFacts ==
    ASSUME NEW h, NEW g, NEW i, NEW j
    PROVE  /\ Cookie(h, i) # ClientKeys(g) /\ Cookie(h, i) # ClientMeta(g)
           /\ Cookie(h, i) # Drift(g) /\ Cookie(h, i) # Master(j)
           /\ Cookie(h, i) = Cookie(g, j) <=> h = g /\ i = j
BY DEF Cookie, ClientKeys, ClientMeta, Drift, Master

LEMMA EmptyFacts == Empty \in Logs /\ \A k \in Keys : Empty[k] = Nothing
BY DEF Empty, Logs, Values

\* A walk stays in the jar.
LEMMA WalkFacts ==
    ASSUME NEW d, NEW h \in Servers, NEW n \in Nat, NEW p, NEW s
    PROVE  /\ Walk(d, h, n, p, s) \subseteq Jar /\ Found(d, h, n, p, s) \subseteq Jar
           /\ {Cookie(h, i) : i \in Walk(d, h, n, p, s)} \subseteq Keys
<1>1. Walk(d, h, n, p, s) \subseteq Jar
  BY DEF Walk, Jar
<1> QED BY <1>1, KeyFacts DEF Found

\* When the walk does not end in an error, what it does not find is not sealed: there is
\* nothing behind the register it stopped at.
LEMMA WalkFindsAll ==
    ASSUME NEW d, NEW h \in Servers, NEW n \in Nat, NEW p, NEW s,
           NoHoleIn(d), ~ WalkFails(d, h, n, p, s),
           NEW j \in Jar, j >= n, j \notin Found(d, h, n, p, s)
    PROVE  ~ IsSealed(d[Cookie(h, j)])
<1> DEFINE O(i) == Opens(d[Cookie(h, i)], Cookie(h, i), p, s)
           Shut == {i \in n..(MaxCookies - 1) : ~ O(i) /\ i <= j}
<1>1. Shut # {}
  <2>1. j \in n..(MaxCookies - 1)
    BY DEF Jar
  <2>2. CASE O(j)
    <3>1. j \notin Walk(d, h, n, p, s)
      BY <2>2 DEF Found
    <3>2. PICK i \in n..(j - 1) : ~ O(i)
      BY <3>1, <2>1 DEF Walk
    <3>3. i \in Shut
      BY <3>2, <2>1
    <3> QED BY <3>3
  <2>3. CASE ~ O(j)
    BY <2>3, <2>1
  <2> QED BY <2>2, <2>3
<1>2. Shut \in SUBSET Nat
  OBVIOUS
<1>3. PICK m \in Shut : \A k \in Shut : m <= k
  <2> HIDE DEF Shut
  <2> QED BY <1>1, <1>2, LeastOf
<1>4. m \in n..(MaxCookies - 1) /\ ~ O(m) /\ m <= j
  BY <1>3
<1>5. \A k \in n..(m - 1) : O(k)
  <2> SUFFICES ASSUME NEW k \in n..(m - 1), ~ O(k) PROVE FALSE
    OBVIOUS
  <2>1. k \in Shut
    BY <1>4 DEF Jar
  <2> HIDE DEF Shut
  <2> QED BY <2>1, <1>3, <1>4
<1>6. m \in Walk(d, h, n, p, s)
  BY <1>4, <1>5 DEF Walk
<1>7. ~ IsSealed(d[Cookie(h, m)])
  BY <1>4, <1>6 DEF WalkFails, Locked
<1>8. m \in Jar /\ (m = j \/ m < j)
  BY <1>4 DEF Jar
<1> QED BY <1>7, <1>8 DEF NoHoleIn

-----------------------------------------------------------------------------
(* What every step keeps.  FileIsWhole, SaltOutlivesData and JarsHaveNoHole speak of
   the disk; they are inductive only with what relates the memory to it: the registers
   of an open store are declared, are sealed under the salt on disk, cover the file,
   and are what the temporary file holds when it is renamed. *)
Up       == proc \in {"ready", "flushing", "writing", "renaming"}
Declared == \A k \in Keys : db[k] # Nothing => k \in fields
Idle     == ~ Up => db = Empty
Salted   ==
    /\ Up => salt \in Salts
    /\ proc = "salting" => salt = Torn
    /\ salt \notin Salts => file = Nothing
    /\ \A k \in Keys : IsSealed(db[k]) => db[k].salt = salt
    /\ SaltOutlivesData
Covered  ==
    Up => /\ \A k \in Keys : OnDisk[k] # Nothing => db[k] # Nothing
          /\ \A k \in MasterKeys : IsSealed(OnDisk[k]) => db[k] = OnDisk[k]
Ready    == proc = "renaming" => tmp = db
Inv      ==
    TypeOK /\ FileIsWhole /\ Declared /\ Idle /\ Salted /\ Covered /\ Ready /\ JarsHaveNoHole

LEMMA OnDiskFacts ==
    /\ file = Nothing => OnDisk = Empty
    /\ TypeOK => OnDisk \in Logs
    /\ file \in Logs => OnDisk = file \/ OnDisk = Empty
BY EmptyFacts DEF OnDisk, TypeOK

LEMMA EmptyHasNoHole == NoHoleIn(Empty)
BY EmptyFacts, KeyFacts DEF NoHoleIn, IsSealed

LEMMA InitInv == Init => Inv
<1> SUFFICES ASSUME Init PROVE Inv
  OBVIOUS
<1> USE EmptyFacts, EmptyHasNoHole DEF Init
<1>1. TypeOK
  BY DEF TypeOK
<1>2. OnDisk = Empty /\ ~ Up
  BY OnDiskFacts DEF Up
<1>3. FileIsWhole
  BY DEF FileIsWhole
<1>4. Salted /\ JarsHaveNoHole
  BY <1>2, EmptyFacts DEF Salted, SaltOutlivesData, IsSealed, JarsHaveNoHole
<1>5. Declared /\ Idle /\ Covered /\ Ready
  BY <1>2 DEF Declared, Idle, Covered, Ready
<1> QED BY <1>1, <1>3, <1>4, <1>5 DEF Inv

\* A store that is dropped leaves the disk as it was.
LEMMA DropInv ==
    ASSUME Inv, proc' = "down", db' = Empty, fields' = {}, pass' = pass,
           puts' \in 0..MaxPuts, UNCHANGED <<salt, tmp, file>>
    PROVE  Inv'
<1> USE EmptyFacts
<1>1. TypeOK'
  BY DEF Inv, TypeOK
<1>2. OnDisk' = OnDisk /\ ~ Up'
  BY DEF OnDisk, Up
<1>3. Salted'
  BY <1>2 DEF Inv, Salted, SaltOutlivesData, IsSealed
<1>4. JarsHaveNoHole'
  BY <1>2, EmptyHasNoHole DEF Inv, JarsHaveNoHole
<1>5. FileIsWhole' /\ Declared' /\ Idle' /\ Covered' /\ Ready'
  BY <1>2 DEF Inv, FileIsWhole, Declared, Idle, Covered, Ready
<1> QED BY <1>1, <1>3, <1>4, <1>5 DEF Inv

\* A store that is loaded holds what the file holds.
LEMMA LoadInv ==
    ASSUME Inv, Load(OnDisk), pass' \in Passphrases, salt' \in Salts,
           salt' = salt \/ file = Nothing,
           UNCHANGED <<tmp, file, puts>>
    PROVE  Inv'
<1> USE EmptyFacts DEF Load
<1>0. OnDisk' = OnDisk /\ OnDisk \in Logs /\ Up'
  BY OnDiskFacts DEF OnDisk, Up, Inv
<1>1. TypeOK'
  BY <1>0 DEF Inv, TypeOK
<1>2. \A k \in Keys : IsSealed(OnDisk[k]) => OnDisk[k].salt = salt'
  BY OnDiskFacts DEF Inv, Salted, SaltOutlivesData, IsSealed
<1>3. Salted'
  BY <1>0, <1>2 DEF Salted, SaltOutlivesData
<1>4. JarsHaveNoHole'
  BY <1>0 DEF Inv, JarsHaveNoHole
<1>5. Covered'
  BY <1>0, KeyFacts DEF Covered
<1>6. FileIsWhole' /\ Declared' /\ Idle' /\ Ready'
  BY <1>0 DEF Inv, FileIsWhole, Declared, Idle, Ready, Up
<1> QED BY <1>1, <1>3, <1>4, <1>5, <1>6 DEF Inv

\* A step of an open store that writes registers only, under its own salt, leaves what
\* the ring holds alone and declares what it wrote.
LEMMA MemoryInv ==
    ASSUME Inv, Up, proc' \in {"ready", "flushing"}, puts' \in 0..MaxPuts,
           UNCHANGED <<salt, tmp, file, pass>>,
           db' \in Logs, fields' \in SUBSET Keys, fields \subseteq fields',
           \A k \in Keys : db'[k] # db[k] => db'[k] # Nothing /\ k \in fields',
           \A k \in Keys : db'[k] # db[k] /\ IsSealed(db'[k]) => db'[k].salt = salt,
           \A k \in MasterKeys : IsSealed(db[k]) => db'[k] = db[k],
           NoHoleIn(db')
    PROVE  Inv'
<1>0. OnDisk' = OnDisk /\ Up'
  BY DEF OnDisk, Up
<1>1. TypeOK'
  BY DEF Inv, TypeOK
<1>2. Salted'
  BY <1>0 DEF Inv, Salted, SaltOutlivesData
<1>3. Covered'
  BY <1>0, KeyFacts DEF Inv, Covered, IsSealed
<1>4. JarsHaveNoHole'
  BY <1>0 DEF Inv, JarsHaveNoHole
<1>5. Declared'
  BY DEF Inv, Declared
<1>6. FileIsWhole' /\ Idle' /\ Ready'
  BY <1>0 DEF Inv, FileIsWhole, Idle, Ready
<1> QED BY <1>1, <1>2, <1>3, <1>4, <1>5, <1>6 DEF Inv

-----------------------------------------------------------------------------
(* The steps.                                                              *)

LEMMA SealFacts ==
    ASSUME TypeOK, salt \in Salts, puts < MaxPuts, NEW k \in Keys
    PROVE  /\ Seal(k, puts + 1) \in Sealed
           /\ Seal(k, puts + 1) \in Values
           /\ Seal(k, puts + 1).salt = salt
           /\ IsSealed(Seal(k, puts + 1)) /\ Seal(k, puts + 1) # Nothing
<1>1. Seal(k, puts + 1) \in Sealed /\ Seal(k, puts + 1).salt = salt
  BY DEF Seal, Sealed, TypeOK
<1> HIDE DEF Sealed
<1> QED BY <1>1 DEF Values, IsSealed

\* The n cookies a put keeps, and what it leaves in each register.
Kept(n)       == IF n < MaxCookies THEN n ELSE MaxCookies
Written(h, n) == {ClientKeys(h), ClientMeta(h)} \cup {Cookie(h, i) : i \in 0..(Kept(n) - 1)}
After(h, n)   == [k \in Keys |-> IF k \in Written(h, n) THEN Seal(k, puts + 1)
                  ELSE IF k \in Retired(db, h, Kept(n)) THEN Tombstone ELSE db[k]]

\* put_client_session keeps the first cookies and retires those behind, as far as the walk
\* finds any: where it stops there are none left.
LEMMA PutLeavesNothingBehind ==
    ASSUME TypeOK, salt \in Salts, puts < MaxPuts, NoHoleIn(db),
           NEW h \in Servers, NEW n \in Nat,
           ~ WalkFails(db, h, Kept(n), pass, salt),
           NEW i \in Jar
    PROVE  IsSealed(After(h, n)[Cookie(h, i)]) <=> i < Kept(n)
<1> DEFINE d == After(h, n)
           found == Found(db, h, Kept(n), pass, salt)
<1>0. Kept(n) \in Nat /\ Kept(n) <= MaxCookies
  BY DEF Kept
<1>1. CASE i < Kept(n)
  <2>1. Cookie(h, i) \in Written(h, n) /\ Cookie(h, i) \in Keys
    BY <1>0, <1>1, KeyFacts DEF Written, Jar
  <2>2. d[Cookie(h, i)] = Seal(Cookie(h, i), puts + 1)
    BY <2>1 DEF After
  <2> QED BY <1>1, <2>1, <2>2, SealFacts
<1>2. CASE i >= Kept(n)
  <2>1. Cookie(h, i) \notin Written(h, n) /\ Cookie(h, i) \in Keys
    BY <1>0, <1>2, KeyFacts, CookieFacts DEF Written, Jar
  <2>2. Cookie(h, i) \in Retired(db, h, Kept(n)) <=> i \in found
    BY CookieFacts DEF Retired
  <2>3. d[Cookie(h, i)] = IF i \in found THEN Tombstone ELSE db[Cookie(h, i)]
    BY <2>1, <2>2 DEF After
  <2>4. ~ IsSealed(d[Cookie(h, i)])
    <3>1. CASE i \in found
      BY <2>3, <3>1 DEF IsSealed
    <3>2. CASE i \notin found
      BY <1>0, <1>2, <2>3, <3>2, WalkFindsAll
    <3> QED BY <3>1, <3>2
  <2> QED BY <1>0, <1>2, <2>4 DEF Jar
<1> QED BY <1>0, <1>1, <1>2 DEF Jar

\* Two logs hold the same registers of a session.
Agree(d, e, h) ==
    /\ e[ClientKeys(h)] = d[ClientKeys(h)] /\ e[ClientMeta(h)] = d[ClientMeta(h)]
    /\ \A i \in Jar : e[Cookie(h, i)] = d[Cookie(h, i)]

\* It writes no register of another server.
LEMMA PutIsLocal ==
    ASSUME NEW h \in Servers, NEW n \in Nat, NEW g \in Servers, g # h
    PROVE  Agree(db, After(h, n), g)
<1>1. ASSUME NEW i \in Jar PROVE After(h, n)[Cookie(g, i)] = db[Cookie(g, i)]
  <2>1. Cookie(g, i) \notin Written(h, n) /\ Cookie(g, i) \in Keys
    BY KeyFacts, CookieFacts DEF Written
  <2>2. Cookie(g, i) \notin Retired(db, h, Kept(n))
    BY CookieFacts DEF Retired
  <2> QED BY <2>1, <2>2 DEF After
<1>2. ClientKeys(g) # ClientKeys(h) /\ ClientMeta(g) # ClientMeta(h)
      /\ ClientKeys(g) # ClientMeta(h) /\ ClientMeta(g) # ClientKeys(h)
  BY DEF ClientKeys, ClientMeta
<1>3. /\ ClientKeys(g) \notin Written(h, n) /\ ClientMeta(g) \notin Written(h, n)
      /\ ClientKeys(g) \notin Retired(db, h, Kept(n))
      /\ ClientMeta(g) \notin Retired(db, h, Kept(n))
  BY <1>2, CookieFacts DEF Written, Retired
<1> QED BY <1>1, <1>3, KeyFacts DEF After, Agree

\* So it leaves no hole.
LEMMA PutLeavesNoHole ==
    ASSUME TypeOK, salt \in Salts, puts < MaxPuts, NoHoleIn(db),
           NEW h \in Servers, NEW n \in Nat,
           ~ WalkFails(db, h, Kept(n), pass, salt)
    PROVE  NoHoleIn(After(h, n))
<1> DEFINE d == After(h, n)
<1>0. Kept(n) \in Nat
  BY DEF Kept
<1> SUFFICES ASSUME NEW g \in Servers, NEW i \in Jar, NEW j \in Jar,
                    i < j, ~ IsSealed(d[Cookie(g, i)])
             PROVE  ~ IsSealed(d[Cookie(g, j)])
  BY DEF NoHoleIn
<1>1. CASE g = h
  BY <1>0, <1>1, PutLeavesNothingBehind DEF Jar
<1>2. CASE g # h
  BY <1>2, PutIsLocal DEF NoHoleIn, Agree
<1> QED BY <1>1, <1>2

LEMMA PutSessionInv ==
    ASSUME Inv, NEW h \in Servers, NEW n \in Nat, PutSession(h, n)
    PROVE  Inv'
<1> DEFINE fails == WalkFails(db, h, Kept(n), pass, salt)
<1>0. Up /\ TypeOK /\ salt \in Salts /\ puts < MaxPuts /\ puts' \in 0..MaxPuts
  BY DEF PutSession, Up, Inv, Salted, TypeOK
<1>1. Kept(n) \in Nat /\ Kept(n) <= MaxCookies
  BY DEF Kept
<1>2. CASE fails
  BY <1>0, <1>2, DropInv DEF PutSession, Kept
<1>3. CASE ~ fails
  <2>1. /\ proc' = "ready" /\ db' = After(h, n)
        /\ fields' = fields \cup Written(h, n)
                        \cup {Cookie(h, i) : i \in Walk(db, h, Kept(n), pass, salt)}
        /\ UNCHANGED <<salt, tmp, file, pass>>
    BY <1>3 DEF PutSession, Kept, Written, After
  <2>2. Written(h, n) \subseteq Keys /\ Retired(db, h, Kept(n)) \subseteq Keys
    <3>1. \A i \in 0..(Kept(n) - 1) : Cookie(h, i) \in Keys
      BY <1>1, KeyFacts DEF Jar
    <3>2. \A i \in Found(db, h, Kept(n), pass, salt) : Cookie(h, i) \in Keys
      BY <1>1, KeyFacts, WalkFacts
    <3> QED BY <3>1, <3>2, KeyFacts DEF Written, Retired
  <2>3. Retired(db, h, Kept(n))
            \subseteq {Cookie(h, i) : i \in Walk(db, h, Kept(n), pass, salt)}
    BY DEF Retired, Found
  <2>4. Written(h, n) \cap MasterKeys = {} /\ Retired(db, h, Kept(n)) \cap MasterKeys = {}
    <3>1. \A i \in 0..(Kept(n) - 1) : Cookie(h, i) \notin MasterKeys
      BY <1>1, KeyFacts DEF Jar
    <3>2. \A i \in Found(db, h, Kept(n), pass, salt) : Cookie(h, i) \notin MasterKeys
      BY <1>1, KeyFacts, WalkFacts
    <3> QED BY <3>1, <3>2, KeyFacts DEF Written, Retired
  <2>5. \A k \in Keys : db'[k] = IF k \in Written(h, n) THEN Seal(k, puts + 1)
                                ELSE IF k \in Retired(db, h, Kept(n)) THEN Tombstone
                                ELSE db[k]
    BY <2>1 DEF After
  <2>6. db' \in Logs
    <3>1. \A k \in Keys : db'[k] \in Values
      BY <1>0, <2>5, SealFacts DEF TypeOK, Logs, Values
    <3> QED BY <2>1, <3>1 DEF After, Logs
  <2>7. fields' \in SUBSET Keys /\ fields \subseteq fields'
    BY <1>0, <1>1, <2>1, <2>2, WalkFacts DEF TypeOK
  <2>8. \A k \in Keys : db'[k] # db[k] => db'[k] # Nothing /\ k \in fields'
    BY <1>0, <2>1, <2>3, <2>5, SealFacts
  <2>9. \A k \in Keys : db'[k] # db[k] /\ IsSealed(db'[k]) => db'[k].salt = salt
    BY <1>0, <2>5, SealFacts DEF IsSealed
  <2>10. \A k \in MasterKeys : db'[k] = db[k]
    BY <2>4, <2>5, KeyFacts
  <2>11. NoHoleIn(db')
    BY <1>0, <1>3, <2>1, PutLeavesNoHole DEF Inv, JarsHaveNoHole
  <2> QED BY <1>0, <2>1, <2>6, <2>7, <2>8, <2>9, <2>10, <2>11, MemoryInv
<1> QED BY <1>2, <1>3

LEMMA OpenInv ==
    ASSUME Inv, NEW p \in Passphrases, CreateSalt(p) \/ Open(p) \/ OpenFails(p)
    PROVE  Inv'
<1>1. CASE CreateSalt(p)
  <2> USE <1>1 DEF CreateSalt
  <2>1. file = Nothing /\ ~ Up /\ ~ Up' /\ db = Empty
    BY DEF Inv, Salted, Up, Idle
  <2>2. OnDisk = Empty /\ OnDisk' = OnDisk
    BY <2>1, OnDiskFacts DEF OnDisk
  <2>3. Salted'
    BY <2>1, <2>2, EmptyFacts DEF Salted, SaltOutlivesData, IsSealed
  <2> QED BY <2>1, <2>2, <2>3 DEF Inv, TypeOK, FileIsWhole, Declared, Idle, Covered, Ready,
                                  JarsHaveNoHole
<1>2. CASE Open(p)
  BY <1>2, LoadInv DEF Open
<1>3. CASE OpenFails(p)
  <2> USE <1>3 DEF OpenFails
  <2>1. OnDisk' = OnDisk /\ ~ Up'
    BY DEF OnDisk, Up
  <2> QED BY <2>1 DEF Inv, TypeOK, FileIsWhole, Declared, Idle, Salted, SaltOutlivesData,
                      Covered, Ready, JarsHaveNoHole, Up
<1> QED BY <1>1, <1>2, <1>3

LEMMA WriteSaltInv ==
    ASSUME Inv, NEW s \in Salts, WriteSalt(s)
    PROVE  Inv'
<1>1. file = Nothing /\ pass' \in Passphrases
  BY DEF Inv, Salted, WriteSalt, TypeOK
<1> QED BY <1>1, LoadInv DEF WriteSalt

LEMMA ResumeInv ==
    ASSUME Inv, NEW h \in Servers, Resume(h)
    PROVE  Inv'
<1>1. PICK read \in SUBSET Keys : fields' = fields \cup read
  <2> DEFINE walked == {Cookie(h, i) : i \in Walk(db, h, 0, pass, salt)}
  <2>1. walked \subseteq Keys
    BY WalkFacts
  <2> QED BY <2>1, KeyFacts, Zenon DEF Resume
<1>2. /\ Up /\ proc' = "ready" /\ db' = db /\ puts' \in 0..MaxPuts /\ db' \in Logs
      /\ fields' \in SUBSET Keys /\ NoHoleIn(db') /\ UNCHANGED <<salt, tmp, file, pass>>
  BY <1>1 DEF Resume, Up, Inv, TypeOK, JarsHaveNoHole
<1> QED BY <1>1, <1>2, MemoryInv

LEMMA PutDriftInv ==
    ASSUME Inv, NEW h \in Servers, PutDrift(h)
    PROVE  Inv'
<1> USE DEF PutDrift
<1>0. Up /\ TypeOK /\ salt \in Salts /\ puts < MaxPuts /\ puts' \in 0..MaxPuts
  BY DEF Up, Inv, Salted, TypeOK
<1>1. Drift(h) \in Keys /\ Drift(h) \notin MasterKeys
  BY KeyFacts
<1>2. \A k \in Keys : db'[k] = IF k = Drift(h) THEN Seal(k, puts + 1) ELSE db[k]
  BY <1>0, <1>1 DEF TypeOK, Logs
<1>3. db' \in Logs /\ fields' \in SUBSET Keys
  BY <1>0, <1>1, SealFacts DEF TypeOK, Logs
<1>4. NoHoleIn(db')
  BY <1>2, KeyFacts, CookieFacts DEF Inv, JarsHaveNoHole, NoHoleIn
<1>5. \A k \in MasterKeys : db'[k] = db[k]
  BY <1>1, <1>2, KeyFacts
<1> QED BY <1>0, <1>1, <1>2, <1>3, <1>4, <1>5, SealFacts, MemoryInv

LEMMA StartServerInv ==
    ASSUME Inv, StartServer
    PROVE  Inv'
<1>0. Up /\ TypeOK /\ salt \in Salts /\ puts < MaxPuts
  BY DEF StartServer, Up, Inv, Salted, TypeOK
<1>1. CASE RingFails
  BY <1>0, <1>1, DropInv DEF StartServer, TypeOK
<1>2. CASE ~ RingFails /\ Ring # {}
  <2>1. /\ proc' = "ready" /\ db' = db /\ puts' \in 0..MaxPuts /\ db' \in Logs
        /\ fields' \in SUBSET Keys /\ fields \subseteq fields' /\ NoHoleIn(db')
        /\ UNCHANGED <<salt, tmp, file, pass>>
    BY <1>0, <1>2, KeyFacts DEF StartServer, TypeOK, Inv, JarsHaveNoHole
  <2> QED BY <1>0, <2>1, MemoryInv
<1>3. CASE ~ RingFails /\ Ring = {}
  <2>1. /\ proc' = "flushing" /\ puts' = puts + 1
        /\ db' = [db EXCEPT ![Master(0)] = Seal(Master(0), puts + 1)]
        /\ fields' = fields \cup MasterKeys
        /\ UNCHANGED <<salt, tmp, file, pass>>
    BY <1>3 DEF StartServer
  <2>2. \A k \in MasterKeys : ~ IsSealed(db[k])
    BY <1>3 DEF RingFails, Ring, Locked
  <2>3. Master(0) \in Keys /\ Master(0) \in fields'
    BY <2>1, KeyFacts
  <2>4. \A k \in Keys : db'[k] = IF k = Master(0) THEN Seal(k, puts + 1) ELSE db[k]
    BY <1>0, <2>1, <2>3 DEF TypeOK, Logs
  <2>5. db' \in Logs /\ fields' \in SUBSET Keys /\ fields \subseteq fields' /\ puts' \in 0..MaxPuts
    BY <1>0, <2>1, <2>3, KeyFacts, SealFacts DEF TypeOK, Logs
  <2>6. NoHoleIn(db')
    BY <2>4, KeyFacts, CookieFacts DEF Inv, JarsHaveNoHole, NoHoleIn
  <2> QED BY <1>0, <2>1, <2>2, <2>3, <2>4, <2>5, <2>6, SealFacts, MemoryInv
<1> QED BY <1>1, <1>2, <1>3

\* What is flushed is all the store holds.
LEMMA PlanIsAll == Inv => Plan = db
BY DEF Inv, TypeOK, Declared, Plan, Logs

LEMMA FlushInv ==
    ASSUME Inv, BeginFlush \/ TruncateTmp \/ FillTmp
    PROVE  Inv'
<1>1. /\ Up /\ Up' /\ UNCHANGED <<salt, file, pass, db, fields, puts>>
      /\ tmp' \in Logs \cup {Nothing, Torn} /\ Ready'
      /\ proc' \in {"flushing", "writing", "renaming"}
  BY PlanIsAll DEF BeginFlush, TruncateTmp, FillTmp, Up, Ready, Inv, TypeOK
<1>2. OnDisk' = OnDisk
  BY <1>1 DEF OnDisk
<1> QED BY <1>1, <1>2 DEF Inv, TypeOK, FileIsWhole, Declared, Idle, Salted, SaltOutlivesData,
                          Covered, JarsHaveNoHole

LEMMA RenameFacts ==
    ASSUME Inv, Rename
    PROVE  OnDisk' = db /\ file' = db /\ db \in Logs /\ Up
BY DEF Inv, Rename, Ready, TypeOK, OnDisk, Up

LEMMA RenameInv ==
    ASSUME Inv, Rename
    PROVE  Inv'
<1>1. OnDisk' = db /\ file' = db /\ db \in Logs /\ Up /\ Up' /\ file' # Nothing /\ file' # Torn
  BY RenameFacts DEF Rename, Up
<1>2. salt \in Salts
  BY <1>1 DEF Inv, Salted
<1> QED BY <1>1, <1>2, KeyFacts
        DEF Rename, Inv, TypeOK, FileIsWhole, Declared, Idle, Salted, SaltOutlivesData,
            Covered, Ready, JarsHaveNoHole

LEMMA StepInv == Inv /\ [Next]_vars => Inv'
<1> SUFFICES ASSUME Inv, [Next]_vars PROVE Inv'
  OBVIOUS
<1>1. ASSUME NEW p \in Passphrases, CreateSalt(p) \/ Open(p) \/ OpenFails(p) PROVE Inv'
  BY <1>1, OpenInv
<1>2. ASSUME NEW s \in Salts, WriteSalt(s) PROVE Inv'
  BY <1>2, WriteSaltInv
<1>3. ASSUME NEW h \in Servers, Resume(h) \/ PutDrift(h) PROVE Inv'
  BY <1>3, ResumeInv, PutDriftInv
<1>4. ASSUME NEW h \in Servers, NEW n \in 0..(MaxCookies + 1), PutSession(h, n) PROVE Inv'
  BY <1>4, PutSessionInv
<1>5. CASE StartServer
  BY <1>5, StartServerInv
<1>6. CASE BeginFlush \/ TruncateTmp \/ FillTmp
  BY <1>6, FlushInv
<1>7. CASE Rename
  BY <1>7, RenameInv
<1>8. CASE Stop
  BY <1>8, DropInv DEF Stop, Drop, Inv, TypeOK
<1>9. CASE UNCHANGED vars
  <2>1. OnDisk' = OnDisk /\ (Up' <=> Up)
    BY <1>9 DEF vars, OnDisk, Up
  <2> QED BY <1>9, <2>1 DEF vars, Inv, TypeOK, FileIsWhole, Declared, Idle, Salted,
                            SaltOutlivesData, Covered, Ready, JarsHaveNoHole
<1> QED BY <1>1, <1>2, <1>3, <1>4, <1>5, <1>6, <1>7, <1>8, <1>9 DEF Next

LEMMA AlwaysInv == Spec => []Inv
BY InitInv, StepInv, PTL DEF Spec

\* Only the rename changes the log at the path.
LEMMA OnlyRenameChangesTheFile ==
    ASSUME Inv, [Next]_vars
    PROVE  Rename \/ OnDisk' = OnDisk
<1>1. file' = file => OnDisk' = OnDisk
  BY DEF OnDisk
<1>2. CASE UNCHANGED vars
  BY <1>1, <1>2 DEF vars
<1>3. CASE Next
  BY <1>1, <1>3 DEF Next, CreateSalt, Open, OpenFails, WriteSalt, Resume, PutDrift, PutSession,
                    StartServer, BeginFlush, TruncateTmp, FillTmp, Stop, Drop
<1> QED BY <1>2, <1>3

-----------------------------------------------------------------------------
\* The state keeps its types: registers, files and declared keys (struct Store).
THEOREM TypeCorrect == Spec => []TypeOK
BY AlwaysInv, PTL DEF Inv

\* A killed process never leaves a file that open() refuses, and what is on disk was
\* sealed under the salt on disk, also while a salt is written (Store::open, flush).
THEOREM SavedIsReadable == Spec => []SavedStaysReadable
<1>1. Inv => SavedStaysReadable
  BY DEF Inv, Salted, SavedStaysReadable
<1> QED BY <1>1, AlwaysInv, PTL

\* No cookie is behind a gap, whatever is put in whatever order and with whichever
\* passphrase (put_cookies, get_cookies).
THEOREM JarsStayWhole == Spec => []JarsHaveNoHole
BY AlwaysInv, PTL DEF Inv

\* A save keeps every entry of the file (ensure_field, flush, load_from_disk).
THEOREM SavesDropNothing == Spec => NothingIsDropped
<1>1. Inv /\ [Next]_vars
      => [\A k \in Keys : OnDisk[k] # Nothing => OnDisk'[k] # Nothing]_vars
  BY OnlyRenameChangesTheFile, RenameFacts DEF Inv, Covered
<1> QED BY <1>1, AlwaysInv, PTL DEF Spec, NothingIsDropped

\* A start with another passphrase does not replace the ring (load_or_create_ring).
THEOREM RingStays == Spec => RingIsKept
<1>1. Inv /\ [Next]_vars
      => [\A k \in MasterKeys : IsSealed(OnDisk[k]) => OnDisk'[k] = OnDisk[k]]_vars
  BY OnlyRenameChangesTheFile, RenameFacts DEF Inv, Covered
<1> QED BY <1>1, AlwaysInv, PTL DEF Spec, RingIsKept
-----------------------------------------------------------------------------
(* The store implements SessionStore.  Held and Saved are what can be resumed from the
   registers and from the file.  A put is the abstract one because the cookies it keeps
   are the whole of the jar it leaves; a rename is the save because what is renamed is
   what is held; the other steps change no session. *)

\* What Resumable says, with the salt as an argument.
At(d, h, s) ==
    IF IsSealed(d[ClientKeys(h)]) THEN Session(d, h, d[ClientKeys(h)].pass, s) ELSE Nothing

LEMMA Views ==
    /\ Saved = [h \in Servers |-> At(OnDisk, h, salt)]
    /\ Saved' = [h \in Servers |-> At(OnDisk', h, salt')]
    /\ Held = IF proc \notin {"down", "salting"}
              THEN [h \in Servers |-> At(db, h, salt)] ELSE Saved
    /\ Held' = IF proc' \in {"down", "salting"} THEN Saved'
               ELSE [h \in Servers |-> At(db', h, salt')]
BY DEF Saved, Held, Resumable, At, Up

\* A session is read from its own registers only.
LEMMA SessionFrame ==
    ASSUME NEW d, NEW e, NEW h \in Servers, NEW s, Agree(d, e, h)
    PROVE  At(e, h, s) = At(d, h, s)
<1> USE DEF Agree
<1> DEFINE p == d[ClientKeys(h)].pass
<1>1. Walk(e, h, 0, p, s) = Walk(d, h, 0, p, s)
  BY DEF Walk, Jar
<1>2. Found(e, h, 0, p, s) = Found(d, h, 0, p, s) /\ Found(d, h, 0, p, s) \subseteq Jar
  BY <1>1, WalkFacts DEF Found
<1>3. WalkFails(e, h, 0, p, s) <=> WalkFails(d, h, 0, p, s)
  BY <1>1, WalkFacts DEF WalkFails
<1>4. [i \in Found(e, h, 0, p, s) |-> e[Cookie(h, i)].put]
      = [i \in Found(d, h, 0, p, s) |-> d[Cookie(h, i)].put]
  BY <1>2
<1> QED BY <1>2, <1>3, <1>4 DEF At, Session

\* There is no session in an empty log.
LEMMA NoneInEmpty == \A h \in Servers : \A s : At(Empty, h, s) = Nothing
BY EmptyFacts, KeyFacts DEF At, IsSealed

\* A register that is none of a session's changes no session.
Foreign(r) ==
    \A g \in Servers : r # ClientKeys(g) /\ r # ClientMeta(g) /\ \A i \in Jar : r # Cookie(g, i)

LEMMA OtherRegister ==
    ASSUME NEW r, NEW v, NEW s, NEW g \in Servers,
           db \in Logs, Foreign(r), db' = [db EXCEPT ![r] = v]
    PROVE  At(db', g, s) = At(db, g, s)
<1>1. \A k \in Keys : k # r => db'[k] = db[k]
  BY DEF Logs
<1>2. Agree(db, db', g)
  BY <1>1, KeyFacts DEF Foreign, Agree
<1> QED BY <1>2, SessionFrame

\* What put_client_session leaves can be read whole: the keys, the endpoint and the
\* cookies it kept, which are all there are, or nothing when it kept none.
LEMMA PutIsWhole ==
    ASSUME TypeOK, salt \in Salts, puts < MaxPuts, NoHoleIn(db),
           NEW h \in Servers, NEW n \in Nat,
           ~ WalkFails(db, h, Kept(n), pass, salt)
    PROVE  At(After(h, n), h, salt)
           = IF Kept(n) = 0 THEN Nothing ELSE Abstract!Whole(puts + 1, Kept(n))
<1> DEFINE d == After(h, n)
           now == puts + 1
           seen == Found(d, h, 0, pass, salt)
<1>0. Kept(n) \in Nat /\ Kept(n) <= MaxCookies
  BY DEF Kept
<1>1. ASSUME NEW k \in Written(h, n), k \in Keys
      PROVE  Opens(d[k], k, pass, salt) /\ d[k].put = now /\ d[k].pass = pass /\ IsSealed(d[k])
  <2>1. d[k] = Seal(k, now)
    BY <1>1 DEF After
  <2>2. IsSealed(Seal(k, now))
    BY <1>1, SealFacts
  <2> QED BY <2>1, <2>2 DEF Seal, Opens
<1>2. ASSUME NEW i \in Jar, i < Kept(n)
      PROVE  Opens(d[Cookie(h, i)], Cookie(h, i), pass, salt) /\ d[Cookie(h, i)].put = now
  <2>1. Cookie(h, i) \in Written(h, n) /\ Cookie(h, i) \in Keys
    BY <1>0, <1>2, KeyFacts DEF Written, Jar
  <2> HIDE DEF d, now
  <2> QED BY <2>1, <1>1
<1>3. ASSUME NEW i \in Jar, i >= Kept(n) PROVE ~ IsSealed(d[Cookie(h, i)])
  BY <1>0, <1>3, PutLeavesNothingBehind DEF Jar
<1>4. seen = 0..(Kept(n) - 1) /\ ~ WalkFails(d, h, 0, pass, salt)
  <2>1. seen \subseteq Jar /\ Walk(d, h, 0, pass, salt) \subseteq Jar
    BY WalkFacts
  <2>2. ASSUME NEW i \in 0..(Kept(n) - 1) PROVE i \in seen
    <3>1. \A j \in 0..i : j \in Jar /\ j < Kept(n)
      BY <1>0 DEF Jar
    <3>2. \A j \in 0..i : Opens(d[Cookie(h, j)], Cookie(h, j), pass, salt)
      BY <3>1, <1>2
    <3> HIDE DEF d
    <3> QED BY <3>1, <3>2, <1>0 DEF Found, Walk, Jar
  <2>3. ASSUME NEW i \in seen PROVE i \in 0..(Kept(n) - 1)
    <3>1. i \in Jar /\ IsSealed(d[Cookie(h, i)])
      BY <2>1 DEF Found, Opens
    <3>2. ~ (i >= Kept(n))
      BY <3>1, <1>3
    <3> QED BY <3>1, <3>2, <1>0 DEF Jar
  <2>4. ASSUME NEW i \in Walk(d, h, 0, pass, salt), Locked(d[Cookie(h, i)], Cookie(h, i), pass, salt)
        PROVE  FALSE
    <3>1. i \in Jar
      BY <2>1
    <3>2. CASE i < Kept(n)
      BY <3>1, <3>2, <1>2, <2>4 DEF Locked
    <3>3. CASE i >= Kept(n)
      BY <3>1, <3>3, <1>3, <2>4 DEF Locked
    <3> QED BY <3>1, <3>2, <3>3, <1>0 DEF Jar
  <2> HIDE DEF d
  <2> QED BY <2>2, <2>3, <2>4 DEF WalkFails
<1>5. /\ Opens(d[ClientKeys(h)], ClientKeys(h), pass, salt) /\ IsSealed(d[ClientKeys(h)])
      /\ Opens(d[ClientMeta(h)], ClientMeta(h), pass, salt)
      /\ d[ClientKeys(h)].put = now /\ d[ClientMeta(h)].put = now
      /\ d[ClientKeys(h)].pass = pass
  <2>1. ClientKeys(h) \in Written(h, n) /\ ClientMeta(h) \in Written(h, n)
    BY DEF Written
  <2> HIDE DEF d, now
  <2> QED BY <2>1, <1>1, KeyFacts
<1>6. [i \in seen |-> d[Cookie(h, i)].put] = [i \in 0..(Kept(n) - 1) |-> now]
  <2>1. \A i \in 0..(Kept(n) - 1) : d[Cookie(h, i)].put = now
    BY <1>0, <1>2 DEF Jar
  <2> HIDE DEF d, now, seen
  <2> QED BY <2>1, <1>4
<1>7. seen = {} <=> Kept(n) = 0
  <2>1. Kept(n) # 0 => 0 \in 0..(Kept(n) - 1)
    BY <1>0
  <2>2. Kept(n) = 0 => 0..(Kept(n) - 1) = {}
    OBVIOUS
  <2> HIDE DEF seen
  <2> QED BY <2>1, <2>2, <1>4
<1> HIDE DEF d, now
<1>8. At(d, h, salt) = Session(d, h, pass, salt)
  BY <1>5 DEF At
<1>9. Session(d, h, pass, salt)
      = IF Kept(n) = 0 THEN Nothing
        ELSE [keys |-> now, meta |-> now, cookies |-> [i \in 0..(Kept(n) - 1) |-> now]]
  BY <1>4, <1>5, <1>6, <1>7 DEF Session
<1> QED BY <1>8, <1>9 DEF Abstract!Whole, d, now

\* A process that stops goes back to what the file holds.
LEMMA DropMaps ==
    ASSUME Inv, UNCHANGED <<salt, file, puts>>, proc' = "down"
    PROVE  Abstract!Lose
<1>1. OnDisk' = OnDisk
  BY DEF OnDisk
<1> QED BY <1>1, Views DEF Abstract!Lose

LEMMA StepMaps ==
    ASSUME Inv, Inv', [Next]_vars
    PROVE  [Abstract!Next]_<<Held, Saved, puts>>
<1> DEFINE Stutters == UNCHANGED <<Held, Saved, puts>>
<1>1. ASSUME NEW p \in Passphrases, CreateSalt(p) PROVE Stutters
  <2>1. file = Nothing /\ file' = Nothing /\ proc' = "salting" /\ proc = "down" /\ puts' = puts
    BY <1>1 DEF CreateSalt, Inv, Salted
  <2>2. OnDisk = Empty /\ OnDisk' = Empty
    BY <2>1 DEF OnDisk
  <2> QED BY <2>1, <2>2, Views, NoneInEmpty DEF Up
<1>2. ASSUME NEW p \in Passphrases, Open(p) PROVE Stutters
  <2>1. /\ OnDisk' = OnDisk /\ db' = OnDisk /\ salt' = salt /\ puts' = puts
        /\ proc = "down" /\ proc' = "ready"
    BY <1>2 DEF Open, Load, OnDisk
  <2> QED BY <2>1, Views DEF Up
<1>3. ASSUME NEW p \in Passphrases, OpenFails(p) PROVE Stutters
  <2>1. /\ OnDisk' = OnDisk /\ salt' = salt /\ puts' = puts /\ proc = "down" /\ proc' = "down"
    BY <1>3 DEF OpenFails, OnDisk
  <2> QED BY <2>1, Views DEF Up
<1>4. ASSUME NEW s \in Salts, WriteSalt(s) PROVE Stutters
  <2>1. file = Nothing /\ file' = Nothing /\ puts' = puts /\ proc = "salting" /\ proc' = "ready"
    BY <1>4 DEF WriteSalt, Load, Inv, Salted
  <2>2. OnDisk = Empty /\ OnDisk' = Empty /\ db' = Empty
    BY <1>4, <2>1 DEF OnDisk, WriteSalt, Load
  <2> QED BY <2>1, <2>2, Views, NoneInEmpty DEF Up
<1>5. ASSUME NEW h \in Servers, Resume(h) PROVE Stutters
  <2>1. /\ OnDisk' = OnDisk /\ db' = db /\ salt' = salt /\ puts' = puts
        /\ proc = "ready" /\ proc' = "ready"
    BY <1>5 DEF Resume, OnDisk
  <2> QED BY <2>1, Views DEF Up
<1>6. ASSUME NEW h \in Servers, PutDrift(h) PROVE Abstract!PutOther
  <2>1. /\ OnDisk' = OnDisk /\ salt' = salt /\ puts' = puts + 1
        /\ proc = "ready" /\ proc' = "ready"
        /\ db' = [db EXCEPT ![Drift(h)] = Seal(Drift(h), puts + 1)]
    BY <1>6 DEF PutDrift, OnDisk
  <2>2. Foreign(Drift(h))
    BY CookieFacts DEF Foreign, Drift, ClientKeys, ClientMeta
  <2> db \in Logs
    BY DEF Inv, TypeOK
  <2>3. ASSUME NEW g \in Servers PROVE At(db', g, salt) = At(db, g, salt)
    BY <2>1, <2>2, OtherRegister
  <2> QED BY <2>1, <2>3, Views DEF Up, Abstract!PutOther
<1>7. ASSUME NEW h \in Servers, NEW n \in 0..(MaxCookies + 1), PutSession(h, n)
      PROVE  Abstract!Fail \/ \E k \in 0..MaxCookies : Abstract!Put(h, k)
  <2>0. /\ OnDisk' = OnDisk /\ salt' = salt /\ puts' = puts + 1 /\ proc = "ready"
        /\ TypeOK /\ salt \in Salts /\ puts < MaxPuts /\ NoHoleIn(db) /\ n \in Nat
    BY <1>7 DEF PutSession, OnDisk, Inv, Salted, Up, JarsHaveNoHole
  <2>1. CASE WalkFails(db, h, Kept(n), pass, salt)
    <3>1. proc' = "down"
      BY <1>7, <2>1 DEF PutSession, Kept
    <3> QED BY <2>0, <3>1, Views DEF Abstract!Fail
  <2>2. CASE ~ WalkFails(db, h, Kept(n), pass, salt)
    <3>1. proc' = "ready" /\ db' = After(h, n)
      BY <1>7, <2>2 DEF PutSession, Kept, Written, After
    <3>2. At(db', h, salt)
          = IF Kept(n) = 0 THEN Nothing ELSE Abstract!Whole(puts + 1, Kept(n))
      BY <2>0, <2>2, <3>1, PutIsWhole
    <3>3. ASSUME NEW g \in Servers, g # h PROVE At(db', g, salt) = At(db, g, salt)
      BY <2>0, <3>1, <3>3, PutIsLocal, SessionFrame
    <3>4. Kept(n) \in 0..MaxCookies
      BY DEF Kept
    <3>5. Held = [g \in Servers |-> At(db, g, salt)] /\ Held' = [g \in Servers |-> At(db', g, salt)]
          /\ Saved' = Saved
      BY <2>0, <3>1, Views DEF Up
    <3>6. Held' = [Held EXCEPT ![h] = IF Kept(n) = 0 THEN Nothing
                                      ELSE Abstract!Whole(puts + 1, Kept(n))]
      BY <3>2, <3>3, <3>5
    <3> QED BY <2>0, <3>4, <3>5, <3>6 DEF Abstract!Put
  <2> QED BY <2>1, <2>2
<1>8. ASSUME StartServer PROVE Abstract!Lose \/ Stutters \/ Abstract!PutOther
  <2>0. OnDisk' = OnDisk /\ salt' = salt /\ proc = "ready"
    BY <1>8 DEF StartServer, OnDisk
  <2>1. CASE RingFails
    <3>1. proc' = "down" /\ puts' = puts
      BY <1>8, <2>1 DEF StartServer
    <3> QED BY <2>0, <3>1, Views DEF Abstract!Lose
  <2>2. CASE ~ RingFails /\ Ring # {}
    <3>1. proc' = proc /\ puts' = puts /\ db' = db
      BY <1>8, <2>2 DEF StartServer
    <3> QED BY <2>0, <3>1, Views
  <2>3. CASE ~ RingFails /\ Ring = {}
    <3>1. /\ proc' = "flushing" /\ puts' = puts + 1
          /\ db' = [db EXCEPT ![Master(0)] = Seal(Master(0), puts + 1)]
      BY <1>8, <2>3 DEF StartServer
    <3>2. Foreign(Master(0))
      BY CookieFacts DEF Foreign, Master, ClientKeys, ClientMeta
    <3> db \in Logs
      BY DEF Inv, TypeOK
    <3>3. ASSUME NEW g \in Servers PROVE At(db', g, salt) = At(db, g, salt)
      BY <3>1, <3>2, OtherRegister
    <3> QED BY <2>0, <3>1, <3>3, Views DEF Up, Abstract!PutOther
  <2> QED BY <2>1, <2>2, <2>3
<1>9. ASSUME BeginFlush \/ TruncateTmp \/ FillTmp PROVE Stutters
  <2>1. /\ OnDisk' = OnDisk /\ db' = db /\ salt' = salt /\ puts' = puts /\ Up
        /\ proc' \in {"flushing", "writing", "renaming"}
    BY <1>9 DEF BeginFlush, TruncateTmp, FillTmp, OnDisk, Up
  <2> QED BY <2>1, Views DEF Up
<1>10. ASSUME Rename PROVE Abstract!Save
  <2>1. OnDisk' = db /\ db' = db /\ salt' = salt /\ puts' = puts /\ Up /\ proc' = "ready"
    BY <1>10, RenameFacts DEF Rename
  <2> QED BY <2>1, Views DEF Up, Abstract!Save
<1>11. ASSUME Stop PROVE Abstract!Lose
  BY <1>11, DropMaps DEF Stop, Drop
<1>12. ASSUME UNCHANGED vars PROVE Stutters
  <2>1. OnDisk' = OnDisk /\ db' = db /\ salt' = salt /\ puts' = puts /\ proc' = proc
    BY <1>12 DEF vars, OnDisk
  <2> QED BY <2>1, Views DEF Up
<1> HIDE DEF Stutters
<1>13. CASE Next
  <2>1. \/ Stutters \/ Abstract!Lose \/ Abstract!PutOther \/ Abstract!Fail \/ Abstract!Save
        \/ \E h \in Servers, k \in 0..MaxCookies : Abstract!Put(h, k)
    BY <1>1, <1>2, <1>3, <1>4, <1>5, <1>6, <1>7, <1>8, <1>9, <1>10, <1>11, <1>13 DEF Next
  <2> QED BY <2>1 DEF Abstract!Next, Stutters
<1> QED BY <1>12, <1>13 DEF Stutters

\* Whatever is put, saved, refused or killed, the keys, the endpoint and the cookies that
\* a caller can resume for a server are those of one put, whole, and a save makes exactly
\* what is held durable (put_client_session, get_client_session, Store::open, flush).
THEOREM StoreIsASessionStore == Spec => ImplementsSessionStore
<1>1. Init => Abstract!Init
  <2> SUFFICES ASSUME Init PROVE Abstract!Init
    OBVIOUS
  <2>1. OnDisk = Empty /\ proc = "down" /\ puts = 0
    BY DEF Init, OnDisk
  <2> QED BY <2>1, Views, NoneInEmpty DEF Abstract!Init
<1>2. Inv /\ Inv' /\ [Next]_vars => [Abstract!Next]_<<Held, Saved, puts>>
  BY StepMaps
<1> QED BY <1>1, <1>2, AlwaysInv, PTL DEF Spec, ImplementsSessionStore, Abstract!Spec
=============================================================================
