-------------------------------- MODULE Store --------------------------------
(***************************************************************************)
(* The durable store (rusty_time-daemon, store.rs) as the commands use it:  *)
(* open a path, read and put entries in memory, flush, drop.  Each entry is *)
(* a register of its own; nothing reaches the disk before a flush, which    *)
(* writes the temporary file and renames it.  The process may be killed     *)
(* between any two steps, in the middle of a write too.                     *)
(*                                                                          *)
(* Abstractions.  A payload is the number of the put that wrote it.  A      *)
(* sealed value opens under the passphrase and salt it was sealed with and  *)
(* under its own key only, so a value records the three of them.  One       *)
(* process uses a path at a time: the code takes no lock.                   *)
(***************************************************************************)
EXTENDS Integers, FiniteSets

CONSTANTS
    Servers,     \* key establishment servers
    Passphrases, \* passphrases operators start the program with
    Salts,       \* random salts
    MaxCookies,  \* MAX_COOKIES_PER_SERVER
    Slots,       \* MASTER_KEY_SLOTS
    Nothing,     \* no file, no value, no session
    Torn,        \* a file that was not written to its end
    Tombstone,   \* the empty value of an entry that was retired
    MaxPuts      \* bound on the number of puts, for model checking

ASSUME StoreAssumption ==
    /\ MaxCookies \in Nat \ {0} /\ Slots \in Nat \ {0} /\ MaxPuts \in Nat
    /\ Nothing \notin Salts /\ Torn \notin Salts /\ Nothing # Torn

VARIABLES
    salt,    \* the salt file: Nothing, Torn or a salt
    tmp,     \* the temporary file: Nothing, Torn or a log of entries
    file,    \* the file at the path
    proc,    \* what the process that has the path open is doing
    pass,    \* its passphrase
    db,      \* its registers
    fields,  \* the keys it has declared
    puts     \* number of puts so far

vars == <<salt, tmp, file, proc, pass, db, fields, puts>>

-----------------------------------------------------------------------------
(* Keys and values.                                                        *)

Jar       == 0..(MaxCookies - 1)
\* compound_key: the kind, whose it is, and an index
Cookie(h, i)  == <<"cookie", h, i>>
ClientKeys(h) == <<"client_keys", h, 0>>
ClientMeta(h) == <<"client_meta", h, 0>>
Drift(h)      == <<"drift", h, 0>>
Master(s)     == <<"master", "self", s>>
MasterKeys    == {Master(s) : s \in 0..(Slots - 1)}
Keys == MasterKeys \cup
        UNION {{ClientKeys(h), ClientMeta(h), Drift(h)} \cup {Cookie(h, i) : i \in Jar}
               : h \in Servers}

Sealed    == [key : Keys, pass : Passphrases, salt : Salts, put : 1..MaxPuts]
Values    == Sealed \cup {Tombstone, Nothing}
Logs      == [Keys -> Values]
ASSUME MarkerAssumption ==
    /\ Nothing # Tombstone /\ Nothing \notin Sealed /\ Tombstone \notin Sealed
    /\ Nothing \notin Logs /\ Torn \notin Logs
Empty     == [k \in Keys |-> Nothing]

Seal(k, n)    == [key |-> k, pass |-> pass, salt |-> salt, put |-> n]
IsSealed(v)   == v \notin {Tombstone, Nothing}
\* open_value: another passphrase, salt or key fails authentication.
Opens(v, k, p, s)  == IsSealed(v) /\ v.key = k /\ v.pass = p /\ v.salt = s
Locked(v, k, p, s) == IsSealed(v) /\ ~ Opens(v, k, p, s)

\* The registers a walk over the cookies of h reads: from the n-th on, up to the first
\* that was never written, is retired or does not open.
Walk(d, h, n, p, s) ==
    {i \in n..(MaxCookies - 1) :
        \A j \in n..(i - 1) : Opens(d[Cookie(h, j)], Cookie(h, j), p, s)}
Found(d, h, n, p, s) ==
    {i \in Walk(d, h, n, p, s) : Opens(d[Cookie(h, i)], Cookie(h, i), p, s)}
\* It ends in an error.
WalkFails(d, h, n, p, s) ==
    \E i \in Walk(d, h, n, p, s) : Locked(d[Cookie(h, i)], Cookie(h, i), p, s)

\* get_client_session: the keys, the endpoint and one cookie at least, or nothing.
Session(d, h, p, s) ==
    LET jar == Found(d, h, 0, p, s)
    IN  IF /\ Opens(d[ClientKeys(h)], ClientKeys(h), p, s)
           /\ Opens(d[ClientMeta(h)], ClientMeta(h), p, s)
           /\ jar # {} /\ ~ WalkFails(d, h, 0, p, s)
        THEN [keys    |-> d[ClientKeys(h)].put,
              meta    |-> d[ClientMeta(h)].put,
              cookies |-> [i \in jar |-> d[Cookie(h, i)].put]]
        ELSE Nothing

-----------------------------------------------------------------------------
Init ==
    /\ salt = Nothing /\ tmp = Nothing /\ file = Nothing
    /\ proc = "down" /\ pass \in Passphrases
    /\ db = Empty /\ fields = {} /\ puts = 0

\* The store is dropped: a command ends, or an error is returned from it.
Drop ==
    /\ proc' = "down" /\ db' = Empty /\ fields' = {}
    /\ UNCHANGED <<salt, tmp, file, pass, puts>>

CreateSaltAlways(p) ==   \* mutant: a start makes a new salt
    /\ proc = "down"
    /\ proc' = "salting" /\ pass' = p /\ salt' = Torn
    /\ UNCHANGED <<tmp, file, db, fields, puts>>
\* Store::open on a path that has no salt file: one is created, empty at first.
CreateSalt(p) ==
    /\ proc = "down" /\ salt = Nothing
    /\ proc' = "salting" /\ pass' = p /\ salt' = Torn
    /\ UNCHANGED <<tmp, file, db, fields, puts>>

LoadUndeclared(log) ==   \* mutant: the keys are declared by whoever uses them
    proc' = "ready" /\ db' = log /\ fields' = {}
\* load_from_disk replays the log, and declares each key of it.
Load(log) ==
    /\ proc' = "ready"
    /\ db' = log
    /\ fields' = {k \in Keys : log[k] # Nothing}

\* the log at the path, empty when there is none
OnDisk == IF file \in {Nothing, Torn} THEN Empty ELSE file

WriteSalt(s) ==
    /\ proc = "salting" /\ file # Torn
    /\ salt' = s /\ Load(OnDisk)
    /\ UNCHANGED <<tmp, file, pass, puts>>

\* A salt of the wrong length, or a file that ends in the middle of a record, is an error
\* of every open: a kill while the salt was written leaves a path that nobody can use.
OpenFails(p) ==
    /\ proc = "down" /\ (salt = Torn \/ file = Torn)
    /\ pass' = p
    /\ UNCHANGED <<salt, tmp, file, proc, db, fields, puts>>

\* Store::open on a path that has a salt.
Open(p) ==
    /\ proc = "down" /\ salt \in Salts /\ file # Torn
    /\ pass' = p /\ Load(OnDisk)
    /\ UNCHANGED <<salt, tmp, file, puts>>

\* get_client_session, get_drift: reading a register declares its key.
Resume(h) ==
    /\ proc = "ready"
    /\ LET keysOpen == Opens(db[ClientKeys(h)], ClientKeys(h), pass, salt)
           metaOpen == Opens(db[ClientMeta(h)], ClientMeta(h), pass, salt)
           read == {ClientKeys(h)}
              \cup (IF keysOpen THEN {ClientMeta(h)} ELSE {})
              \cup (IF keysOpen /\ metaOpen THEN {Cookie(h, i) : i \in Walk(db, h, 0, pass, salt)} ELSE {})
              \cup (IF Session(db, h, pass, salt) # Nothing THEN {Drift(h)} ELSE {})
       IN  fields' = fields \cup read
    /\ UNCHANGED <<salt, tmp, file, proc, pass, db, puts>>

\* put_drift
PutDrift(h) ==
    /\ proc = "ready" /\ puts < MaxPuts
    /\ puts' = puts + 1
    /\ db' = [db EXCEPT ![Drift(h)] = Seal(Drift(h), puts + 1)]
    /\ fields' = fields \cup {Drift(h)}
    /\ UNCHANGED <<salt, tmp, file, proc, pass>>

RetiresOne(d, h, n)  == {Cookie(h, i) : i \in {n} \cap Jar}   \* mutant: without the loop
RetiresNone(d, h, n) == {}                                  \* mutant
\* put_cookies retires the cookies of a longer batch before: from n on, up to the first
\* that is gone already.
Retired(d, h, n) == {Cookie(h, i) : i \in Found(d, h, n, pass, salt)}

\* put_client_session with the n cookies of the session that are unspent.
PutSession(h, n) ==
    /\ proc = "ready" /\ puts < MaxPuts
    /\ puts' = puts + 1
    /\ LET kept == IF n < MaxCookies THEN n ELSE MaxCookies
           written == {ClientKeys(h), ClientMeta(h)} \cup {Cookie(h, i) : i \in 0..(kept - 1)}
       IN  IF WalkFails(db, h, kept, pass, salt)
           THEN \* persist_state returns the error: the store is dropped unflushed
                proc' = "down" /\ db' = Empty /\ fields' = {}
           ELSE /\ proc' = "ready"
                /\ db' = [k \in Keys |->
                            IF k \in written THEN Seal(k, puts + 1)
                            ELSE IF k \in Retired(db, h, kept) THEN Tombstone ELSE db[k]]
                /\ fields' = fields \cup written
                                \cup {Cookie(h, i) : i \in Walk(db, h, kept, pass, salt)}
    /\ UNCHANGED <<salt, tmp, file, pass>>

RingIsEmpty == FALSE   \* mutant: a key that does not open is a key that is not there
\* all_master_keys: what it finds, unless a slot does not open.
RingFails == \E k \in MasterKeys : Locked(db[k], k, pass, salt)
Ring      == {k \in MasterKeys : Opens(db[k], k, pass, salt)}

\* load_or_create_ring: an error ends the server, a ring that is held is restored, and
\* an empty one is minted in slot 0 and flushed.
StartServer ==
    /\ proc = "ready" /\ puts < MaxPuts
    /\ IF RingFails
       THEN proc' = "down" /\ db' = Empty /\ fields' = {} /\ UNCHANGED puts
       ELSE IF Ring # {}
       THEN fields' = fields \cup MasterKeys /\ UNCHANGED <<proc, db, puts>>
       ELSE /\ puts' = puts + 1
            /\ db' = [db EXCEPT ![Master(0)] = Seal(Master(0), puts + 1)]
            /\ fields' = fields \cup MasterKeys
            /\ proc' = "flushing"
    /\ UNCHANGED <<salt, tmp, file, pass>>

\* flush: the declared keys that hold a value.
Plan == [k \in Keys |-> IF k \in fields THEN db[k] ELSE Nothing]

BeginFlush ==
    /\ proc = "ready"
    /\ proc' = "flushing"
    /\ UNCHANGED <<salt, tmp, file, pass, db, fields, puts>>

TruncateFile ==   \* mutant: the file is written in place
    /\ proc = "flushing"
    /\ file' = Torn /\ proc' = "writing"
    /\ UNCHANGED <<salt, tmp, pass, db, fields, puts>>
\* fs::write truncates the temporary file and fills it.
TruncateTmp ==
    /\ proc = "flushing"
    /\ tmp' = Torn /\ proc' = "writing"
    /\ UNCHANGED <<salt, file, pass, db, fields, puts>>
FillTmp ==
    /\ proc = "writing"
    /\ tmp' = Plan /\ proc' = "renaming"
    /\ UNCHANGED <<salt, file, pass, db, fields, puts>>
Rename ==
    /\ proc = "renaming"
    /\ file' = tmp /\ tmp' = Nothing /\ proc' = "ready"
    /\ UNCHANGED <<salt, pass, db, fields, puts>>

\* A command ends (the disk is full, the write is refused: the same), or the process is
\* killed where it stands.
Stop == proc # "down" /\ Drop

Next ==
    \/ \E p \in Passphrases : CreateSalt(p) \/ Open(p) \/ OpenFails(p)
    \/ \E s \in Salts : WriteSalt(s)
    \/ \E h \in Servers : Resume(h) \/ PutDrift(h)
    \/ \E h \in Servers : \E n \in 0..(MaxCookies + 1) : PutSession(h, n)
    \/ StartServer
    \/ BeginFlush \/ TruncateTmp \/ FillTmp \/ Rename
    \/ Stop
Spec == Init /\ [][Next]_vars

-----------------------------------------------------------------------------
\* The state has the types of the code's fields (struct Store and its files).
TypeOK ==
    /\ salt \in Salts \cup {Nothing, Torn}
    /\ tmp \in Logs \cup {Nothing, Torn}
    /\ file \in Logs \cup {Nothing, Torn}
    /\ proc \in {"down", "salting", "ready", "flushing", "writing", "renaming"}
    /\ pass \in Passphrases
    /\ db \in Logs /\ fields \in SUBSET Keys /\ puts \in 0..MaxPuts

\* A process killed in the middle of a save leaves the file of the save before, or
\* none: never one that open() refuses ("a crash mid-write must not truncate the
\* store", flush).
FileIsWhole == file # Torn

\* What is on disk was sealed under the salt that is on disk, also while the salt is
\* being written: no kill in open() makes what was saved unreadable.
SaltOutlivesData ==
    \A k \in Keys : IsSealed(OnDisk[k]) => OnDisk[k].salt = salt

\* What was saved can be opened again with its passphrase, wherever the process was
\* killed: in a save or in an open.
SavedStaysReadable == FileIsWhole /\ SaltOutlivesData

\* In memory and on disk the cookies of a server come before the retired ones and these
\* before those never written: put_cookies and get_cookies both stop at the first gap,
\* and a cookie behind it would be neither spent nor retired.
NoHoleIn(d) ==
    \A h \in Servers : \A i, j \in Jar :
        i < j /\ ~ IsSealed(d[Cookie(h, i)]) => ~ IsSealed(d[Cookie(h, j)])
JarsHaveNoHole == NoHoleIn(db) /\ NoHoleIn(OnDisk)

\* A save drops no entry that the file held, whoever saves and whatever he touched:
\* flush writes the declared keys only, so loading must declare them.
NothingIsDropped ==
    [][\A k \in Keys : OnDisk[k] # Nothing => OnDisk'[k] # Nothing]_vars

\* A master key that was saved is never replaced, by a server that was started with
\* another passphrase either: the cookies minted before stay good (load_or_create_ring).
RingIsKept ==
    [][\A k \in MasterKeys : IsSealed(OnDisk[k]) => OnDisk'[k] = OnDisk[k]]_vars

\* The session that can be resumed from a log, with the passphrase it was saved with.
Resumable(d, h) ==
    IF IsSealed(d[ClientKeys(h)]) THEN Session(d, h, d[ClientKeys(h)].pass, salt) ELSE Nothing
Saved == [h \in Servers |-> Resumable(OnDisk, h)]
Held  == IF proc \in {"down", "salting"} THEN Saved ELSE [h \in Servers |-> Resumable(db, h)]

Abstract == INSTANCE SessionStore
            WITH NoSession <- Nothing, held <- Held, saved <- Saved

\* Keys, endpoint and cookies of a session are those of one put, in memory, on disk and
\* after a crash, and a save is all or nothing (put_client_session, get_client_session,
\* flush).
ImplementsSessionStore == Abstract!Spec
=============================================================================
