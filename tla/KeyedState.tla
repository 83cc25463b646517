------------------------------ MODULE KeyedState ------------------------------
(***************************************************************************)
(* The `store` entity (store.rs) behind its vtable (abi.rs StoreVTable):   *)
(* gateway clients read, write, compare-and-swap, scan and watch keys of a *)
(* store plugin.  Everything crosses the boundary as JSON: roles by their  *)
(* label, values, pages and events by their *Wire mirrors, whose TTL is a  *)
(* whole number of milliseconds in a u64.                                  *)
(*                                                                         *)
(* What the plugin does with a call once it has decoded it is the contract *)
(* of the trait (a map per role, with expiry); the conversions, the        *)
(* defaults and the composition of the two are this crate's code.          *)
(***************************************************************************)
EXTENDS Integers, Sequences, FiniteSets, FiniteSetsExt

CONSTANTS
  None,      \* Option::None
  Names,     \* role names the operator binds
  NKeys,     \* keys are 1..NKeys, in the order a scan visits them
  Clients,
  Shapes,    \* the (ttl, metadata) pairs a client writes
  PageSize,  \* items the plugin puts on one page
  MaxWrites  \* bound: changes of the store

ASSUME PagesHoldSome == PageSize \in Nat \ {0}
ASSUME StoreIsBounded == NKeys \in Nat /\ MaxWrites \in Nat
ASSUME TtlsAreDurations == \A s \in Shapes : s[1] \in Nat \cup {None}

Keys == 1..NKeys
TICKS_PER_MS == 2    \* a Duration is counted in half milliseconds
U64_MAX == 3         \* the largest number of milliseconds, scaled down

----------------------------------------------------------------------------
(* Roles *)

Canonical == {"session", "task", "pipeline", "subscription", "replay"}

parse(s) == IF s \in Canonical THEN [variant |-> s] ELSE [variant |-> "custom", name |-> s]

\* Faulty variant: an operator's role is written by its variant.
to_string_by_variant(role) == role.variant

\* Display, and what serde writes: a custom role looks like any other.
to_string(role) == IF role.variant = "custom" THEN role.name ELSE role.variant

\* serde tries the named variants before the untagged one.
role_from_wire(label) == parse(label)

\* The role the plugin sees for a configured name.
At(name) == role_from_wire(to_string(parse(name)))
Roles == {At(name) : name \in Names}

----------------------------------------------------------------------------
(* Values, pages, events on the wire.  An absent field is one serde skips. *)

StoreValue(bytes, ttl, metadata) == [bytes |-> bytes, ttl |-> ttl, metadata |-> metadata]

millis(d) == Min({d \div TICKS_PER_MS, U64_MAX})

value_to_wire(v) ==
  [f \in {"bytes"} \cup (IF v.ttl = None THEN {} ELSE {"ttl_ms"})
                   \cup (IF v.metadata = {} THEN {} ELSE {"metadata"}) |->
     CASE f = "bytes" -> v.bytes [] f = "ttl_ms" -> millis(v.ttl) [] f = "metadata" -> v.metadata]

value_from_wire(w) ==
  StoreValue(w.bytes, IF "ttl_ms" \in DOMAIN w THEN w.ttl_ms * TICKS_PER_MS ELSE None,
             IF "metadata" \in DOMAIN w THEN w.metadata ELSE {})

\* Option<StoreValue> across the boundary: null, or the value's mirror.
Cross(v) == IF v = None THEN None ELSE value_from_wire(value_to_wire(v))

\* StorePage -> StorePageWire -> StorePage.
page_crossed(page) ==
  [items |-> {<<i[1], Cross(i[2])>> : i \in page.items}, next_cursor |-> page.next_cursor]

Put(v) == [kind |-> "put", value |-> v]
Delete == [kind |-> "delete"]

\* StoreEvent -> StoreEventWire -> StoreEvent, tagged by kind.
event_crossed(e, old) == IF e.kind = "put" THEN Put(Cross(e.value)) ELSE Delete

----------------------------------------------------------------------------
(* What the plugin and its clients hold *)

WrittenValues ==
  [bytes : 1..MaxWrites, ttl : {s[1] : s \in Shapes}, metadata : {s[2] : s \in Shapes}]

StoredValues ==
  [bytes : 1..MaxWrites, ttl : {None} \cup {ms * TICKS_PER_MS : ms \in 0..U64_MAX},
   metadata : {s[2] : s \in Shapes}]

Events == [kind : {"put"}, value : StoredValues] \cup {Delete}

Sights ==
  [name : Names, key : Keys, value : {None} \cup WrittenValues \cup StoredValues, at : 0..MaxWrites]
Scans ==
  [name : Names, cursor : {None} \cup 0..NKeys, got : Seq(SUBSET Keys), steady : SUBSET Keys]
Watches ==
  [name : Names, key : Keys, pending : Seq(Events), mirror : {None} \cup StoredValues]

ASSUME NoneIsApart ==
  None \notin Nat \cup WrittenValues \cup StoredValues \cup Sights \cup Scans \cup Watches

----------------------------------------------------------------------------

VARIABLES
  db,      \* plugin: role -> key -> value it decoded, or None
  last,    \* name -> key -> what was last written there, as the writer had it
  stamp,   \* changes of the store so far; also the bytes of the next value
  changed, \* name -> key -> stamp of its last change
  seen,    \* client -> the value it last read or wrote: [name, key, value, at]
  scan,    \* a paged list: [name, cursor, got, steady], or None
  watch    \* a watch of one key: [name, key, pending, mirror], or None

storeVars == <<db, last, stamp, changed, seen, scan, watch>>

StoreInit ==
  /\ db = [r \in Roles |-> [k \in Keys |-> None]]
  /\ last = [n \in Names |-> [k \in Keys |-> None]]
  /\ stamp = 0
  /\ changed = [n \in Names |-> [k \in Keys |-> 0]]
  /\ seen = [c \in Clients |-> None]
  /\ scan = None
  /\ watch = None

Get(name, key) == Cross(db[At(name)][key])

\* What every change of a key does: the plugin's map, and the event it pushes
\* to a watch of that key.  `v` is the value as the plugin decoded it.
Change(name, key, v, written) ==
  /\ stamp < MaxWrites
  /\ stamp' = stamp + 1
  /\ db' = [db EXCEPT ![At(name)][key] = v]
  /\ last' = [last EXCEPT ![name][key] = written]
  /\ changed' = [changed EXCEPT ![name][key] = stamp + 1]
  /\ scan' = IF scan = None \/ At(name) # At(scan.name) THEN scan
             ELSE [scan EXCEPT !.steady = IF v = None THEN @ \ {key} ELSE @]
  /\ watch' = IF watch = None \/ <<At(name), key>> # <<At(watch.name), watch.key>> THEN watch
              ELSE [watch EXCEPT !.pending =
                      Append(@, event_crossed(IF v = None THEN Delete ELSE Put(v),
                                              db[At(name)][key]))]

Remember(c, name, key, v) ==
  seen' = [seen EXCEPT ![c] = [name |-> name, key |-> key, value |-> v, at |-> stamp']]

----------------------------------------------------------------------------

get(c, name, key) ==
  /\ UNCHANGED <<db, last, stamp, changed, scan, watch>>
  /\ Remember(c, name, key, Get(name, key))

put(c, name, key) ==
  \E s \in Shapes :
    LET v == StoreValue(stamp + 1, s[1], s[2]) IN
      /\ Change(name, key, Cross(v), v)
      /\ Remember(c, name, key, v)

\* The default of the trait: `put`, and a receipt that says 0 whatever was
\* appended before.
append(c, name, key) == put(c, name, key)

\* Idempotent: removing a missing key is Ok(()) and no change.
delete(c, name, key) ==
  /\ db[At(name)][key] # None
  /\ Change(name, key, None, None)
  /\ Remember(c, name, key, None)

\* Faulty variant: the stored value is compared with one that has not crossed.
Matches_uncrossed(current, expected) == current = expected

\* Some(v): current is exactly v.  None: there is no current value.
Matches(current, expected) == current = Cross(expected)

\* A client swaps what it last read or wrote for a new value.  Ok(false) on a
\* miss: it must read again.
compare_and_swap(c) ==
  /\ seen[c] # None
  /\ LET name == seen[c].name
         key == seen[c].key
     IN IF Matches(db[At(name)][key], seen[c].value)
        THEN \E s \in Shapes :
               LET v == StoreValue(stamp + 1, s[1], s[2]) IN
                 /\ Change(name, key, Cross(v), v)
                 /\ Remember(c, name, key, v)
        ELSE /\ seen' = [seen EXCEPT ![c] = None]
             /\ UNCHANGED <<db, last, stamp, changed, scan, watch>>

\* The plugin honours the TTL of a value.
Expire(name, key) ==
  /\ db[At(name)][key] # None
  /\ db[At(name)][key].ttl # None
  /\ Change(name, key, None, None)
  /\ UNCHANGED seen

----------------------------------------------------------------------------
(* Scans and watches.  Neither changes anything the other or a client sees,  *)
(* so one of them at a time is followed.                                     *)

Present(name) == {k \in Keys : db[At(name)][k] # None}

StartScan(name) ==
  /\ scan = None
  /\ watch = None
  /\ scan' = [name |-> name, cursor |-> 0, got |-> <<>>, steady |-> Present(name)]
  /\ UNCHANGED <<db, last, stamp, changed, seen, watch>>

\* The page after a cursor: the next PageSize keys present, and the last of
\* them as cursor when others follow.
Page(name, cursor) ==
  LET after == {k \in Present(name) : k > cursor}
      on == {k \in after : Cardinality({j \in after : j < k}) < PageSize}
  IN [items |-> {<<k, db[At(name)][k]>> : k \in on},
      next_cursor |-> IF on = after THEN None ELSE Max(on)]

list ==
  /\ scan # None
  /\ scan.cursor # None
  /\ LET page == page_crossed(Page(scan.name, scan.cursor))
     IN scan' = [scan EXCEPT !.cursor = page.next_cursor,
                             !.got = Append(@, {i[1] : i \in page.items})]
  /\ UNCHANGED <<db, last, stamp, changed, seen, watch>>

EndScan ==
  /\ scan # None
  /\ scan.cursor = None
  /\ scan' = None
  /\ UNCHANGED <<db, last, stamp, changed, seen, watch>>

\* A watcher reads the key, then follows it.  A second watch would be another
\* stream of the same events.
StartWatch(name, key) ==
  /\ watch = None
  /\ scan = None
  /\ watch' = [name |-> name, key |-> key, pending |-> <<>>, mirror |-> Get(name, key)]
  /\ UNCHANGED <<db, last, stamp, changed, seen, scan>>

Apply(e) == IF e.kind = "put" THEN e.value ELSE None

Deliver ==
  /\ watch # None
  /\ watch.pending # <<>>
  /\ watch' = [watch EXCEPT !.mirror = Apply(Head(watch.pending)), !.pending = Tail(@)]
  /\ UNCHANGED <<db, last, stamp, changed, seen, scan>>

\* cancel_watch, or the backend's connection closing: what is pending is lost.
cancel_watch ==
  /\ watch # None
  /\ watch' = None
  /\ UNCHANGED <<db, last, stamp, changed, seen, scan>>

----------------------------------------------------------------------------

StoreNext ==
  \/ \E c \in Clients :
       \/ \E n \in Names, k \in Keys :
            get(c, n, k) \/ put(c, n, k) \/ append(c, n, k) \/ delete(c, n, k)
       \/ compare_and_swap(c)
  \/ \E n \in Names, k \in Keys : Expire(n, k) \/ StartWatch(n, k)
  \/ \E n \in Names : StartScan(n)
  \/ list \/ EndScan
  \/ Deliver \/ cancel_watch

StoreSpec == StoreInit /\ [][StoreNext]_storeVars

----------------------------------------------------------------------------
(* Properties *)

\* Every value a plugin holds has a TTL a u64 of milliseconds can say, and a
\* client holds values it wrote or read.
StoreTypeOK ==
  /\ db \in [Roles -> [Keys -> {None} \cup StoredValues]]
  /\ last \in [Names -> [Keys -> {None} \cup WrittenValues]]
  /\ stamp \in 0..MaxWrites /\ changed \in [Names -> [Keys -> 0..stamp]]
  /\ seen \in [Clients -> {None} \cup Sights]
  /\ scan \in {None} \cup Scans /\ watch \in {None} \cup Watches

\* A TTL read back is the one written, in whole milliseconds and never longer.
SameTtl(got, written) ==
  \/ got = None /\ written = None
  \/ /\ got # None /\ written # None
     /\ got <= written
     /\ written < got + TICKS_PER_MS \/ got = U64_MAX * TICKS_PER_MS

\* The same key in two roles is two values: what a read of a role returns is
\* what was last written under that very role, bytes and metadata intact and
\* the TTL cut to the millisecond.
ReadsBackLastWrite ==
  \A n \in Names, k \in Keys :
    LET got == Get(n, k)
        written == last[n][k]
    IN /\ got = None <=> written = None
       /\ got # None => /\ got.bytes = written.bytes
                        /\ got.metadata = written.metadata
                        /\ SameTtl(got.ttl, written.ttl)

\* A swap that succeeds overwrites nothing its client has not seen: nobody
\* wrote the key between the client's read (or write) and its swap, or what
\* was written then is gone again and the client had found nothing.
NoLostUpdate ==
  [][\A c \in Clients :
       compare_and_swap(c) /\ seen'[c] # None =>
         \/ changed[seen[c].name][seen[c].key] <= seen[c].at
         \/ seen[c].value = None /\ last[seen[c].name][seen[c].key] = None]_storeVars

\* A swap fails only because of a change: a client whose value is still there
\* is never told of a mismatch, although what it compares with has crossed
\* the boundary more often than the stored value.
NoSpuriousMismatch ==
  [][\A c \in Clients :
       compare_and_swap(c) /\ seen'[c] = None =>
         changed[seen[c].name][seen[c].key] > seen[c].at]_storeVars

\* A scan of a changing store returns no key twice and every key that was
\* there all the while.
ScanMissesNothing ==
  scan # None =>
    /\ \A i, j \in DOMAIN scan.got : i # j => scan.got[i] \cap scan.got[j] = {}
    /\ scan.cursor = None => scan.steady \subseteq UNION {scan.got[i] : i \in DOMAIN scan.got}

\* A watcher that applies its events in order ends at the value a read returns.
WatcherCatchesUp ==
  watch # None =>
    LET n == Len(watch.pending)
    IN Get(watch.name, watch.key) = IF n = 0 THEN watch.mirror ELSE Apply(watch.pending[n])

\* A swap succeeds exactly when nothing has happened to what its client saw,
\* whatever the crossings of the boundary did to the values compared.
SwapsAreExact == NoLostUpdate /\ NoSpuriousMismatch

\* Reads, scans and watches across the vtable show the store as it is.
ReadersSeeTheStore == ReadsBackLastWrite /\ ScanMissesNothing /\ WatcherCatchesUp

=============================================================================
