------------------------------ MODULE KVStore ------------------------------
(***************************************************************************)
(* chumicro_kvstore: KVStore over its three device backends, with power    *)
(* loss at every point of a save.  A payload is the encoded dict: a value  *)
(* per key, rounded the way the encoder rounds it (floats are stored as    *)
(* float32).  flash is what load() would find, tmp the littlefs side file; *)
(* a record that a power loss cut short is Torn.                           *)
(***************************************************************************)
EXTENDS Naturals, FiniteSets

CONSTANTS
  None, Blank, Torn, Partial,
  Keys, Values,
  Encoded(_),        \* the value that comes back from the encoder
  Capacity,          \* most keys an encoded payload may hold
  Backends           \* a subset of {"nvm", "littlefs", "nvs"}

ASSUME KVStoreAssumption ==
  /\ Capacity \in Nat /\ Backends \subseteq {"nvm", "littlefs", "nvs"}
  /\ None \notin Values /\ \A v \in Values : Encoded(v) \in Values /\ Encoded(Encoded(v)) = Encoded(v)

Data == [Keys -> Values \cup {None}]
Empty == [k \in Keys |-> None]

\* Mutant: values are kept as they are.
packbExact(d) == d

packb(d) == [k \in Keys |-> IF d[k] = None THEN None ELSE Encoded(d[k])]
Size(payload) == Cardinality({k \in Keys : payload[k] # None})

VARIABLES
  backend,
  data, last_payload, is_corrupt, dirty,   \* the store's fields
  flash,        \* a payload, Torn, or Blank
  tmp,          \* littlefs only: None, Partial, or a payload
  unsynced,     \* the files whose bytes have not reached the medium
  saving,       \* the payload being saved
  pc,           \* off, idle, or the step of save() that comes next
  answer        \* how the last call ended

\* History: the payload of the last save that returned, and what has happened
\* behind the store's back since it last wrote or read the record.
VARIABLES committed, unseen

ram == <<data, last_payload, is_corrupt, dirty>>
medium == <<flash, tmp, unsynced>>
vars == <<backend, ram, medium, saving, pc, answer, committed, unseen>>

Init ==
  /\ backend \in Backends
  /\ data = Empty /\ last_payload = Blank /\ is_corrupt = FALSE /\ dirty = FALSE
  /\ flash = Blank /\ tmp = None /\ unsynced = {}
  /\ saving = Empty /\ pc = "off" /\ answer = "none"
  /\ committed = Blank /\ unseen = {}

-----------------------------------------------------------------------------
(* The mapping operations.  A deleting call on a missing key raises.       *)


Mutate(d) == data' = d /\ dirty' = TRUE /\ UNCHANGED <<last_payload, is_corrupt>>

Idle ==
  /\ pc = "idle" /\ answer' = "none"
  /\ UNCHANGED <<backend, medium, saving, pc, committed>>

\* __setitem__, update
SetItem == Idle /\ UNCHANGED unseen /\ \E k \in Keys, v \in Values : Mutate([data EXCEPT ![k] = v])

\* __delitem__, pop without default
DelItem ==
  /\ Idle /\ UNCHANGED unseen
  /\ \E k \in Keys : data[k] # None /\ Mutate([data EXCEPT ![k] = None])

\* pop with a default, which marks the store dirty also when the key is absent
PopDefault == Idle /\ UNCHANGED unseen /\ \E k \in Keys : Mutate([data EXCEPT ![k] = None])

Clear == Idle /\ UNCHANGED unseen /\ Mutate(Empty)

\* A nested list or dict is changed without going through the store.
MutateInPlace ==
  /\ Idle /\ unseen' = unseen \cup {"in_place"}
  /\ \E k \in Keys, v \in Values : data[k] # None /\ data' = [data EXCEPT ![k] = v]
  /\ UNCHANGED <<last_payload, is_corrupt, dirty>>

-----------------------------------------------------------------------------
(* _persist and the backends' save()                                       *)

FirstStep == [nvm |-> "nvm_write", littlefs |-> "fs_open", nvs |-> "nvs_set"][backend]

Persist(payload) ==
  IF Size(payload) > Capacity
  THEN answer' = "full" /\ UNCHANGED <<saving, pc>>
  ELSE answer' = "none" /\ saving' = payload /\ pc' = FirstStep

Commit ==
  /\ pc = "idle"
  /\ Persist(packb(data))
  /\ UNCHANGED <<backend, ram, medium, committed, unseen>>

CommitIfChanged ==
  /\ pc = "idle"
  /\ IF ~dirty \/ packb(data) = last_payload
     THEN /\ answer' = "skipped" /\ dirty' = FALSE
          /\ UNCHANGED <<saving, pc>>
     ELSE Persist(packb(data)) /\ UNCHANGED dirty
  /\ UNCHANGED <<backend, data, last_payload, is_corrupt, medium, committed, unseen>>

\* The record is in place: save() returns and _persist notes it.
Saved ==
  /\ pc' = "idle" /\ answer' = "saved"
  /\ last_payload' = saving /\ is_corrupt' = FALSE /\ dirty' = FALSE
  /\ committed' = saving /\ unseen' = {}
  /\ UNCHANGED <<backend, data, saving>>

NvmWrite == pc = "nvm_write" /\ flash' = saving /\ Saved /\ UNCHANGED <<tmp, unsynced>>

NvsSet == /\ pc = "nvs_set" /\ pc' = "nvs_commit"
          /\ UNCHANGED <<backend, ram, medium, saving, answer, committed, unseen>>
NvsCommit == pc = "nvs_commit" /\ flash' = saving /\ Saved /\ UNCHANGED <<tmp, unsynced>>


FsOpen == /\ pc = "fs_open" /\ pc' = "fs_write"
          /\ tmp' = Partial /\ unsynced' = unsynced \cup {"tmp"}
          /\ UNCHANGED <<backend, ram, flash, saving, answer, committed, unseen>>
FsWrite == /\ pc = "fs_write" /\ pc' = "fs_sync"
           /\ tmp' = saving
           /\ UNCHANGED <<backend, ram, flash, unsynced, saving, answer, committed, unseen>>
\* The write fails (no space): the side file is removed, if that works, and
\* the error raised.
FsWriteFails == /\ pc = "fs_write" /\ pc' = "idle" /\ answer' = "oserror"
                /\ tmp' \in {None, Partial}
                /\ UNCHANGED <<backend, ram, flash, unsynced, saving, committed, unseen>>
\* Any other step of a save raises an OSError and leaves things as they are.
SaveFails == /\ pc \in {"fs_open", "fs_sync", "fs_rename", "nvs_set"}
             /\ pc' = "idle" /\ answer' = "oserror"
             /\ UNCHANGED <<backend, ram, medium, saving, committed, unseen>>


FsSync == /\ pc = "fs_sync" /\ pc' = "fs_rename"
          /\ unsynced' = {}
          /\ UNCHANGED <<backend, ram, flash, tmp, saving, answer, committed, unseen>>
FsRename == /\ pc = "fs_rename"
            /\ flash' = tmp /\ tmp' = None
            /\ unsynced' = IF "tmp" \in unsynced THEN {"flash"} ELSE {}
            /\ Saved

-----------------------------------------------------------------------------
(* load(), reload() and the constructor; power loss and bit rot            *)

\* What load() answers.  An OSError when opening the littlefs file reads as
\* an empty store, whatever caused it.
load(unreadable) == IF unreadable \/ flash = Blank THEN Blank ELSE flash

Loaded(payload) ==
  /\ data' = IF payload = Blank THEN Empty ELSE payload
  /\ last_payload' = payload /\ is_corrupt' = FALSE

\* Opening the littlefs file may fail for another reason than its absence.
OpenFails == IF backend = "littlefs" THEN BOOLEAN ELSE {FALSE}

\* reload() of a torn record raises with the fields as they were, except that
\* the store is no longer dirty.
Reload ==
  /\ pc = "idle"
  /\ dirty' = FALSE
  /\ \E unreadable \in OpenFails :
       IF load(unreadable) = Torn
       THEN /\ answer' = "corrupt" /\ unseen' = unseen \cup {"reload"}
            /\ UNCHANGED <<data, last_payload, is_corrupt>>
       ELSE /\ answer' = "loaded" /\ Loaded(load(unreadable))
            /\ unseen' = IF unreadable THEN {"unreadable"} ELSE {}
  /\ UNCHANGED <<backend, medium, saving, pc, committed>>

\* Power comes back and the program constructs its store.
Boot ==
  /\ pc = "off" /\ pc' = "idle" /\ dirty' = FALSE /\ answer' = "booted"
  /\ \E unreadable \in OpenFails :
       /\ IF load(unreadable) = Torn
          THEN data' = Empty /\ last_payload' = Blank /\ is_corrupt' = TRUE
          ELSE Loaded(load(unreadable))
       /\ unseen' = IF unreadable THEN {"unreadable"} ELSE {}
  /\ UNCHANGED <<backend, medium, saving, committed>>

\* Power loss.  A raw NVM write in progress may leave a record of neither
\* payload; bytes that had not reached the medium are gone.
Crash ==
  /\ pc # "off" /\ pc' = "off" /\ answer' = "none"
  /\ \/ UNCHANGED flash
     \/ (pc = "nvm_write" \/ "flash" \in unsynced) /\ flash' = Torn
  /\ unsynced' = {} /\ unseen' = {}
  /\ data' = Empty /\ last_payload' = Blank /\ is_corrupt' = FALSE /\ dirty' = FALSE
  /\ UNCHANGED <<backend, tmp, saving, committed>>

\* The record goes bad while the program runs.
Rot ==
  /\ backend = "nvm" /\ pc = "idle" /\ flash \notin {Blank, Torn}
  /\ flash' = Torn /\ unseen' = unseen \cup {"rot"}
  /\ UNCHANGED <<backend, ram, tmp, unsynced, saving, pc, answer, committed>>

Next ==
  \/ SetItem \/ DelItem \/ PopDefault \/ Clear \/ MutateInPlace
  \/ Commit \/ CommitIfChanged
  \/ NvmWrite \/ NvsSet \/ NvsCommit
  \/ FsOpen \/ FsWrite \/ FsWriteFails \/ SaveFails \/ FsSync \/ FsRename
  \/ Reload \/ Boot \/ Crash \/ Rot

Spec == Init /\ [][Next]_vars

-----------------------------------------------------------------------------
Payloads == [Keys -> {Encoded(v) : v \in Values} \cup {None}]

\* What is stored, and what the store remembers of it, are encoded payloads,
\* while the dict in memory holds the values as they were given.
TypeOK ==
  /\ backend \in Backends
  /\ data \in Data /\ last_payload \in Payloads \cup {Blank}
  /\ is_corrupt \in BOOLEAN /\ dirty \in BOOLEAN
  /\ flash \in Payloads \cup {Blank, Torn} /\ tmp \in Payloads \cup {None, Partial}
  /\ unsynced \subseteq {"tmp", "flash"}
  /\ saving \in Payloads /\ committed \in Payloads \cup {Blank}
  /\ pc \in {"off", "idle", "nvm_write", "nvs_set", "nvs_commit",
             "fs_open", "fs_write", "fs_sync", "fs_rename"}
  /\ answer \in {"none", "full", "oserror", "skipped", "saved", "loaded", "corrupt", "booted"}
  /\ unseen \subseteq {"in_place", "rot", "reload", "unreadable"}

\* The dict a boot would reconstruct from the medium.
Restored(record) == IF record \in {Blank, Torn} THEN Empty ELSE record



=============================================================================
