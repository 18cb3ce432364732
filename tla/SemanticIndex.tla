----------------------------- MODULE SemanticIndex -----------------------------
(* The background pass that embeds what is pending (storage/semantic.py):    *)
(* chunks are prepared for new evidence, embedded one by one, the coverage   *)
(* is counted and published, and the vector cache is brought up to date.     *)
(* Ingestion publishes new heads meanwhile.                                  *)
(*                                                                           *)
(* publication only ever grows, so a comparison of publications is a flag:   *)
(* whether it moved since.                                                   *)
EXTENDS VectorCache

CONSTANTS
    Event,          \* evidence rows
    ChunkOf,        \* [Event -> Chunk]: equal texts share a chunk
    Limit,          \* chunks one pass takes
    Streak          \* consecutive failures that end a pass

ASSUME IndexAssumption ==
    /\ IsFiniteSet(Event)
    /\ ChunkOf \in [Event -> Chunk] /\ Limit \in Nat \ {0} /\ Streak \in Nat \ {0}

VARIABLES
    came,       \* evidence ingested so far
    active,     \* evidence of the current heads
    prepared,   \* events with rows in event_chunks
    coverage,   \* semantic_coverage: its count and whether it is current
    waiting,    \* chunks of embedding_failures whose next_attempt is not due
    pass,       \* the pass that holds .embedding-background.lock
    touched     \* history: maintenance between the count and its publication

indexVars == <<came, active, prepared, coverage, waiting, pass, touched>>
vars == <<cacheVars, indexVars, faults>>

NoPass == [pc |-> "idle", events |-> {}, todo |-> {}, failures |-> 0, count |-> 0, moved |-> FALSE]

TypeOK ==
    /\ CacheTypeOK
    /\ came \subseteq Event /\ active \subseteq came /\ prepared \subseteq came
    /\ coverage = None \/ coverage \in [count : 0..Cardinality(Event), current : BOOLEAN]
    /\ waiting \subseteq Chunk
    /\ pass \in [pc : {"idle", "prepare", "embed", "record", "build", "cache"},
                 events : SUBSET Event, todo : SUBSET Chunk, failures : 0..Streak,
                 count : 0..Cardinality(Event), moved : BOOLEAN]
    /\ touched \in BOOLEAN
    /\ build.pc # "idle" => pass.pc = "cache"

Init ==
    /\ CacheInit
    /\ came = {} /\ active = {} /\ prepared = {} /\ coverage = None
    /\ waiting = {} /\ pass = NoPass /\ touched = FALSE

Embedded == {v.chunk : v \in vectors}
Indexed == {e \in active \cap prepared : ChunkOf[e] \in Embedded}

Behind(c) == IF c = None THEN None ELSE [c EXCEPT !.current = FALSE]
Moved(p) == [p EXCEPT !.moved = TRUE]

-----------------------------------------------------------------------------
(* Ingestion advances a head: its new evidence is active, and evidence of    *)
(* the revision it replaces no longer is.                                    *)
Ingest(e) ==
    /\ e \notin came /\ came' = came \cup {e}
    /\ \E old \in SUBSET active : active' = (active \ old) \cup {e}
    /\ coverage' = Behind(coverage) /\ pass' = Moved(pass)
    /\ UNCHANGED <<prepared, waiting, touched, cacheVars, faults>>

StartPass ==
    /\ pass.pc = "idle"
    /\ pass' = [NoPass EXCEPT !.pc = "prepare", !.events = active \ prepared]
    /\ UNCHANGED <<came, active, prepared, coverage, waiting, touched, cacheVars, faults>>

Prepare ==
    /\ pass.pc = "prepare"
    /\ \E e \in pass.events :
        /\ prepared' = prepared \cup {e}
        /\ pass' = Moved([pass EXCEPT !.events = @ \ {e}])
    /\ coverage' = Behind(coverage)
    /\ UNCHANGED <<came, active, waiting, touched, cacheVars, faults>>

Pending == {ChunkOf[e] : e \in active \cap prepared} \ (Embedded \cup waiting)

Select ==
    /\ pass.pc = "prepare" /\ pass.events = {}
    /\ \E todo \in SUBSET Pending :
        /\ Cardinality(todo) = (IF Cardinality(Pending) > Limit THEN Limit ELSE Cardinality(Pending))
        /\ pass' = [pass EXCEPT !.pc = "embed", !.todo = todo]
    /\ UNCHANGED <<came, active, prepared, coverage, waiting, touched, cacheVars, faults>>

(* The insert trigger takes the coverage away. *)
Embed ==
    /\ pass.pc = "embed"
    /\ \E c \in pass.todo :
        /\ AddVector(c)
        /\ waiting' = waiting \ {c}
        /\ pass' = Moved([pass EXCEPT !.todo = @ \ {c}, !.failures = 0])
    /\ coverage' = None
    /\ UNCHANGED <<came, active, prepared, touched, faults>>

EmbedFails ==
    /\ pass.pc = "embed" /\ Fault
    /\ \E c \in pass.todo :
        /\ waiting' = waiting \cup {c}
        /\ pass' = Moved([pass EXCEPT !.failures = @ + 1,
                            !.todo = IF pass.failures + 1 >= Streak THEN {} ELSE @ \ {c}])
    /\ coverage' = Behind(coverage)
    /\ UNCHANGED <<came, active, prepared, touched, cacheVars>>

Due(c) ==
    /\ c \in waiting /\ waiting' = waiting \ {c}
    /\ UNCHANGED <<came, active, prepared, coverage, pass, touched, cacheVars, faults>>

(* refresh_coverage counts in one transaction *)
Count ==
    /\ pass.pc = "embed" /\ pass.todo = {}
    /\ IF coverage # None /\ coverage.current
       THEN pass' = [pass EXCEPT !.pc = "build"] /\ UNCHANGED touched
       ELSE /\ pass' = [pass EXCEPT !.pc = "record", !.count = Cardinality(Indexed), !.moved = FALSE]
            /\ touched' = FALSE
    /\ UNCHANGED <<came, active, prepared, coverage, waiting, cacheVars, faults>>

(* Mutant: what was counted is published as current without a look at what   *)
(* was published meanwhile.                                                  *)
RecordBlindly ==
    /\ pass.pc = "record"
    /\ coverage' = [count |-> pass.count, current |-> TRUE]
    /\ pass' = [pass EXCEPT !.pc = "build"]
    /\ UNCHANGED <<came, active, prepared, waiting, touched, cacheVars, faults>>

(* and publishes in another: under a publication of its own if nothing was   *)
(* published meanwhile, else under the one it observed.                      *)
Record ==
    /\ pass.pc = "record"
    /\ coverage' = [count |-> pass.count, current |-> ~pass.moved]
    /\ pass' = [pass EXCEPT !.pc = "build"]
    /\ UNCHANGED <<came, active, prepared, waiting, touched, cacheVars, faults>>

BuildCache ==
    /\ pass.pc = "build" /\ StartBuild
    /\ pass' = [pass EXCEPT !.pc = "cache"]
    /\ UNCHANGED <<came, active, prepared, coverage, waiting, touched, faults>>

EndPass ==
    /\ pass.pc = "cache" /\ build.pc = "idle" /\ pass' = NoPass
    /\ UNCHANGED <<came, active, prepared, coverage, waiting, touched, cacheVars, faults>>

(* Maintenance on the vectors table. Its triggers delete the coverage; it    *)
(* publishes nothing.                                                        *)
Maintain ==
    /\ Fault
    /\ UpdateVector \/ DeleteVector
    /\ coverage' = None /\ touched' = (touched \/ pass.pc = "record")
    /\ UNCHANGED <<came, active, prepared, waiting, pass>>

(* The pass dies, with the builder in it. *)
Dies ==
    /\ pass.pc # "idle" /\ Fault
    /\ pass' = NoPass /\ build' = NoBuild
    /\ UNCHANGED <<came, active, prepared, coverage, waiting, touched, vectors, epoch, anchor,
                   manifest, fileVars, search>>

Work == StartPass \/ Prepare \/ Select \/ Embed \/ Count \/ Record \/ BuildCache \/ EndPass

Next ==
    \/ \E e \in Event : Ingest(e)
    \/ Work \/ EmbedFails \/ Maintain \/ Dies
    \/ \E c \in Chunk : Due(c)
    \/ (Build \/ Search \/ Restart) /\ UNCHANGED <<indexVars, faults>>
    \/ (Defer \/ DamageSegment \/ DecaySegment \/ EditManifest) /\ UNCHANGED indexVars

Spec == Init /\ [][Next]_vars

(* The timer starts passes, a pass and its builder run on, failures come due. *)
FairSpec ==
    /\ Spec
    /\ WF_vars(Work) /\ WF_vars(Build /\ UNCHANGED <<indexVars, faults>>)
    /\ \A c \in Chunk : WF_vars(Due(c))

-----------------------------------------------------------------------------
(* Coverage that says it is current counts exactly the active evidence that  *)
(* has a vector, although it was counted in one transaction and published in *)
(* another while ingestion goes on (lines 314-341). Maintenance by hand      *)
(* between the two is the exception: its triggers find no row to delete.     *)
CoverageIsExact ==
    /\ TypeOK
    /\ coverage # None /\ coverage.current /\ ~touched =>
            coverage.count = Cardinality(Indexed)

(* Once ingestion rests, all active evidence is embedded, the coverage says  *)
(* so and is current, and the cache serves all vectors: no death, failure,   *)
(* damage or maintenance leaves the index behind for good.                   *)
IndexCatchesUp ==
    <>[]/\ Indexed = active
        /\ coverage # None /\ coverage.current
        /\ CacheComplete
=============================================================================
