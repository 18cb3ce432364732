------------------------------ MODULE VectorCache ------------------------------
(* The cache of embedding vectors beside the catalog                         *)
(* (storage/vector_cache.py): immutable segment files, one manifest file     *)
(* that lists them up to a watermark, and in the catalog an epoch and the    *)
(* digest of the manifest, its anchor. Searches score from the segments and  *)
(* read what is past the watermark from SQLite. One embedding identity. The  *)
(* server verifies a segment file once for as long as its stat is unchanged; *)
(* every builder is a process of its own and verifies afresh.                *)
EXTENDS Naturals, FiniteSets

CONSTANTS
    Chunk,          \* pieces of text with a digest of their own
    SegmentRows,    \* SEGMENT_ROWS
    None,
    MaxFaults       \* bound on deaths, damage, failures and maintenance

ASSUME SegmentAssumption == SegmentRows \in Nat \ {0} /\ MaxFaults \in Nat

VARIABLES
    vectors,    \* rows of the table: rowid, chunk and version of the vector
    epoch,      \* vector_cache_state.epoch
    anchor,     \* vector_cache_manifests: the manifest the catalog vouches for
    manifest,   \* the manifest file
    files,      \* segment files in the directory; a segment is its rows
    damaged,    \* those among them whose content changed
    verified,   \* those the server vouches for as long as their stat is the same
    stale,      \* history: damage that came after the server's last look
    build,      \* the builder
    search,     \* one search
    faults

fileVars == <<files, damaged, verified, stale>>
cacheVars == <<vectors, epoch, anchor, manifest, fileVars, build, search>>

Row == [row : Nat, chunk : Chunk, ver : Nat]
Manifest == [epoch : Nat, mark : Nat, segs : SUBSET SUBSET Row]
NoBuild == [pc |-> "idle", previous |-> None, value |-> None, left |-> {}, sure |-> {}]
NoSearch == [pc |-> "idle", rows |-> {}, epoch |-> 0, anchor |-> None, left |-> {}, at |-> {},
             got |-> {}, amiss |-> {}]
FallBack == [NoSearch EXCEPT !.pc = "sqlite"]

CacheTypeOK ==
    /\ \A v \in vectors : v.row \in Nat \ {0} /\ v.chunk \in Chunk /\ v.ver \in Nat
    /\ \A v, w \in vectors : v.row = w.row \/ v.chunk = w.chunk => v = w
    /\ epoch \in Nat /\ damaged \subseteq files /\ verified \subseteq files /\ stale \subseteq damaged
    /\ build.pc \in {"idle", "manifest", "check", "segments", "anchor", "clean"}
    /\ search.pc \in {"idle", "manifest", "check", "map", "exact", "sqlite"}
    /\ faults \in 0..MaxFaults

CacheInit ==
    /\ vectors = {} /\ epoch = 0 /\ anchor = None
    /\ manifest = None /\ files = {} /\ damaged = {} /\ verified = {} /\ stale = {}
    /\ build = NoBuild /\ search = NoSearch /\ faults = 0

Fault == faults < MaxFaults /\ faults' = faults + 1
MaxRow(rows) == IF rows = {} THEN 0
                ELSE CHOOSE n \in {v.row : v \in rows} : \A v \in rows : v.row <= n
After(rows, mark) == {v \in rows : v.row > mark}

(* Rows in the order of their ids, SegmentRows to a segment.                 *)
Rank(v, rows) == Cardinality({w \in rows : w.row < v.row})
Segments(rows) ==
    {{v \in rows : Rank(v, rows) \div SegmentRows = Rank(w, rows) \div SegmentRows} : w \in rows}

Whole(segs) == segs \subseteq files \ damaged

(* Mutant: the epoch of the vectors is not compared. *)
CompatibleAnyEpoch(value, e, a) == value # None /\ a = value

(* compatible and anchored, as the catalog of a read snapshot tells.         *)
Compatible(value, e, a) == value # None /\ value.epoch = e /\ a = value

-----------------------------------------------------------------------------
(* What the triggers and statements on the vectors table do. *)
AddVector(c) ==
    /\ vectors' = vectors \cup {[row |-> MaxRow(vectors) + 1, chunk |-> c, ver |-> 0]}
    /\ UNCHANGED <<epoch, anchor, manifest, fileVars, build, search>>

UpdateVector ==
    /\ \E v \in vectors : vectors' = (vectors \ {v}) \cup {[v EXCEPT !.ver = @ + 1]}
    /\ epoch' = epoch + 1
    /\ UNCHANGED <<anchor, manifest, fileVars, build, search>>

DeleteVector ==
    /\ \E v \in vectors : vectors' = vectors \ {v}
    /\ epoch' = epoch + 1
    /\ UNCHANGED <<anchor, manifest, fileVars, build, search>>

-----------------------------------------------------------------------------
(* build. The manifest is read before the transaction begins. *)
StartBuild ==
    /\ build.pc = "idle"
    /\ build' = [NoBuild EXCEPT !.pc = "manifest"]
    /\ UNCHANGED <<vectors, epoch, anchor, manifest, fileVars, search>>

ReadManifest ==
    /\ build.pc = "manifest"
    /\ build' = [build EXCEPT !.pc = "check", !.previous = manifest]
    /\ UNCHANGED <<vectors, epoch, anchor, manifest, fileVars, search>>

(* Those a builder verifies in order before it meets one that is not whole.  *)
Sure(segs) ==
    {s \in segs : \A t \in segs : MaxRow(t) <= MaxRow(s) => Whole({t})}

(* Mutant: rows are appended to a previous manifest the catalog does not     *)
(* vouch for, or whose segments are gone.                                    *)
PlanBuildOnAny ==
    LET valid == build.previous # None
        low == IF valid THEN build.previous.mark ELSE 0
        high == MaxRow(vectors)
        kept == IF valid THEN build.previous.segs ELSE {}
    IN
    /\ build.pc = "check"
    /\ build' = IF valid /\ low = high THEN NoBuild
                ELSE [NoBuild EXCEPT !.pc = "segments", !.left = Segments(After(vectors, low)),
                                     !.value = [epoch |-> epoch, mark |-> high, segs |-> kept]]
    /\ UNCHANGED <<vectors, epoch, anchor, manifest, fileVars, search>>

PlanBuild ==
    LET high == MaxRow(vectors)
        valid == /\ Compatible(build.previous, epoch, anchor)
                 /\ Whole(build.previous.segs) /\ build.previous.mark <= high
        low == IF valid THEN build.previous.mark ELSE 0
        kept == IF valid THEN build.previous.segs ELSE {}
        sure == IF Compatible(build.previous, epoch, anchor) THEN Sure(build.previous.segs) ELSE {}
    IN
    /\ build.pc = "check"
    /\ build' = IF valid /\ low = high THEN NoBuild
                ELSE [NoBuild EXCEPT !.pc = "segments", !.left = Segments(After(vectors, low)),
                                     !.value = [epoch |-> epoch, mark |-> high, segs |-> kept],
                                     !.sure = sure]
    /\ UNCHANGED <<vectors, epoch, anchor, manifest, fileVars, search>>

(* A file that this builder finds whole, or found so before and sees with    *)
(* the same stat, is not written again. A new file has a new stat.           *)
WriteSegment ==
    /\ build.pc = "segments"
    /\ \E s \in build.left :
        /\ build' = [build EXCEPT !.left = @ \ {s}, !.value.segs = @ \cup {s}]
        /\ IF Whole({s}) \/ s \in build.sure
           THEN UNCHANGED fileVars
           ELSE /\ files' = files \cup {s} /\ damaged' = damaged \ {s}
                /\ verified' = verified \ {s} /\ stale' = stale \ {s}
    /\ UNCHANGED <<vectors, epoch, anchor, manifest, search>>

PublishManifest ==
    /\ build.pc = "segments" /\ build.left = {}
    /\ manifest' = build.value /\ build' = [build EXCEPT !.pc = "anchor"]
    /\ UNCHANGED <<vectors, epoch, anchor, fileVars, search>>

Anchor ==
    /\ build.pc = "anchor"
    /\ anchor' = build.value /\ build' = [build EXCEPT !.pc = "clean"]
    /\ UNCHANGED <<vectors, epoch, manifest, fileVars, search>>

CleanFiles ==
    /\ build.pc = "clean"
    /\ IF files = build.value.segs
       THEN build' = NoBuild /\ UNCHANGED fileVars
       ELSE \E s \in files \ build.value.segs :
                /\ files' = files \ {s} /\ damaged' = damaged \ {s}
                /\ verified' = verified \ {s} /\ stale' = stale \ {s} /\ UNCHANGED build
    /\ UNCHANGED <<vectors, epoch, anchor, manifest, search>>

(* Too little room. *)
Defer ==
    /\ build.pc = "segments" /\ Fault /\ build' = NoBuild
    /\ UNCHANGED <<vectors, epoch, anchor, manifest, fileVars, search>>

Build == ReadManifest \/ PlanBuild \/ WriteSegment \/ PublishManifest \/ Anchor \/ CleanFiles

-----------------------------------------------------------------------------
(* scores. The catalog is a snapshot; the manifest and the segments are      *)
(* whatever the directory holds.                                             *)
OpenSearch ==
    /\ search.pc = "idle"
    /\ search' = [NoSearch EXCEPT !.pc = "manifest", !.rows = vectors, !.epoch = epoch,
                                  !.anchor = anchor]
    /\ UNCHANGED <<vectors, epoch, anchor, manifest, fileVars, build>>

LoadManifest ==
    /\ search.pc = "manifest"
    /\ search' = IF Compatible(manifest, search.epoch, search.anchor)
                 THEN [NoSearch EXCEPT !.pc = "check", !.rows = search.rows,
                                       !.left = manifest.segs,
                                       !.got = After(search.rows, manifest.mark)]
                 ELSE FallBack
    /\ UNCHANGED <<vectors, epoch, anchor, manifest, fileVars, build>>

(* valid_file: the hash is computed only for a stat not verified before.     *)
CheckSegment ==
    /\ search.pc = "check"
    /\ \E s \in search.left :
        IF s \in verified \/ Whole({s})
        THEN /\ verified' = verified \cup {s} /\ UNCHANGED stale
             /\ search' = [search EXCEPT !.pc = "map", !.at = s]
        ELSE /\ stale' = stale \ {s} /\ UNCHANGED verified
             /\ search' = FallBack
    /\ UNCHANGED <<vectors, epoch, anchor, manifest, files, damaged, build>>

(* The file is opened once more. Of one that was damaged the order of its    *)
(* rows and the finiteness of its numbers tell some damage, but not all.     *)
MapSegment ==
    LET s == search.at
        mapped == [search EXCEPT !.pc = "check", !.left = @ \ {s}, !.at = {}]
    IN
    /\ search.pc = "map"
    /\ \/ Whole({s}) /\ search' = [mapped EXCEPT !.got = @ \cup s]
       \/ s \in damaged /\ search' = [mapped EXCEPT !.amiss = @ \cup ({s} \cap stale)]
       \/ ~Whole({s}) /\ search' = FallBack
    /\ UNCHANGED <<vectors, epoch, anchor, manifest, fileVars, build>>

Scored ==
    /\ search.pc = "check" /\ search.left = {}
    /\ search' = [search EXCEPT !.pc = "exact"]
    /\ UNCHANGED <<vectors, epoch, anchor, manifest, fileVars, build>>

CloseSearch ==
    /\ search.pc \in {"exact", "sqlite"} /\ search' = NoSearch
    /\ UNCHANGED <<vectors, epoch, anchor, manifest, fileVars, build>>

Search == OpenSearch \/ LoadManifest \/ CheckSegment \/ MapSegment \/ Scored \/ CloseSearch

-----------------------------------------------------------------------------
(* Somebody writes to a segment, which its stat tells the next check; the     *)
(* medium decays, which no stat tells; or somebody takes entries out of the  *)
(* manifest.                                                                 *)
InHand(s) == search.pc = "map" /\ search.at = s

DamageSegment ==
    /\ Fault
    /\ \E s \in files :
        /\ damaged' = damaged \cup {s} /\ verified' = verified \ {s}
        /\ stale' = IF InHand(s) THEN stale \cup {s} ELSE stale \ {s}
        /\ build' = [build EXCEPT !.sure = @ \ {s}]
    /\ UNCHANGED <<vectors, epoch, anchor, manifest, files, search>>

DecaySegment ==
    /\ Fault
    /\ \E s \in files \ damaged :
        /\ damaged' = damaged \cup {s}
        /\ stale' = IF s \in verified \/ InHand(s) THEN stale \cup {s} ELSE stale
    /\ UNCHANGED <<vectors, epoch, anchor, manifest, files, verified, build, search>>

(* The server starts anew and has verified nothing.                          *)
Restart ==
    /\ verified # {} /\ verified' = {} /\ stale' = {} /\ search' = NoSearch
    /\ UNCHANGED <<vectors, epoch, anchor, manifest, files, damaged, build>>

EditManifest ==
    /\ manifest # None /\ Fault
    /\ \E s \in manifest.segs : manifest' = [manifest EXCEPT !.segs = @ \ {s}]
    /\ UNCHANGED <<vectors, epoch, anchor, fileVars, build, search>>

(* What a search scores from the cache are exactly the vectors of its own    *)
(* snapshot of the catalog, whatever the builder, its death or maintenance   *)
(* did to the files meanwhile; when that cannot be, it falls back to SQLite  *)
(* (lines 199-226). Damage is noticed unless it came after the server's last *)
(* look at that very file: under a stat that was verified before, or between *)
(* the check of the file and its mapping (lines 146-151 and 186-190).        *)
ScoresAreExact ==
    search.pc = "exact" =>
       search.got \subseteq search.rows /\ search.rows \ search.got \subseteq UNION search.amiss

(* The cache serves a search that opens now without a scan of the table.     *)
CacheComplete ==
    /\ Compatible(manifest, epoch, anchor) /\ Whole(manifest.segs)
    /\ manifest.mark = MaxRow(vectors)
=============================================================================
