------------------------- MODULE SemanticIndex_proofs -------------------------
(* The safety of the two halves of semantic search, each for every value of   *)
(* its constants: the index and its vector cache (SemanticIndex, VectorCache),*)
(* and the isolated model process that embeds the queries (LocalInference).   *)
(*                                                                            *)
(* The index: while the epoch of the vectors stays, the segments of a         *)
(* manifest hold what the table holds up to its watermark, so that a search   *)
(* that finds the manifest its snapshot vouches for needs no look at the      *)
(* table below it; and a count stays right until the publication moves or     *)
(* maintenance sets the history flag. The model process: who speaks to it,    *)
(* and what that thread may take for granted about the request in the pipe.   *)
EXTENDS SemanticIndex, LocalInference, FiniteSetTheorems, WellFoundedInduction, TLAPS

(* The cache: what its variables hold.                                      *)
UpTo(rows, mark) == {v \in rows : v.row <= mark}

VectorTypes ==
    /\ vectors \subseteq Row /\ epoch \in Nat
    /\ \A v \in vectors : v.row # 0
    /\ \A v, w \in vectors : v.row = w.row \/ v.chunk = w.chunk => v = w
    /\ \E n \in Nat : \A v \in vectors : v.row <= n

(* Sets of rows, and of segments. *)
Rows == SUBSET Row
Layouts == SUBSET Rows
Manifests == Manifest \cup {None}

FileTypes ==
    /\ anchor \in Manifests /\ manifest \in Manifests
    /\ files \in Layouts /\ damaged \subseteq files /\ verified \subseteq files
    /\ stale \subseteq damaged

Builds == [pc : {"idle", "manifest", "check", "segments", "anchor", "clean"},
           previous : Manifests, value : Manifests, left : Layouts, sure : Layouts]

BuildTypes ==
    /\ build \in Builds
    /\ build.pc \in {"segments", "anchor", "clean"} => build.value \in Manifest

SearchTypes ==
    search \in [pc : {"idle", "manifest", "check", "map", "exact", "sqlite"}, rows : Rows,
                epoch : Nat, anchor : Manifests, left : Layouts, at : Rows, got : Rows,
                amiss : Layouts]

CacheTypes == VectorTypes /\ FileTypes /\ BuildTypes /\ SearchTypes /\ faults \in 0..MaxFaults

(* While the epoch stays, the segments of a manifest, with those still to   *)
(* be written, hold what the table holds up to the watermark: new rows come *)
(* after it, and everything else moves the epoch.                           *)
Lists(value, more, rows, e) ==
    /\ value.epoch <= e
    /\ value.epoch = e => /\ value.mark <= MaxRow(rows)
                          /\ (UNION value.segs) \cup (UNION more) = UpTo(rows, value.mark)

AnchorIsTrue == anchor # None => Lists(anchor, {}, vectors, epoch)

BuildIsTrue ==
    /\ build.pc \in {"segments", "anchor", "clean"} =>
          Lists(build.value, build.left, vectors, epoch)
    /\ build.pc \in {"anchor", "clean"} => build.left = {}

(* A search keeps what was true when it opened. *)
SearchIsTrue ==
    /\ search.pc = "manifest" /\ search.anchor # None =>
          Lists(search.anchor, {}, search.rows, search.epoch)
    /\ search.pc \in {"check", "map"} =>
          search.got \cup (UNION search.left) \cup (UNION search.amiss) = search.rows
    /\ search.pc = "exact" => search.got \cup (UNION search.amiss) = search.rows

(* What the server vouches for, and the segment it is about to map, is whole *)
(* or was damaged after its last look.                                      *)
Noticed ==
    /\ verified \cap damaged \subseteq stale
    /\ search.pc = "map" => /\ search.at \in search.left
                            /\ search.at \in damaged => search.at \in stale

(* The pass. *)
IndexTypes ==
    /\ came \subseteq Event /\ active \subseteq came /\ prepared \subseteq came
    /\ coverage = None \/ coverage \in [count : 0..Cardinality(Event), current : BOOLEAN]
    /\ waiting \subseteq Chunk
    /\ pass \in [pc : {"idle", "prepare", "embed", "record", "build", "cache"},
                 events : SUBSET Event, todo : SUBSET Chunk, failures : 0..Streak,
                 count : 0..Cardinality(Event), moved : BOOLEAN]
    /\ touched \in BOOLEAN

(* What is to be embedded has no vector yet, and was given up in time. *)
PassSane ==
    /\ pass.todo \cap Embedded = {}
    /\ pass.todo # {} => pass.failures < Streak
    /\ pass.pc = "prepare" => pass.events \subseteq came /\ pass.failures = 0
    /\ pass.pc # "embed" => pass.todo = {}
    /\ build.pc # "idle" => pass.pc = "cache"

(* A count stays right until something is published or touched, and what is *)
(* published as current was counted.                                        *)
CountIsTrue ==
    /\ pass.pc = "record" /\ ~pass.moved /\ ~touched => pass.count = Cardinality(Indexed)
    /\ coverage # None /\ coverage.current /\ ~touched => coverage.count = Cardinality(Indexed)

IndexIInv ==
    /\ CacheTypes /\ AnchorIsTrue /\ BuildIsTrue /\ SearchIsTrue /\ Noticed
    /\ IndexTypes /\ PassSane /\ CountIsTrue
-----------------------------------------------------------------------------
(* The last rowid of a table whose rowids have a bound. *)
LEMMA MaxRowIsLast ==
    ASSUME NEW rows, \A v \in rows : v.row \in Nat, NEW n \in Nat, \A v \in rows : v.row <= n
    PROVE  MaxRow(rows) \in Nat /\ \A v \in rows : v.row <= MaxRow(rows)
<1> DEFINE ids == {v.row : v \in rows}
           bounds == {k \in Nat : \A v \in rows : v.row <= k}
<1>1. CASE rows = {}
  BY <1>1 DEF MaxRow
<1>2. CASE rows # {}
  <2>1. PICK m \in bounds : \A k \in bounds : m <= k
    <3> DEFINE less == OpToRel(<, Nat)
    <3>1. bounds \subseteq Nat /\ bounds # {}
      OBVIOUS
    <3>2. IsWellFoundedOn(less, Nat)
      BY NatLessThanWellFounded DEF less
    <3> HIDE DEF less, bounds
    <3>3. PICK m \in bounds : \A k \in bounds : ~ (<<k, m>> \in less)
      BY <3>1, <3>2, WFMin
    <3>4. ASSUME NEW k \in bounds PROVE m <= k
      <4>1. ~ (k < m)
        BY <3>1, <3>3 DEF less, OpToRel
      <4>2. k \in Nat /\ m \in Nat
        BY <3>1
      <4>3. QED
        BY <4>1, <4>2
    <3>5. QED
      BY <3>4
  <2>2. m \in ids
    <3>1. SUFFICES ASSUME m \notin ids PROVE FALSE
      OBVIOUS
    <3>2. \A v \in rows : v.row < m
      BY <2>1, <3>1
    <3>3. m - 1 \in bounds
      BY <1>2, <2>1, <3>2
    <3>4. QED
      BY <2>1, <3>3
  <2>3. \E k \in ids : \A v \in rows : v.row <= k
    BY <2>1, <2>2
  <2>4. MaxRow(rows) \in ids /\ \A v \in rows : v.row <= MaxRow(rows)
    BY <1>2, <2>3 DEF MaxRow
  <2>5. QED
    BY <2>4
<1>3. QED
  BY <1>1, <1>2

LEMMA LastVector ==
    VectorTypes => MaxRow(vectors) \in Nat /\ \A v \in vectors : v.row <= MaxRow(vectors)
<1> SUFFICES ASSUME VectorTypes
             PROVE  MaxRow(vectors) \in Nat /\ \A v \in vectors : v.row <= MaxRow(vectors)
  OBVIOUS
<1>1. PICK n \in Nat : \A v \in vectors : v.row <= n
  BY DEF VectorTypes
<1>2. \A v \in vectors : v.row \in Nat
  BY DEF VectorTypes, Row
<1>3. QED
  BY <1>1, <1>2, MaxRowIsLast

(* Every row is in a segment, and a segment has rows of the table only. *)
LEMMA SegmentsCover ==
    ASSUME NEW rows
    PROVE  UNION Segments(rows) = rows /\ Segments(rows) \subseteq SUBSET rows
BY DEF Segments

(* Statements on the table. *)
LEMMA AddedVector ==
    ASSUME VectorTypes, NEW c \in Chunk \ Embedded, AddVector(c)
    PROVE  /\ VectorTypes'
           /\ MaxRow(vectors') >= MaxRow(vectors)
           /\ \A mark \in Nat :
                 mark <= MaxRow(vectors) => UpTo(vectors', mark) = UpTo(vectors, mark)
<1> DEFINE new == [row |-> MaxRow(vectors) + 1, chunk |-> c, ver |-> 0]
<1>1. MaxRow(vectors) \in Nat /\ \A v \in vectors : v.row <= MaxRow(vectors)
  BY LastVector
<1>2. vectors' = vectors \cup {new} /\ epoch' = epoch /\ new \in Row
  BY <1>1 DEF AddVector, Row
<1>3. \A v \in vectors : v.row \in Nat /\ v.row < new.row /\ v.chunk # new.chunk
  BY <1>1 DEF VectorTypes, Row, Embedded
<1>4. VectorTypes'
  <2>1. \A v, w \in vectors' : v.row = w.row \/ v.chunk = w.chunk => v = w
    BY <1>2, <1>3 DEF VectorTypes
  <2>2. \A v \in vectors' : v.row # 0 /\ v.row <= MaxRow(vectors) + 1
    BY <1>1, <1>2 DEF VectorTypes, Row
  <2>3. MaxRow(vectors) + 1 \in Nat
    BY <1>1
  <2>4. QED
    BY <1>2, <2>1, <2>2, <2>3 DEF VectorTypes
<1>5. MaxRow(vectors') >= MaxRow(vectors)
  <2>1. MaxRow(vectors') \in Nat /\ new.row <= MaxRow(vectors')
    <3>1. \A v \in vectors' : v.row \in Nat /\ v.row <= MaxRow(vectors) + 1
      BY <1>1, <1>2, <1>3
    <3>2. MaxRow(vectors) + 1 \in Nat
      BY <1>1
    <3>3. QED
      BY <1>2, <3>1, <3>2, MaxRowIsLast
  <2>2. QED
    BY <1>1, <2>1
<1>6. ASSUME NEW mark \in Nat, mark <= MaxRow(vectors)
      PROVE  UpTo(vectors', mark) = UpTo(vectors, mark)
  BY <1>1, <1>2, <1>6 DEF UpTo
<1>7. QED
  BY <1>4, <1>5, <1>6

LEMMA MaintainedVectors ==
    VectorTypes /\ (UpdateVector \/ DeleteVector) => VectorTypes' /\ epoch' = epoch + 1
<1> SUFFICES ASSUME VectorTypes, UpdateVector \/ DeleteVector
             PROVE  VectorTypes' /\ epoch' = epoch + 1
  OBVIOUS
<1>1. CASE UpdateVector
  <2>1. PICK v \in vectors : vectors' = (vectors \ {v}) \cup {[v EXCEPT !.ver = @ + 1]}
    BY <1>1 DEF UpdateVector
  <2> DEFINE new == [v EXCEPT !.ver = @ + 1]
  <2>2. new \in Row /\ new.row = v.row /\ new.chunk = v.chunk
    BY DEF VectorTypes, Row
  <2>3. \A x, y \in vectors' : x.row = y.row \/ x.chunk = y.chunk => x = y
    <3>1. \A x \in vectors : x.row = v.row \/ x.chunk = v.chunk => x = v
      BY DEF VectorTypes
    <3>2. \A x \in vectors \ {v} : x.row # new.row /\ x.chunk # new.chunk
      BY <2>2, <3>1
    <3>3. \A x, y \in vectors \ {v} : x.row = y.row \/ x.chunk = y.chunk => x = y
      BY DEF VectorTypes
    <3>4. QED
      BY <2>1, <3>2, <3>3
  <2>4. vectors' \subseteq Row /\ \A x \in vectors' : x.row # 0
    BY <2>1, <2>2 DEF VectorTypes
  <2>5. \E n \in Nat : \A x \in vectors' : x.row <= n
    BY <2>1, <2>2 DEF VectorTypes
  <2>6. QED
    BY <1>1, <2>3, <2>4, <2>5 DEF UpdateVector, VectorTypes
<1>2. CASE DeleteVector
  BY <1>2 DEF DeleteVector, VectorTypes
<1>3. QED
  BY <1>1, <1>2
-----------------------------------------------------------------------------
(* Which actions change what.                                               *)
LEMMA VectorsChange == [Next]_vars => Embed \/ Maintain \/ UNCHANGED <<vectors, epoch>>
BY DEF Next, vars, Work, Build, Search, cacheVars, Ingest, StartPass, Prepare, Select, Count,
       Record, BuildCache, StartBuild, EndPass, EmbedFails, Dies, Due, ReadManifest,
       PlanBuild, WriteSegment, PublishManifest, Anchor, CleanFiles, OpenSearch,
       LoadManifest, CheckSegment, MapSegment, Scored, CloseSearch, Restart, Defer,
       DamageSegment, DecaySegment, EditManifest

LEMMA FilesChange ==
    [Next]_vars => \/ WriteSegment \/ PublishManifest \/ Anchor \/ CleanFiles
                   \/ CheckSegment \/ Restart \/ DamageSegment \/ DecaySegment
                   \/ EditManifest
                   \/ UNCHANGED <<anchor, manifest, fileVars>>
BY DEF Next, vars, Work, Build, Search, cacheVars, Ingest, StartPass, Prepare, Select, Embed,
       AddVector, Count, Record, BuildCache, StartBuild, EndPass, EmbedFails, Maintain,
       UpdateVector, DeleteVector, Dies, Due, ReadManifest, PlanBuild, OpenSearch,
       LoadManifest, MapSegment, Scored, CloseSearch, Defer

LEMMA BuilderChanges ==
    [Next]_vars => BuildCache \/ Dies \/ Build \/ Defer \/ DamageSegment \/ UNCHANGED build
BY DEF Next, vars, Work, Search, cacheVars, Ingest, StartPass, Prepare, Select, Embed,
       AddVector, Count, Record, EndPass, EmbedFails, Maintain, UpdateVector, DeleteVector,
       Due, OpenSearch, LoadManifest, CheckSegment, MapSegment, Scored, CloseSearch, Restart,
       DecaySegment, EditManifest

LEMMA SearchChanges == [Next]_vars => Search \/ Restart \/ UNCHANGED search
BY DEF Next, vars, Work, Build, cacheVars, Ingest, StartPass, Prepare, Select, Embed,
       AddVector, Count, Record, BuildCache, StartBuild, EndPass, EmbedFails, Maintain,
       UpdateVector, DeleteVector, Dies, Due, ReadManifest, PlanBuild, WriteSegment,
       PublishManifest, Anchor, CleanFiles, Defer, DamageSegment, DecaySegment, EditManifest

LEMMA FaultsCount == [Next]_vars => Fault \/ UNCHANGED faults
BY DEF Next, vars, Work, Ingest, StartPass, Prepare, Select, Embed, Count, Record,
       BuildCache, EndPass, EmbedFails, Maintain, Dies, Due, Defer, DamageSegment,
       DecaySegment, EditManifest

-----------------------------------------------------------------------------
LEMMA VectorsStep == VectorTypes /\ IndexTypes /\ PassSane /\ [Next]_vars => VectorTypes'
<1> SUFFICES ASSUME VectorTypes, IndexTypes, PassSane, [Next]_vars PROVE VectorTypes'
  OBVIOUS
<1>1. CASE Embed
  <2>1. PICK c \in pass.todo : AddVector(c)
    BY <1>1 DEF Embed
  <2>2. c \in Chunk \ Embedded
    BY <2>1 DEF PassSane, IndexTypes
  <2>3. QED
    BY <2>1, <2>2, AddedVector
<1>2. CASE Maintain
  BY <1>2, MaintainedVectors DEF Maintain
<1>3. CASE UNCHANGED <<vectors, epoch>>
  BY <1>3 DEF VectorTypes
<1>4. QED
  BY <1>1, <1>2, <1>3, VectorsChange

(* A plan continues a manifest that the catalog vouches for, or starts anew. *)
LEMMA PlannedBuild ==
    ASSUME BuildTypes, PlanBuild
    PROVE  \E valid \in BOOLEAN, low \in Nat, kept, sure \in Layouts :
             /\ IF valid THEN /\ Compatible(build.previous, epoch, anchor)
                              /\ low = build.previous.mark /\ kept = build.previous.segs
                         ELSE low = 0 /\ kept = {}
             /\ build' = IF valid /\ low = MaxRow(vectors) THEN NoBuild
                         ELSE [NoBuild EXCEPT !.pc = "segments",
                                 !.left = Segments(After(vectors, low)), !.sure = sure,
                                 !.value = [epoch |-> epoch, mark |-> MaxRow(vectors), segs |-> kept]]
             /\ UNCHANGED <<vectors, epoch, anchor, manifest, fileVars, search>>
<1> DEFINE valid == /\ Compatible(build.previous, epoch, anchor)
                    /\ Whole(build.previous.segs) /\ build.previous.mark <= MaxRow(vectors)
           low == IF valid THEN build.previous.mark ELSE 0
           kept == IF valid THEN build.previous.segs ELSE {}
           sure == IF Compatible(build.previous, epoch, anchor)
                   THEN Sure(build.previous.segs) ELSE {}
<1>1. Compatible(build.previous, epoch, anchor) => build.previous \in Manifest
  BY DEF Compatible, BuildTypes, Builds, Manifests
<1>2. valid \in BOOLEAN /\ low \in Nat /\ kept \in Layouts /\ sure \in Layouts
  BY <1>1 DEF Manifest, Layouts, Rows, Sure
<1>3. IF valid THEN /\ Compatible(build.previous, epoch, anchor)
                    /\ low = build.previous.mark /\ kept = build.previous.segs
               ELSE low = 0 /\ kept = {}
  OBVIOUS
<1>4. /\ build' = IF valid /\ low = MaxRow(vectors) THEN NoBuild
                  ELSE [NoBuild EXCEPT !.pc = "segments",
                          !.left = Segments(After(vectors, low)), !.sure = sure,
                          !.value = [epoch |-> epoch, mark |-> MaxRow(vectors), segs |-> kept]]
      /\ UNCHANGED <<vectors, epoch, anchor, manifest, fileVars, search>>
  BY DEF PlanBuild
<1> HIDE DEF valid, low, kept, sure
<1>5. QED
  BY <1>2, <1>3, <1>4

LEMMA NewManifest ==
    ASSUME VectorTypes, NEW segs \in Layouts
    PROVE  [epoch |-> epoch, mark |-> MaxRow(vectors), segs |-> segs] \in Manifest
BY LastVector DEF Manifest, VectorTypes, Layouts, Rows

LEMMA FilesStep == FileTypes /\ BuildTypes /\ [Next]_vars => FileTypes'
<1> SUFFICES ASSUME FileTypes, BuildTypes, [Next]_vars PROVE FileTypes'
  OBVIOUS
<1> USE DEF FileTypes, BuildTypes, Builds, fileVars
<1>1. CASE WriteSegment
  <2>1. PICK s \in build.left :
          IF Whole({s}) \/ s \in build.sure
          THEN UNCHANGED fileVars
          ELSE /\ files' = files \cup {s} /\ damaged' = damaged \ {s}
               /\ verified' = verified \ {s} /\ stale' = stale \ {s}
    BY <1>1 DEF WriteSegment
  <2>2. files \cup {s} \in Layouts
    BY DEF Layouts
  <2>3. QED
    BY <1>1, <2>1, <2>2 DEF WriteSegment
<1>2. CASE PublishManifest
  BY <1>2 DEF PublishManifest, Manifests
<1>3. CASE Anchor
  BY <1>3 DEF Anchor, Manifests
<1>4. CASE CleanFiles
  BY <1>4 DEF CleanFiles, Layouts
<1>5. CASE DamageSegment
  BY <1>5 DEF DamageSegment
<1>6. CASE EditManifest
  <2>1. PICK s \in manifest.segs : manifest' = [manifest EXCEPT !.segs = @ \ {s}]
    BY <1>6 DEF EditManifest
  <2>2. manifest \in Manifest
    BY <1>6 DEF EditManifest, Manifests
  <2>3. manifest' \in Manifest
    BY <2>1, <2>2 DEF Manifest
  <2>4. QED
    BY <1>6, <2>3 DEF EditManifest, Manifests
<1>7. CASE CheckSegment
  BY <1>7 DEF CheckSegment, Whole
<1>8. CASE Restart
  BY <1>8 DEF Restart
<1>9. CASE DecaySegment
  BY <1>9 DEF DecaySegment
<1>10. CASE UNCHANGED <<anchor, manifest, fileVars>>
  BY <1>10
<1>11. QED
  BY <1>1, <1>2, <1>3, <1>4, <1>5, <1>6, <1>7, <1>8, <1>9, <1>10, FilesChange

LEMMA BuilderStep == VectorTypes /\ FileTypes /\ BuildTypes /\ [Next]_vars => BuildTypes'
<1> SUFFICES ASSUME VectorTypes, FileTypes, BuildTypes, [Next]_vars PROVE BuildTypes'
  OBVIOUS
<1> USE DEF BuildTypes, Builds
<1>1. NoBuild \in Builds
  BY DEF NoBuild, Manifests, Layouts
<1>2. CASE BuildCache
  BY <1>1, <1>2 DEF BuildCache, StartBuild, NoBuild
<1>3. CASE Dies \/ Defer
  BY <1>1, <1>3 DEF Dies, Defer, NoBuild
<1>4. CASE ReadManifest
  BY <1>4 DEF ReadManifest, FileTypes
<1>5. CASE PlanBuild
  <2>1. PICK valid \in BOOLEAN, low \in Nat, kept, sure \in Layouts :
          build' = IF valid /\ low = MaxRow(vectors) THEN NoBuild
                   ELSE [NoBuild EXCEPT !.pc = "segments",
                           !.left = Segments(After(vectors, low)), !.sure = sure,
                           !.value = [epoch |-> epoch, mark |-> MaxRow(vectors), segs |-> kept]]
    BY ONLY <1>5, BuildTypes, PlannedBuild
  <2> DEFINE segs == Segments(After(vectors, low))
             value == [epoch |-> epoch, mark |-> MaxRow(vectors), segs |-> kept]
  <2>2. segs \in Layouts
    BY SegmentsCover DEF After, VectorTypes, Layouts, Rows
  <2>3. value \in Manifest
    BY NewManifest
  <2> HIDE DEF segs, value
  <2>4. build' = IF valid /\ low = MaxRow(vectors) THEN NoBuild
                 ELSE [NoBuild EXCEPT !.pc = "segments", !.left = segs, !.sure = sure,
                                      !.value = value]
    BY <2>1 DEF segs, value
  <2>5. CASE valid /\ low = MaxRow(vectors)
    BY <1>1, <2>4, <2>5 DEF NoBuild
  <2>6. CASE ~(valid /\ low = MaxRow(vectors))
    BY <1>1, <2>2, <2>3, <2>4, <2>6 DEF NoBuild, Manifests
  <2>7. QED
    BY <2>5, <2>6
<1>6. CASE WriteSegment
  <2>1. PICK s \in build.left :
          build' = [build EXCEPT !.left = @ \ {s}, !.value.segs = @ \cup {s}]
    BY <1>6 DEF WriteSegment
  <2>2. build.value \in Manifest /\ s \in Rows
    BY <1>6 DEF WriteSegment, Layouts
  <2> DEFINE value == [build.value EXCEPT !.segs = @ \cup {s}]
             rest == build.left \ {s}
  <2>3. value \in Manifest /\ rest \in Layouts
    BY <2>2 DEF Manifest, Rows, Layouts
  <2>4. build' = [build EXCEPT !.left = rest, !.value = value]
    BY <2>1
  <2> HIDE DEF value, rest
  <2>5. QED
    BY <1>6, <2>3, <2>4 DEF Manifests, WriteSegment
<1>7. CASE PublishManifest \/ Anchor
  BY <1>7 DEF PublishManifest, Anchor
<1>8. CASE CleanFiles
  BY <1>1, <1>8 DEF CleanFiles, NoBuild
<1>9. CASE DamageSegment
  <2>1. PICK s \in files : build' = [build EXCEPT !.sure = @ \ {s}]
    BY <1>9 DEF DamageSegment
  <2>2. build.sure \ {s} \in Layouts
    BY DEF Layouts
  <2>3. QED
    BY <2>1, <2>2
<1>10. CASE UNCHANGED build
  BY <1>10
<1>11. QED
  BY <1>2, <1>3, <1>4, <1>5, <1>6, <1>7, <1>8, <1>9, <1>10, BuilderChanges DEF Build

LEMMA SearchStep == VectorTypes /\ FileTypes /\ SearchTypes /\ [Next]_vars => SearchTypes'
<1> SUFFICES ASSUME VectorTypes, FileTypes, SearchTypes, [Next]_vars PROVE SearchTypes'
  OBVIOUS
<1> USE DEF SearchTypes
<1>0. NoSearch \in [pc : {"idle"}, rows : Rows, epoch : Nat, anchor : Manifests,
                    left : Layouts, at : Rows, got : Rows, amiss : Layouts]
  BY DEF NoSearch, Manifests, Rows, Layouts
<1>1. CASE OpenSearch
  BY <1>0, <1>1 DEF OpenSearch, VectorTypes, FileTypes, Rows
<1>2. CASE LoadManifest
  <2>1. Compatible(manifest, search.epoch, search.anchor) =>
          manifest.segs \in Layouts /\ After(search.rows, manifest.mark) \in Rows
    BY DEF Compatible, FileTypes, Manifests, Manifest, Layouts, Rows, After
  <2>2. QED
    BY <1>0, <1>2, <2>1 DEF LoadManifest, FallBack
<1>3. CASE CheckSegment
  <2>1. PICK s \in search.left :
          search' = [search EXCEPT !.pc = "map", !.at = s] \/ search' = FallBack
    BY <1>3 DEF CheckSegment
  <2>2. s \in Rows
    BY DEF Layouts
  <2>3. QED
    BY <1>0, <2>1, <2>2 DEF FallBack
<1>4. CASE MapSegment
  <2> DEFINE s == search.at
  <2>1. /\ search.left \ {s} \in Layouts /\ search.got \cup s \in Rows /\ {} \in Rows
        /\ search.amiss \cup ({s} \cap stale) \in Layouts
    BY DEF Layouts, Rows
  <2>2. \/ search' = [search EXCEPT !.pc = "check", !.left = @ \ {s}, !.at = {},
                                   !.got = @ \cup s]
        \/ search' = [search EXCEPT !.pc = "check", !.left = @ \ {s}, !.at = {},
                                   !.amiss = @ \cup ({s} \cap stale)]
        \/ search' = FallBack
    BY <1>4 DEF MapSegment
  <2>3. QED
    BY <1>0, <2>1, <2>2 DEF FallBack
<1>5. CASE Scored
  BY <1>5 DEF Scored
<1>6. CASE CloseSearch \/ Restart
  BY <1>0, <1>6 DEF CloseSearch, Restart
<1>7. CASE UNCHANGED search
  BY <1>7
<1>8. QED
  BY <1>1, <1>2, <1>3, <1>4, <1>5, <1>6, <1>7, SearchChanges DEF Search

LEMMA CacheTypesStep == CacheTypes /\ IndexTypes /\ PassSane /\ [Next]_vars => CacheTypes'
<1>1. faults \in 0..MaxFaults /\ [Next]_vars => faults' \in 0..MaxFaults
  BY FaultsCount, SegmentAssumption DEF Fault
<1>2. QED
  BY <1>1, VectorsStep, FilesStep, BuilderStep, SearchStep DEF CacheTypes
-----------------------------------------------------------------------------
(* A manifest goes on listing the table: a new row comes after the          *)
(* watermark, and every other change moves the epoch.                       *)
LEMMA StillLists ==
    ASSUME VectorTypes, IndexTypes, PassSane, [Next]_vars,
           NEW value \in Manifest, NEW more, Lists(value, more, vectors, epoch)
    PROVE  Lists(value, more, vectors', epoch')
<1>1. CASE Embed
  <2>1. PICK c \in pass.todo : AddVector(c)
    BY <1>1 DEF Embed
  <2>2. /\ MaxRow(vectors') >= MaxRow(vectors) /\ VectorTypes'
        /\ \A mark \in Nat : mark <= MaxRow(vectors) => UpTo(vectors', mark) = UpTo(vectors, mark)
    BY <2>1, AddedVector DEF PassSane, IndexTypes
  <2>3. epoch' = epoch /\ value.mark \in Nat /\ MaxRow(vectors) \in Nat
    BY <2>1, LastVector DEF AddVector, Manifest
  <2>4. MaxRow(vectors') \in Nat
    <3>1. \A v \in vectors' : v.row \in Nat
      BY <2>2 DEF VectorTypes, Row
    <3>2. PICK n \in Nat : \A v \in vectors' : v.row <= n
      BY <2>2 DEF VectorTypes
    <3>3. QED
      BY <3>1, <3>2, MaxRowIsLast
  <2>5. QED
    BY <2>2, <2>3, <2>4 DEF Lists
<1>2. CASE Maintain
  <2>1. epoch' = epoch + 1
    BY <1>2, MaintainedVectors DEF Maintain
  <2>2. value.epoch \in Nat /\ epoch \in Nat
    BY DEF Manifest, VectorTypes
  <2>3. QED
    BY <2>1, <2>2 DEF Lists
<1>3. CASE UNCHANGED <<vectors, epoch>>
  BY <1>3 DEF Lists
<1>4. QED
  BY <1>1, <1>2, <1>3, VectorsChange

(* What the builder plans, writes and publishes lists the table. *)
LEMMA PlanLists ==
    ASSUME VectorTypes, FileTypes, BuildTypes, AnchorIsTrue, PlanBuild, build'.pc # "idle"
    PROVE  Lists(build'.value, build'.left, vectors, epoch)
<1>1. PICK valid \in BOOLEAN, low \in Nat, kept, sure \in Layouts :
        /\ IF valid THEN /\ Compatible(build.previous, epoch, anchor)
                         /\ low = build.previous.mark /\ kept = build.previous.segs
                    ELSE low = 0 /\ kept = {}
        /\ build' = IF valid /\ low = MaxRow(vectors) THEN NoBuild
                    ELSE [NoBuild EXCEPT !.pc = "segments",
                            !.left = Segments(After(vectors, low)), !.sure = sure,
                            !.value = [epoch |-> epoch, mark |-> MaxRow(vectors), segs |-> kept]]
  BY ONLY BuildTypes, PlanBuild, PlannedBuild
<1> DEFINE segs == Segments(After(vectors, low))
           value == [epoch |-> epoch, mark |-> MaxRow(vectors), segs |-> kept]
<1>2. build'.left = segs /\ build'.value = value
  <2> HIDE DEF segs, value
  <2>1. build' = [NoBuild EXCEPT !.pc = "segments", !.left = segs, !.sure = sure,
                                 !.value = value]
    BY <1>1 DEF NoBuild, segs, value
  <2>2. QED
    BY <2>1 DEF NoBuild
<1>3. /\ MaxRow(vectors) \in Nat
      /\ \A v \in vectors : v.row \in Nat /\ v.row <= MaxRow(vectors) /\ v.row # 0
  BY LastVector DEF VectorTypes, Row
<1>4. UNION kept = UpTo(vectors, low)
  <2>1. CASE valid
    BY <1>1, <2>1 DEF Compatible, AnchorIsTrue, Lists
  <2>2. CASE ~valid
    BY <1>1, <1>3, <2>2 DEF UpTo
  <2>3. QED
    BY <2>1, <2>2
<1>5. UNION segs = After(vectors, low)
  BY SegmentsCover
<1>6. (UNION kept) \cup (UNION segs) = UpTo(vectors, MaxRow(vectors))
  <2>1. UpTo(vectors, low) \cup After(vectors, low) = vectors
    BY <1>3 DEF UpTo, After
  <2>2. UpTo(vectors, MaxRow(vectors)) = vectors
    BY <1>3 DEF UpTo
  <2> HIDE DEF segs
  <2>3. QED
    BY <1>4, <1>5, <2>1, <2>2
<1>7. epoch \in Nat
  BY DEF VectorTypes
<1>8. QED
  BY <1>2, <1>3, <1>6, <1>7 DEF Lists

LEMMA AnchorStep ==
    VectorTypes /\ FileTypes /\ BuildTypes /\ IndexTypes /\ PassSane
       /\ AnchorIsTrue /\ BuildIsTrue /\ [Next]_vars
      => AnchorIsTrue'
<1> SUFFICES ASSUME VectorTypes, FileTypes, BuildTypes, IndexTypes, PassSane, AnchorIsTrue,
                    BuildIsTrue, [Next]_vars
             PROVE  AnchorIsTrue'
  OBVIOUS
<1>1. CASE UNCHANGED anchor
  <2>1. anchor # None => anchor \in Manifest
    BY DEF FileTypes, Manifests
  <2>2. QED
    BY <1>1, <2>1, StillLists DEF AnchorIsTrue
<1>2. CASE Anchor
  <2>1. Lists(build.value, {}, vectors, epoch)
    BY <1>2 DEF Anchor, BuildIsTrue, Lists
  <2>2. anchor' = build.value /\ UNCHANGED <<vectors, epoch>>
    BY <1>2 DEF Anchor
  <2>3. QED
    BY <2>1, <2>2 DEF AnchorIsTrue
<1>3. QED
  BY <1>1, <1>2, FilesChange DEF WriteSegment, PublishManifest, CleanFiles, CheckSegment,
                                 Restart, DamageSegment, DecaySegment, EditManifest

LEMMA BuildStep ==
    VectorTypes /\ FileTypes /\ BuildTypes /\ IndexTypes /\ PassSane
       /\ AnchorIsTrue /\ BuildIsTrue /\ [Next]_vars
      => BuildIsTrue'
<1> SUFFICES ASSUME VectorTypes, FileTypes, BuildTypes, IndexTypes, PassSane, AnchorIsTrue,
                    BuildIsTrue, [Next]_vars
             PROVE  BuildIsTrue'
  OBVIOUS
<1>1. CASE UNCHANGED build
  BY <1>1, StillLists DEF BuildTypes, BuildIsTrue
<1>2. CASE BuildCache \/ Dies \/ Defer \/ ReadManifest
  <2>1. build'.pc \in {"idle", "manifest", "check"}
    <3>1. CASE BuildCache
      BY <3>1 DEF BuildCache, StartBuild, NoBuild
    <3>2. CASE Dies \/ Defer
      BY <3>2 DEF Dies, Defer, NoBuild
    <3>3. CASE ReadManifest
      BY <3>3 DEF ReadManifest, BuildTypes, Builds
    <3>4. QED
      BY <1>2, <3>1, <3>2, <3>3
  <2>2. QED
    BY <2>1 DEF BuildIsTrue
<1>3. CASE PlanBuild
  <2>1. build'.pc \in {"idle", "segments"}
    BY <1>3 DEF PlanBuild, NoBuild
  <2>2. UNCHANGED <<vectors, epoch>>
    BY <1>3 DEF PlanBuild
  <2>3. QED
    BY <1>3, <2>1, <2>2, PlanLists DEF BuildIsTrue
<1>4. CASE WriteSegment
  <2>1. PICK s \in build.left :
          build' = [build EXCEPT !.left = @ \ {s}, !.value.segs = @ \cup {s}]
    BY <1>4 DEF WriteSegment
  <2> DEFINE value == [build.value EXCEPT !.segs = @ \cup {s}]
             rest == build.left \ {s}
  <2>2. /\ build.value \in Manifest /\ build.pc = "segments" /\ UNCHANGED <<vectors, epoch>>
        /\ Lists(build.value, build.left, vectors, epoch)
    BY <1>4 DEF WriteSegment, BuildTypes, BuildIsTrue
  <2>3. /\ value.epoch = build.value.epoch /\ value.mark = build.value.mark
        /\ value.segs = build.value.segs \cup {s}
    BY <2>2 DEF Manifest
  <2>4. (UNION value.segs) \cup (UNION rest) = (UNION build.value.segs) \cup (UNION build.left)
    <3>1. UNION value.segs = (UNION build.value.segs) \cup s
      BY <2>3
    <3>2. s \cup (UNION rest) = UNION build.left
      BY <2>1
    <3> HIDE DEF value, rest
    <3>3. QED
      BY <3>1, <3>2
  <2> HIDE DEF value
  <2>5. Lists(value, rest, vectors, epoch)
    BY <2>2, <2>3, <2>4 DEF Lists
  <2> HIDE DEF rest
  <2>6. build' = [build EXCEPT !.left = rest, !.value = value]
    BY <2>1 DEF rest, value
  <2>7. build'.pc = "segments" /\ build'.left = rest /\ build'.value = value
    BY <2>2, <2>6 DEF BuildTypes, Builds
  <2>8. QED
    BY <2>2, <2>5, <2>7 DEF BuildIsTrue
<1>5. CASE PublishManifest \/ Anchor
  BY <1>5 DEF PublishManifest, Anchor, BuildIsTrue, BuildTypes, Builds
<1>6. CASE CleanFiles
  BY <1>6 DEF CleanFiles, NoBuild, BuildIsTrue
<1>7. CASE DamageSegment
  <2>1. build'.pc = build.pc /\ build'.left = build.left /\ build'.value = build.value
    BY <1>7 DEF DamageSegment, BuildTypes, Builds
  <2>2. UNCHANGED <<vectors, epoch>>
    BY <1>7 DEF DamageSegment
  <2>3. QED
    BY <2>1, <2>2 DEF BuildIsTrue
<1>8. QED
  BY <1>1, <1>2, <1>3, <1>4, <1>5, <1>6, <1>7, BuilderChanges DEF Build

(* A search that finds the manifest its catalog vouches for gets the rows   *)
(* of its snapshot: from the segments up to the watermark, from SQLite past *)
(* it.                                                                      *)
LEMMA SearchTrueStep ==
    VectorTypes /\ FileTypes /\ SearchTypes /\ AnchorIsTrue /\ SearchIsTrue /\ Noticed
       /\ [Next]_vars
      => SearchIsTrue'
<1> SUFFICES ASSUME VectorTypes, FileTypes, SearchTypes, AnchorIsTrue, SearchIsTrue, Noticed,
                    [Next]_vars
             PROVE  SearchIsTrue'
  OBVIOUS
<1> USE DEF SearchTypes
<1>1. CASE OpenSearch
  BY <1>1 DEF OpenSearch, NoSearch, SearchIsTrue, AnchorIsTrue
<1>2. CASE LoadManifest
  <2>1. CASE ~Compatible(manifest, search.epoch, search.anchor)
    BY <1>2, <2>1 DEF LoadManifest, FallBack, NoSearch, SearchIsTrue
  <2>2. CASE Compatible(manifest, search.epoch, search.anchor)
    <3>1. /\ manifest \in Manifest /\ search.anchor = manifest /\ manifest.epoch = search.epoch
          /\ search.anchor # None
      BY <2>2 DEF Compatible, FileTypes, Manifests
    <3>2. UNION manifest.segs = UpTo(search.rows, manifest.mark)
      BY <1>2, <3>1 DEF LoadManifest, SearchIsTrue, Lists
    <3>3. UpTo(search.rows, manifest.mark) \cup After(search.rows, manifest.mark) = search.rows
      BY <3>1 DEF UpTo, After, Rows, Row, Manifest
    <3>4. /\ search'.pc = "check" /\ search'.left = manifest.segs /\ search'.rows = search.rows
          /\ search'.got = After(search.rows, manifest.mark) /\ search'.amiss = {}
      BY <1>2, <2>2 DEF LoadManifest, NoSearch
    <3>5. QED
      BY <3>2, <3>3, <3>4 DEF SearchIsTrue
  <2>3. QED
    BY <2>1, <2>2
<1>3. CASE CheckSegment
  <2>1. \/ /\ search'.pc = "map" /\ search'.left = search.left /\ search'.got = search.got
           /\ search'.rows = search.rows /\ search'.amiss = search.amiss
        \/ search'.pc = "sqlite"
    BY <1>3 DEF CheckSegment, FallBack, NoSearch
  <2>2. QED
    BY <1>3, <2>1 DEF CheckSegment, SearchIsTrue
<1>4. CASE MapSegment
  <2> DEFINE s == search.at
  <2>1. /\ s \in search.left /\ (s \in damaged => s \in stale)
        /\ search.got \cup (UNION search.left) \cup (UNION search.amiss) = search.rows
    BY <1>4 DEF MapSegment, SearchIsTrue, Noticed
  <2>2. CASE search' = FallBack
    BY <2>2 DEF FallBack, NoSearch, SearchIsTrue
  <2>3. ASSUME search'.pc = "check", search'.rows = search.rows,
               search'.left = search.left \ {s},
               \/ search'.got = search.got \cup s /\ search'.amiss = search.amiss
               \/ search'.got = search.got /\ search'.amiss = search.amiss \cup {s}
        PROVE  SearchIsTrue'
    <3>1. s \cup (UNION search'.left) = UNION search.left
      BY <2>1, <2>3
    <3>2. search'.got \cup (UNION search'.amiss) = search.got \cup (UNION search.amiss) \cup s
      BY <2>3
    <3>3. search'.got \cup (UNION search'.left) \cup (UNION search'.amiss) = search'.rows
      BY <2>1, <2>3, <3>1, <3>2
    <3>4. QED
      BY <2>3, <3>3 DEF SearchIsTrue
  <2>4. CASE /\ s \in damaged
             /\ search' = [search EXCEPT !.pc = "check", !.left = @ \ {s}, !.at = {},
                                        !.amiss = @ \cup ({s} \cap stale)]
    <3>1. {s} \cap stale = {s}
      BY <2>1, <2>4
    <3>2. QED
      BY <2>3, <2>4, <3>1
  <2>5. CASE search' = [search EXCEPT !.pc = "check", !.left = @ \ {s}, !.at = {},
                                      !.got = @ \cup s]
    BY <2>3, <2>5
  <2>6. QED
    BY <1>4, <2>2, <2>4, <2>5 DEF MapSegment
<1>5. CASE Scored
  BY <1>5 DEF Scored, SearchIsTrue
<1>6. CASE CloseSearch \/ Restart
  BY <1>6 DEF CloseSearch, Restart, NoSearch, SearchIsTrue
<1>7. CASE UNCHANGED search
  BY <1>7 DEF SearchIsTrue
<1>8. QED
  BY <1>1, <1>2, <1>3, <1>4, <1>5, <1>6, <1>7, SearchChanges DEF Search

(* Damage that leaves a verified stat, or a segment in hand, is on record;  *)
(* any other is met by the next check of the file.                          *)
LEMMA NoticedStep ==
    FileTypes /\ SearchTypes /\ Noticed /\ [Next]_vars => Noticed'
<1> SUFFICES ASSUME FileTypes, SearchTypes, Noticed, [Next]_vars PROVE Noticed'
  OBVIOUS
<1> USE DEF FileTypes, SearchTypes, Noticed
<1>1. CASE CheckSegment
  <2>1. PICK s \in search.left :
          IF s \in verified \/ Whole({s})
          THEN /\ verified' = verified \cup {s} /\ UNCHANGED stale
               /\ search' = [search EXCEPT !.pc = "map", !.at = s]
          ELSE stale' = stale \ {s} /\ UNCHANGED verified /\ search' = FallBack
    BY <1>1 DEF CheckSegment
  <2>2. UNCHANGED <<files, damaged>>
    BY <1>1 DEF CheckSegment
  <2>3. CASE s \in verified \/ Whole({s})
    <3>1. s \in damaged => s \in stale
      BY <2>3 DEF Whole
    <3>2. search'.pc = "map" /\ search'.at = s /\ search'.left = search.left
      BY <2>1, <2>3
    <3>3. verified' = verified \cup {s} /\ stale' = stale
      BY <2>1, <2>3
    <3> HIDE DEF SearchTypes
    <3>4. QED
      BY <2>2, <3>1, <3>2, <3>3
  <2>4. CASE ~(s \in verified \/ Whole({s}))
    <3>1. search'.pc = "sqlite" /\ stale' = stale \ {s} /\ verified' = verified
      BY <2>1, <2>4 DEF FallBack, NoSearch
    <3> HIDE DEF SearchTypes
    <3>2. QED
      BY <2>2, <2>4, <3>1
  <2>5. QED
    BY <2>3, <2>4
<1>2. CASE MapSegment
  BY <1>2 DEF MapSegment, FallBack, NoSearch, fileVars
<1>3. CASE OpenSearch \/ LoadManifest \/ Scored \/ CloseSearch
  <2>1. search'.pc # "map"
    <3> HIDE DEF SearchTypes, FileTypes, Noticed
    <3>1. OpenSearch => search'.pc = "manifest"
      BY DEF OpenSearch, NoSearch
    <3>2. CloseSearch => search'.pc = "idle"
      BY DEF CloseSearch, NoSearch
    <3>3. LoadManifest => search'.pc \in {"check", "sqlite"}
      BY DEF LoadManifest, FallBack, NoSearch
    <3>4. Scored => search'.pc # "map"
      BY DEF Scored, SearchTypes
    <3>5. QED
      BY <1>3, <3>1, <3>2, <3>3, <3>4
  <2>2. UNCHANGED fileVars
    BY <1>3 DEF OpenSearch, LoadManifest, Scored, CloseSearch
  <2>3. QED
    BY <2>1, <2>2 DEF fileVars
<1>4. CASE Restart
  BY <1>4 DEF Restart, NoSearch
<1>5. CASE WriteSegment
  BY <1>5 DEF WriteSegment, fileVars
<1>6. CASE CleanFiles
  BY <1>6 DEF CleanFiles, fileVars
<1>7. CASE DamageSegment
  BY <1>7 DEF DamageSegment, InHand
<1>8. CASE DecaySegment
  BY <1>8 DEF DecaySegment, InHand
<1>9. CASE UNCHANGED <<fileVars, search>>
  BY <1>9 DEF fileVars
<1>10. UNCHANGED fileVars \/ CheckSegment \/ Restart \/ WriteSegment \/ CleanFiles
         \/ DamageSegment \/ DecaySegment
  BY FilesChange DEF PublishManifest, Anchor, EditManifest
<1>11. QED
  BY <1>1, <1>2, <1>3, <1>4, <1>5, <1>6, <1>7, <1>8, <1>9, <1>10, SearchChanges DEF Search
-----------------------------------------------------------------------------
(* The number of a set of events that have vectors.                         *)
LEMMA Counted == IndexTypes => Cardinality(Indexed) \in 0..Cardinality(Event)
<1> SUFFICES ASSUME IndexTypes PROVE Cardinality(Indexed) \in 0..Cardinality(Event)
  OBVIOUS
<1>1. Indexed \subseteq Event /\ IsFiniteSet(Event)
  BY IndexAssumption DEF Indexed, IndexTypes
<1>2. /\ IsFiniteSet(Indexed) /\ Cardinality(Indexed) <= Cardinality(Event)
  BY <1>1, FS_Subset
<1>3. Cardinality(Indexed) \in Nat /\ Cardinality(Event) \in Nat
  BY <1>1, <1>2, FS_CardinalityType
<1>4. QED
  BY <1>2, <1>3

(* The steps of the cache leave the pass alone. *)
LEMMA PassChanges ==
    [Next]_vars => \/ \E e \in Event : Ingest(e)
                   \/ Work \/ EmbedFails \/ Maintain \/ Dies
                   \/ \E c \in Chunk : Due(c)
                   \/ UNCHANGED indexVars
BY DEF Next, vars

LEMMA IndexTypesStep == IndexTypes /\ PassSane /\ [Next]_vars => IndexTypes'
<1> SUFFICES ASSUME IndexTypes, PassSane, [Next]_vars PROVE IndexTypes'
  OBVIOUS
<1> USE DEF IndexTypes
<1>1. \/ Behind(coverage) = None
      \/ Behind(coverage) \in [count : 0..Cardinality(Event), current : BOOLEAN]
  BY DEF Behind
<1>2. NoPass \in [pc : {"idle", "prepare", "embed", "record", "build", "cache"},
                  events : SUBSET Event, todo : SUBSET Chunk, failures : 0..Streak,
                  count : 0..Cardinality(Event), moved : BOOLEAN]
  BY IndexAssumption, FS_CardinalityType DEF NoPass
<1>3. ASSUME NEW e \in Event, Ingest(e) PROVE IndexTypes'
  BY <1>1, <1>3 DEF Ingest, Moved
<1>4. CASE StartPass
  BY <1>2, <1>4 DEF StartPass
<1>5. CASE Prepare
  BY <1>1, <1>5 DEF Prepare, Moved, PassSane
<1>6. CASE Select
  <2>1. PICK todo \in SUBSET Pending : pass' = [pass EXCEPT !.pc = "embed", !.todo = todo]
    BY <1>6 DEF Select
  <2>2. Pending \subseteq Chunk
    BY IndexAssumption DEF Pending
  <2>3. QED
    BY <1>6, <2>1, <2>2 DEF Select
<1>7. CASE Embed
  <2>1. PICK c \in pass.todo : /\ waiting' = waiting \ {c}
                               /\ pass' = Moved([pass EXCEPT !.todo = @ \ {c}, !.failures = 0])
    BY <1>7 DEF Embed
  <2>2. 0 \in 0..Streak /\ pass.todo \ {c} \in SUBSET Chunk
    BY IndexAssumption
  <2>3. QED
    BY <1>7, <2>1, <2>2 DEF Embed, Moved
<1>8. CASE EmbedFails
  <2>1. PICK c \in pass.todo :
          /\ waiting' = waiting \cup {c}
          /\ pass' = Moved([pass EXCEPT !.failures = @ + 1,
                              !.todo = IF pass.failures + 1 >= Streak THEN {} ELSE @ \ {c}])
    BY <1>8 DEF EmbedFails
  <2>2. pass.failures + 1 \in 0..Streak
    BY <2>1, IndexAssumption DEF PassSane
  <2>3. (IF pass.failures + 1 >= Streak THEN {} ELSE pass.todo \ {c}) \in SUBSET Chunk
    OBVIOUS
  <2>4. QED
    BY <1>1, <1>8, <2>1, <2>2, <2>3 DEF EmbedFails, Moved
<1>9. CASE Count
  BY <1>9, Counted DEF Count
<1>10. CASE Record
  BY <1>10 DEF Record
<1>11. CASE BuildCache
  BY <1>11 DEF BuildCache
<1>12. CASE EndPass
  BY <1>2, <1>12 DEF EndPass
<1>13. CASE Maintain
  BY <1>13 DEF Maintain
<1>14. CASE Dies
  BY <1>2, <1>14 DEF Dies
<1>15. ASSUME NEW c \in Chunk, Due(c) PROVE IndexTypes'
  BY <1>15 DEF Due
<1>16. CASE UNCHANGED indexVars
  BY <1>16 DEF indexVars
<1>17. QED
  BY <1>3, <1>4, <1>5, <1>6, <1>7, <1>8, <1>9, <1>10, <1>11, <1>12, <1>13, <1>14, <1>15, <1>16,
     PassChanges DEF Work

(* What the steps of the pass do with the table. *)
LEMMA PassSaneStep ==
    VectorTypes /\ BuildTypes /\ IndexTypes /\ PassSane /\ [Next]_vars => PassSane'
<1> SUFFICES ASSUME VectorTypes, BuildTypes, IndexTypes, PassSane, [Next]_vars PROVE PassSane'
  OBVIOUS
<1> USE DEF IndexTypes, PassSane
<1>1. ASSUME NEW e \in Event, Ingest(e) PROVE PassSane'
  BY <1>1 DEF Ingest, Moved, Embedded, cacheVars
<1>2. CASE StartPass
  BY <1>2 DEF StartPass, NoPass, Embedded, cacheVars
<1>3. CASE Prepare
  BY <1>3 DEF Prepare, Moved, Embedded, cacheVars
<1>4. CASE Select
  <2>1. PICK todo \in SUBSET Pending : pass' = [pass EXCEPT !.pc = "embed", !.todo = todo]
    BY <1>4 DEF Select
  <2>2. todo \cap Embedded = {}
    BY DEF Pending
  <2>3. pass'.todo = todo /\ pass'.pc = "embed" /\ pass'.failures = pass.failures
    BY <2>1
  <2>4. UNCHANGED <<vectors, build>> /\ pass.pc = "prepare" /\ pass.failures < Streak
    BY <1>4, IndexAssumption DEF Select, cacheVars
  <2>5. Embedded' = Embedded
    BY <2>4 DEF Embedded
  <2>6. build'.pc = "idle"
    BY <2>4
  <2>7. QED
    BY <2>2, <2>3, <2>4, <2>5, <2>6
<1>5. CASE Embed
  <2>1. PICK c \in pass.todo :
          AddVector(c) /\ pass' = Moved([pass EXCEPT !.todo = @ \ {c}, !.failures = 0])
    BY <1>5 DEF Embed
  <2>2. Embedded' = Embedded \cup {c}
    <3> DEFINE new == [row |-> MaxRow(vectors) + 1, chunk |-> c, ver |-> 0]
    <3>1. vectors' = vectors \cup {new} /\ new.chunk = c
      BY <2>1 DEF AddVector
    <3> HIDE DEF new
    <3>2. QED
      BY <3>1 DEF Embedded
  <2>3. pass'.todo = pass.todo \ {c} /\ pass'.failures = 0 /\ pass'.pc = "embed"
    BY <1>5, <2>1 DEF Embed, Moved
  <2>4. build' = build
    BY <2>1 DEF AddVector
  <2>5. QED
    BY <1>5, <2>2, <2>3, <2>4, IndexAssumption DEF Embed
<1>6. CASE EmbedFails
  <2>1. PICK c \in pass.todo :
          pass' = Moved([pass EXCEPT !.failures = @ + 1,
                              !.todo = IF pass.failures + 1 >= Streak THEN {} ELSE @ \ {c}])
    BY <1>6 DEF EmbedFails
  <2>2. /\ pass'.failures = pass.failures + 1 /\ pass'.pc = "embed"
        /\ pass'.todo = IF pass.failures + 1 >= Streak THEN {} ELSE pass.todo \ {c}
    BY <1>6, <2>1 DEF EmbedFails, Moved
  <2>3. UNCHANGED <<vectors, build>>
    BY <1>6 DEF EmbedFails, cacheVars
  <2>4. QED
    BY <1>6, <2>2, <2>3, IndexAssumption DEF EmbedFails, Embedded
<1>7. CASE Count
  BY <1>7 DEF Count, Embedded, cacheVars
<1>8. CASE Record
  BY <1>8 DEF Record, Embedded, cacheVars
<1>9. CASE BuildCache
  BY <1>9 DEF BuildCache, StartBuild, NoBuild, Embedded
<1>10. CASE EndPass
  BY <1>10 DEF EndPass, NoPass, Embedded, cacheVars
<1>11. CASE Maintain
  <2>1. Embedded' \subseteq Embedded
    <3>1. CASE UpdateVector
      <4>1. PICK v \in vectors : vectors' = (vectors \ {v}) \cup {[v EXCEPT !.ver = @ + 1]}
        BY <3>1 DEF UpdateVector
      <4>2. [v EXCEPT !.ver = @ + 1].chunk = v.chunk
        BY DEF VectorTypes, Row
      <4>3. QED
        BY <4>1, <4>2 DEF Embedded
    <3>2. CASE DeleteVector
      BY <3>2 DEF DeleteVector, Embedded
    <3>3. QED
      BY <1>11, <3>1, <3>2 DEF Maintain
  <2>2. UNCHANGED <<pass, came, build>>
    BY <1>11 DEF Maintain, UpdateVector, DeleteVector
  <2>3. QED
    BY <2>1, <2>2
<1>12. CASE Dies
  BY <1>12 DEF Dies, NoPass, NoBuild, Embedded
<1>13. ASSUME NEW c \in Chunk, Due(c) PROVE PassSane'
  BY <1>13 DEF Due, Embedded, cacheVars
<1>14. CASE (Build \/ Search \/ Restart) /\ UNCHANGED indexVars
  <2>1. UNCHANGED <<vectors, pass, came>>
    BY <1>14 DEF Build, Search, indexVars, ReadManifest, PlanBuild, WriteSegment,
                 PublishManifest, Anchor, CleanFiles, OpenSearch, LoadManifest, CheckSegment,
                 MapSegment, Scored, CloseSearch, Restart
  <2>2. build'.pc # "idle" => build.pc # "idle"
    BY <1>14 DEF Build, Search, ReadManifest, PlanBuild, WriteSegment, PublishManifest,
                 Anchor, CleanFiles, OpenSearch, LoadManifest, CheckSegment, MapSegment,
                 Scored, CloseSearch, Restart
  <2>3. QED
    BY <2>1, <2>2 DEF Embedded
<1>15. CASE (Defer \/ DamageSegment \/ DecaySegment \/ EditManifest) /\ UNCHANGED indexVars
  <2>1. UNCHANGED <<vectors, pass, came>>
    BY <1>15 DEF Defer, DamageSegment, DecaySegment, EditManifest, indexVars
  <2>2. build'.pc # "idle" => build.pc # "idle"
    BY <1>15 DEF Defer, DamageSegment, DecaySegment, EditManifest, NoBuild, BuildTypes, Builds
  <2>3. QED
    BY <2>1, <2>2 DEF Embedded
<1>16. CASE UNCHANGED vars
  BY <1>16 DEF vars, cacheVars, indexVars, Embedded
<1>17. QED
  BY <1>1, <1>2, <1>3, <1>4, <1>5, <1>6, <1>7, <1>8, <1>9, <1>10, <1>11, <1>12, <1>13, <1>14,
     <1>15, <1>16 DEF Next, Work
-----------------------------------------------------------------------------
(* What is counted moves only with a step that publishes, or with           *)
(* maintenance.                                                             *)
LEMMA CountStep ==
    VectorTypes /\ IndexTypes /\ PassSane /\ CountIsTrue /\ [Next]_vars => CountIsTrue'
<1> SUFFICES ASSUME VectorTypes, IndexTypes, PassSane, CountIsTrue, [Next]_vars
             PROVE  CountIsTrue'
  OBVIOUS
<1> USE DEF IndexTypes, CountIsTrue
<1>1. ~Behind(coverage).current \/ Behind(coverage) = None
  BY DEF Behind
<1>2. UNCHANGED <<active, prepared, vectors>> => Indexed' = Indexed
  BY DEF Indexed, Embedded
<1>3. ASSUME NEW e \in Event, Ingest(e) PROVE CountIsTrue'
  BY <1>1, <1>3 DEF Ingest, Moved
<1>4. CASE StartPass
  BY <1>2, <1>4 DEF StartPass, NoPass, cacheVars
<1>5. CASE Prepare
  BY <1>1, <1>5 DEF Prepare, Moved
<1>6. CASE Select
  BY <1>2, <1>6 DEF Select, cacheVars
<1>7. CASE Embed
  BY <1>7 DEF Embed, Moved
<1>8. CASE EmbedFails
  BY <1>1, <1>8 DEF EmbedFails, Moved
<1>9. CASE Count
  <2>1. Indexed' = Indexed /\ UNCHANGED coverage
    BY <1>2, <1>9 DEF Count, cacheVars
  <2>2. CASE coverage # None /\ coverage.current
    <3>1. pass'.pc = "build" /\ touched' = touched
      BY <1>9, <2>2 DEF Count
    <3>2. QED
      BY <2>1, <3>1
  <2>3. CASE ~(coverage # None /\ coverage.current)
    <3>1. pass'.count = Cardinality(Indexed)
      BY <1>9, <2>3 DEF Count
    <3>2. QED
      BY <2>1, <2>3, <3>1
  <2>4. QED
    BY <2>2, <2>3
<1>10. CASE Record
  BY <1>2, <1>10 DEF Record, cacheVars
<1>11. CASE BuildCache
  BY <1>2, <1>11 DEF BuildCache, StartBuild
<1>12. CASE EndPass
  BY <1>2, <1>12 DEF EndPass, NoPass, cacheVars
<1>13. CASE Maintain
  BY <1>13 DEF Maintain
<1>14. CASE Dies
  BY <1>2, <1>14 DEF Dies, NoPass
<1>15. ASSUME NEW c \in Chunk, Due(c) PROVE CountIsTrue'
  BY <1>2, <1>15 DEF Due, cacheVars
<1>16. CASE UNCHANGED indexVars
  <2>1. UNCHANGED vectors \/ Embed \/ Maintain
    BY VectorsChange
  <2>2. UNCHANGED <<active, prepared, pass, coverage, touched>>
    BY <1>16 DEF indexVars
  <2>3. CASE UNCHANGED vectors
    BY <1>2, <2>2, <2>3
  <2>4. QED
    BY <1>7, <1>13, <2>1, <2>3
<1>17. QED
  BY <1>3, <1>4, <1>5, <1>6, <1>7, <1>8, <1>9, <1>10, <1>11, <1>12, <1>13, <1>14, <1>15, <1>16,
     PassChanges DEF Work

-----------------------------------------------------------------------------
(* At the start everything is empty. *)
LEMMA IndexStarts == Init => IndexIInv
<1> SUFFICES ASSUME Init PROVE IndexIInv
  OBVIOUS
<1> USE DEF Init, CacheInit
<1>1. VectorTypes
  BY DEF VectorTypes
<1>2. FileTypes
  BY DEF FileTypes, Manifests, Layouts
<1>3. BuildTypes /\ BuildIsTrue
  BY DEF BuildTypes, Builds, NoBuild, Manifests, Layouts, BuildIsTrue
<1>4. SearchTypes /\ SearchIsTrue /\ AnchorIsTrue /\ Noticed
  BY DEF SearchTypes, NoSearch, Manifests, Layouts, Rows, SearchIsTrue, AnchorIsTrue, Noticed
<1>5. faults \in 0..MaxFaults
  BY SegmentAssumption
<1>6. Cardinality(Event) \in Nat
  BY IndexAssumption, FS_CardinalityType
<1>7. IndexTypes
  <2>1. 0 \in 0..Streak /\ 0 \in 0..Cardinality(Event)
    BY <1>6, IndexAssumption
  <2>2. NoPass \in [pc : {"idle", "prepare", "embed", "record", "build", "cache"},
                     events : SUBSET Event, todo : SUBSET Chunk, failures : 0..Streak,
                     count : 0..Cardinality(Event), moved : BOOLEAN]
    BY <2>1 DEF NoPass
  <2>3. QED
    BY <2>2 DEF IndexTypes
<1>8. PassSane /\ CountIsTrue
  BY DEF PassSane, CountIsTrue, NoPass, NoBuild
<1>9. QED
  BY <1>1, <1>2, <1>3, <1>4, <1>5, <1>7, <1>8 DEF IndexIInv, CacheTypes

LEMMA IndexSteps == IndexIInv /\ [Next]_vars => IndexIInv'
<1> SUFFICES ASSUME IndexIInv, [Next]_vars PROVE IndexIInv'
  OBVIOUS
<1> USE DEF IndexIInv, CacheTypes
<1>1. CacheTypes'
  BY CacheTypesStep
<1>2. AnchorIsTrue' /\ BuildIsTrue'
  BY AnchorStep, BuildStep
<1>3. SearchIsTrue' /\ Noticed'
  BY SearchTrueStep, NoticedStep
<1>4. IndexTypes' /\ PassSane'
  BY IndexTypesStep, PassSaneStep
<1>5. CountIsTrue'
  BY CountStep
<1> QED
  BY <1>1, <1>2, <1>3, <1>4, <1>5

LEMMA IndexAlways == Spec => []IndexIInv
BY IndexStarts, IndexSteps, PTL DEF Spec

(* What a search scores from the cache are exactly the vectors of its own    *)
(* snapshot of the catalog (vector_cache.py, lines 199-226), whatever the    *)
(* builder, its death or maintenance of the table did in between, for any    *)
(* number of vectors, of failures and of segments; save those of a segment   *)
(* that was damaged after the server's last look at the file: under a stat   *)
(* that it had verified, or between the check and the mapping (lines 146-151 *)
(* and 186-190). Damage of any other segment is noticed, and the search      *)
(* falls back.                                                               *)
THEOREM ScoresMatchTheSnapshot == Spec => []ScoresAreExact
<1>1. IndexIInv => ScoresAreExact
  BY DEF IndexIInv, SearchIsTrue, ScoresAreExact
<1>2. QED
  BY <1>1, IndexAlways, PTL

(* A coverage that says it is current counts the active evidence that has a *)
(* vector, for any evidence and any chunks (semantic.py, lines 314-341).    *)
THEOREM CoverageCountsTheIndexed == Spec => []CoverageIsExact
<1>1. IndexIInv => CacheTypeOK
  <2> SUFFICES ASSUME IndexIInv PROVE CacheTypeOK
    OBVIOUS
  <2>1. \A v \in vectors : v.row \in Nat \ {0} /\ v.chunk \in Chunk /\ v.ver \in Nat
    BY DEF IndexIInv, CacheTypes, VectorTypes, Row
  <2>2. QED
    BY <2>1 DEF IndexIInv, CacheTypes, CacheTypeOK, VectorTypes, FileTypes, BuildTypes,
                Builds, SearchTypes
<1>2. IndexIInv => CoverageIsExact
  BY <1>1 DEF IndexIInv, IndexTypes, PassSane, CountIsTrue, CoverageIsExact, TypeOK
<1>3. QED
  BY <1>2, IndexAlways, PTL

-----------------------------------------------------------------------------
(* The model process, for any finite set of threads and any slots, texts and *)
(* faults.                                                                   *)
(* The parts of the types: what is sorted, Boolean, or a number. *)
TypeThreads ==
    thread \in [Thread -> [pc : Running \cup {"idle"}, text : Text \cup {Nothing}, gone : BOOLEAN,
                           got : Answer \cup {Nothing}]]

TypePipe ==
    /\ lock \in Thread \cup {Nothing}
    /\ worker \in {"none", "alive", "hung", "dead"}
    /\ asked \in Text \cup {Nothing} /\ answer \in Answer \cup {Nothing}
    /\ pending \in Text \cup {Nothing}

TypeNumbers == free \in 0..Slots /\ workerFaults \in 0..MaxWorkerFaults

HasText == \A t \in Thread : thread[t].pc # "idle" => thread[t].text \in Text

InferenceTypes == TypeThreads /\ TypePipe /\ HasText

(* Between the lock and its release only its holder speaks to the worker.   *)
Speaks(t) == thread[t].pc \in {"locked", "collect", "send", "wait"}

SpeakersLock == \A t \in Thread : Speaks(t) => lock = t

(* Whoever waits, waits for its own text; whoever is about to send finds    *)
(* nothing outstanding.                                                     *)
WaitsForOwn == \A t \in Thread : thread[t].pc = "wait" => pending = thread[t].text

SendsAlone == \A t \in Thread : thread[t].pc = "send" => pending = Nothing

(* Without a worker there is no pipe, and nobody past the check of it.      *)
HasWorker == \A t \in Thread : thread[t].pc \in {"collect", "send", "wait"} => worker # "none"

NoPipe == worker = "none" => pending = Nothing /\ asked = Nothing /\ answer = Nothing

Speech ==
    /\ SpeakersLock /\ WaitsForOwn /\ SendsAlone /\ HasWorker
    /\ PendingIsTrue /\ NoPipe /\ AnswersMatch

(* Slots: the calls that have one, by number. *)
Busy == {t \in Thread : thread[t].pc # "idle"}

Slotted == TypeNumbers /\ SlotsBound

InferenceIInv == InferenceTypes /\ expired \in BOOLEAN /\ Speech /\ Slotted

-----------------------------------------------------------------------------
(* What is established first, and what the properties need of it. *)
LEMMA InferenceStarts == InferenceInit => InferenceIInv
<1> SUFFICES ASSUME InferenceInit PROVE InferenceIInv
  OBVIOUS
<1>1. \A t \in Thread : thread[t].pc = "idle" /\ thread[t].got = Nothing
  BY DEF InferenceInit, Idle
<1>2. InferenceTypes
  <2>1. Idle \in [pc : Running \cup {"idle"}, text : Text \cup {Nothing}, gone : BOOLEAN,
                  got : Answer \cup {Nothing}]
    BY DEF Idle, Running
  <2>2. QED
    BY <1>1, <2>1 DEF InferenceInit, InferenceTypes, TypeThreads, TypePipe, HasText
<1>3. expired \in BOOLEAN
  BY DEF InferenceInit
<1>4. Speech
  BY <1>1 DEF InferenceInit, Speech, SpeakersLock, Speaks, WaitsForOwn, SendsAlone,
              HasWorker, PendingIsTrue, NoPipe, AnswersMatch
<1>5. Slotted
  <2>1. {t \in Thread : thread[t].pc # "idle"} = {}
    BY <1>1
  <2>2. QED
    BY <2>1, FS_EmptySet, InferenceAssumption DEF InferenceInit, Slotted, TypeNumbers,
            SlotsBound
<1>6. QED
  BY <1>2, <1>3, <1>4, <1>5 DEF InferenceIInv

(* Every step keeps the types; what is asked is a text. *)
LEMMA InferenceTypeStep == InferenceTypes /\ [InferenceNext]_inferenceVars => InferenceTypes'
<1> SUFFICES ASSUME InferenceTypes, [InferenceNext]_inferenceVars PROVE InferenceTypes'
  OBVIOUS
<1> USE DEF InferenceTypes, TypeThreads, TypePipe, HasText, Running, Answer, workerVars,
            embedderVars
<1>1. ASSUME NEW t \in Thread, NEW text \in Text, Admit(t, text) PROVE InferenceTypes'
  BY <1>1 DEF Admit, Idle
<1>2. ASSUME NEW t \in Thread, Cancel(t) PROVE InferenceTypes'
  BY <1>2 DEF Cancel
<1>3. ASSUME NEW t \in Thread, Complete(t) PROVE InferenceTypes'
  BY <1>3 DEF Complete, Idle
<1>4. ASSUME NEW t \in Thread, Lock(t) PROVE InferenceTypes'
  BY <1>4 DEF Lock
<1>5. ASSUME NEW t \in Thread, Check(t) PROVE InferenceTypes'
  BY <1>5 DEF Check, Stop, Fail, Return, Goto
<1>6. ASSUME NEW t \in Thread, Collect(t) PROVE InferenceTypes'
  BY <1>6 DEF Collect, Stop, Fail, Return, Goto
<1>7. ASSUME NEW t \in Thread, Send(t) PROVE InferenceTypes'
  BY <1>7 DEF Send, Stop, Fail, Return, Goto
<1>8. ASSUME NEW t \in Thread, Receive(t) PROVE InferenceTypes'
  BY <1>8 DEF Receive, Stop, Fail, Return
<1>9. ASSUME NEW t \in Thread, TimeOutBusy(t) PROVE InferenceTypes'
  BY <1>9 DEF TimeOutBusy, Fail, Return
<1>10. ASSUME NEW t \in Thread, TimeOutExecution(t) PROVE InferenceTypes'
  BY <1>10 DEF TimeOutExecution, Stop, Fail, Return
<1>11. ASSUME NEW t \in Thread, TimeOutQuery(t) PROVE InferenceTypes'
  BY <1>11 DEF TimeOutQuery, Fail, Return
<1>12. ASSUME NEW ok \in BOOLEAN, Serve(ok) PROVE InferenceTypes'
  BY <1>12 DEF Serve
<1>13. CASE Expire
  BY <1>13 DEF Expire
<1>14. CASE WorkerFault
  BY <1>14 DEF WorkerFault, Breaks
<1>15. CASE UNCHANGED inferenceVars
  BY <1>15 DEF inferenceVars
<1>16. QED
  BY <1>1, <1>2, <1>3, <1>4, <1>5, <1>6, <1>7, <1>8, <1>9, <1>10, <1>11, <1>12, <1>13, <1>14,
     <1>15 DEF InferenceNext, Run, TimeOut

(* Only the holder of the lock speaks, and what it sends it waits for; a    *)
(* call that gives up leaves `pending` behind, so that the next holder      *)
(* collects the answer before it sends.                                     *)
LEMMA SpeechStep == InferenceTypes /\ Speech /\ [InferenceNext]_inferenceVars => Speech'
<1> SUFFICES ASSUME InferenceTypes, Speech, [InferenceNext]_inferenceVars PROVE Speech'
  OBVIOUS
<1> USE InferenceAssumption
    DEF InferenceTypes, TypeThreads, TypePipe, HasText, Running, Answer, Speech,
        SpeakersLock, Speaks, WaitsForOwn, SendsAlone, HasWorker, PendingIsTrue, NoPipe,
        AnswersMatch, workerVars, embedderVars
<1>1. ASSUME NEW t \in Thread, NEW text \in Text, Admit(t, text) PROVE Speech'
  BY <1>1 DEF Admit, Idle
<1>2. ASSUME NEW t \in Thread, Cancel(t) PROVE Speech'
  BY <1>2 DEF Cancel
<1>3. ASSUME NEW t \in Thread, Complete(t) PROVE Speech'
  BY <1>3 DEF Complete, Idle
<1>4. ASSUME NEW t \in Thread, Lock(t) PROVE Speech'
  BY <1>4 DEF Lock
<1>5. ASSUME NEW t \in Thread, Check(t) PROVE Speech'
  BY <1>5 DEF Check, Stop, Fail, Return, Goto
<1>6. ASSUME NEW t \in Thread, Collect(t) PROVE Speech'
  BY <1>6 DEF Collect, Stop, Fail, Return, Goto
<1>7. ASSUME NEW t \in Thread, Send(t) PROVE Speech'
  <2>1. pending = Nothing /\ answer = Nothing
    BY <1>7 DEF Send
  <2>2. \A u \in Thread \ {t} : ~Speaks(u)
    BY <1>7 DEF Send
  <2>3. CASE worker # "dead"
    <3>1. /\ thread' = [thread EXCEPT ![t].pc = "wait"] /\ lock' = lock
          /\ asked' = thread[t].text /\ pending' = thread[t].text
          /\ answer' = Nothing /\ worker' = worker
      BY <1>7, <2>1, <2>3 DEF Send, Goto
    <3>2. SpeakersLock' /\ WaitsForOwn' /\ SendsAlone'
      BY <1>7, <2>2, <3>1 DEF Send
    <3>3. PendingIsTrue' /\ AnswersMatch'
      BY <3>1
    <3>4. NoPipe' /\ HasWorker'
      BY <1>7, <2>2, <3>1 DEF Send
    <3>5. QED
      BY <3>2, <3>3, <3>4
  <2>4. CASE worker = "dead"
    BY <1>7, <2>4 DEF Send, Stop, Fail, Return
  <2>5. QED
    BY <2>3, <2>4
<1>8. ASSUME NEW t \in Thread, Receive(t) PROVE Speech'
  <2>1. CASE answer # Nothing
    BY <1>8, <2>1 DEF Receive, Ended, Return
  <2>2. CASE answer = Nothing
    BY <1>8, <2>2 DEF Receive, Stop, Fail, Return
  <2>3. QED
    BY <2>1, <2>2
<1>9. ASSUME NEW t \in Thread, TimeOutBusy(t) PROVE Speech'
  BY <1>9 DEF TimeOutBusy, Fail, Return
<1>10. ASSUME NEW t \in Thread, TimeOutExecution(t) PROVE Speech'
  BY <1>10 DEF TimeOutExecution, Stop, Fail, Return
<1>11. ASSUME NEW t \in Thread, TimeOutQuery(t) PROVE Speech'
  BY <1>11 DEF TimeOutQuery, Fail, Return
<1>12. ASSUME NEW ok \in BOOLEAN, Serve(ok) PROVE Speech'
  BY <1>12 DEF Serve
<1>13. CASE Expire
  BY <1>13 DEF Expire
<1>14. CASE WorkerFault
  BY <1>14 DEF WorkerFault, Breaks
<1>15. CASE UNCHANGED inferenceVars
  BY <1>15 DEF inferenceVars
<1>16. QED
  BY <1>1, <1>2, <1>3, <1>4, <1>5, <1>6, <1>7, <1>8, <1>9, <1>10, <1>11, <1>12, <1>13, <1>14,
     <1>15 DEF InferenceNext, Run, TimeOut

(* A slot is taken when a call is admitted and given back when its thread   *)
(* completes, and at no other step.                                         *)
LEMMA SlotsStep == InferenceTypes /\ Slotted /\ [InferenceNext]_inferenceVars => Slotted'
<1> SUFFICES ASSUME InferenceTypes, Slotted, [InferenceNext]_inferenceVars PROVE Slotted'
  OBVIOUS
<1>1. IsFiniteSet(Busy) /\ IsFiniteSet(Busy')
  <2>1. Busy \in SUBSET Thread /\ Busy' \in SUBSET Thread
    BY DEF Busy
  <2>2. QED
    BY <2>1, FS_Subset, InferenceAssumption
<1>2. Cardinality(Busy) \in Nat /\ Cardinality(Busy') \in Nat
  BY <1>1, FS_CardinalityType
<1>3. workerFaults' \in 0..MaxWorkerFaults
  <2>1. workerFaults' = workerFaults \/ WorkerFault
    <3>1. ASSUME NEW t \in Thread, NEW text \in Text, Admit(t, text)
          PROVE  workerFaults' = workerFaults
      BY <3>1 DEF Admit
    <3>2. ASSUME NEW t \in Thread, Cancel(t) PROVE workerFaults' = workerFaults
      BY <3>2 DEF Cancel
    <3>3. ASSUME NEW t \in Thread, Complete(t) PROVE workerFaults' = workerFaults
      BY <3>3 DEF Complete
    <3>4. ASSUME NEW t \in Thread, Run(t) PROVE workerFaults' = workerFaults
      BY <3>4 DEF Run, Lock, Check, Collect, Send, Receive
    <3>5. ASSUME NEW t \in Thread, TimeOut(t) PROVE workerFaults' = workerFaults
      BY <3>5 DEF TimeOut, TimeOutBusy, TimeOutExecution, TimeOutQuery
    <3>6. ASSUME NEW ok \in BOOLEAN, Serve(ok) PROVE workerFaults' = workerFaults
      BY <3>6 DEF Serve
    <3>7. ASSUME Expire PROVE workerFaults' = workerFaults
      BY <3>7 DEF Expire
    <3>8. ASSUME UNCHANGED inferenceVars PROVE workerFaults' = workerFaults
      BY <3>8 DEF inferenceVars
    <3>9. QED
      BY <3>1, <3>2, <3>3, <3>4, <3>5, <3>6, <3>7, <3>8 DEF InferenceNext
  <2>2. WorkerFault => workerFaults < MaxWorkerFaults /\ workerFaults' = workerFaults + 1
    BY DEF WorkerFault, Breaks
  <2>3. QED
    BY <2>1, <2>2, InferenceAssumption DEF Slotted, TypeNumbers
<1>4. ASSUME NEW t \in Thread, NEW text \in Text, Admit(t, text) PROVE Slotted'
  <2>1. t \notin Busy /\ Busy' = Busy \cup {t}
    BY <1>4 DEF Busy, Admit, Idle, InferenceTypes, TypeThreads
  <2>2. Cardinality(Busy') = Cardinality(Busy) + 1
    BY <1>1, <2>1, FS_AddElement
  <2>3. free > 0 /\ free' = free - 1
    BY <1>4 DEF Admit
  <2>4. QED
    BY <1>2, <1>3, <2>2, <2>3, InferenceAssumption DEF Busy, Slotted, TypeNumbers, SlotsBound
<1>5. ASSUME NEW t \in Thread, Complete(t) PROVE Slotted'
  <2>1. t \in Busy /\ Busy' = Busy \ {t}
    BY <1>5 DEF Busy, Complete, Idle, InferenceTypes, TypeThreads
  <2>2. Cardinality(Busy') = Cardinality(Busy) - 1
    BY <1>1, <2>1, FS_RemoveElement
  <2>3. free' = free + 1
    BY <1>5 DEF Complete
  <2>4. QED
    BY <1>2, <1>3, <2>2, <2>3, InferenceAssumption DEF Busy, Slotted, TypeNumbers, SlotsBound
<1>6. ASSUME free' = free, Busy' = Busy PROVE Slotted'
  BY <1>3, <1>6 DEF Slotted, TypeNumbers, SlotsBound, Busy
<1>7. ASSUME NEW t \in Thread, Cancel(t) \/ Run(t) \/ TimeOut(t) PROVE Slotted'
  <2>1. free' = free
    BY <1>7 DEF Cancel, Run, Lock, Check, Collect, Send, Receive, TimeOut, TimeOutBusy,
                TimeOutExecution, TimeOutQuery
  <2>2. thread[t].pc # "idle" /\ thread'[t].pc # "idle"
    BY <1>7 DEF Cancel, Run, Lock, Check, Collect, Send, Receive, TimeOut, TimeOutBusy,
                TimeOutExecution, TimeOutQuery, Goto, Fail, Return, InferenceTypes,
                TypeThreads
  <2>3. \A u \in Thread \ {t} : thread'[u] = thread[u]
    BY <1>7 DEF Cancel, Run, Lock, Check, Collect, Send, Receive, TimeOut, TimeOutBusy,
                TimeOutExecution, TimeOutQuery, Goto, Fail, Return, InferenceTypes,
                TypeThreads
  <2>4. Busy' = Busy
    BY <2>2, <2>3 DEF Busy
  <2>5. QED
    BY <1>6, <2>1, <2>4
<1>8. CASE (\E ok \in BOOLEAN : Serve(ok)) \/ Expire \/ WorkerFault \/ UNCHANGED inferenceVars
  <2>1. free' = free /\ thread' = thread
    BY <1>8 DEF Serve, Expire, WorkerFault, Breaks, inferenceVars
  <2>2. QED
    BY <1>6, <2>1 DEF Busy
<1>9. QED
  BY <1>4, <1>5, <1>7, <1>8 DEF InferenceNext

LEMMA ExpiredStep ==
    expired \in BOOLEAN /\ [InferenceNext]_inferenceVars => expired' \in BOOLEAN
BY DEF InferenceNext, inferenceVars, Admit, Cancel, Complete, Run, Lock, Check, Collect,
       Send, Receive, TimeOut, TimeOutBusy, TimeOutExecution, TimeOutQuery, Serve, Expire,
       WorkerFault, Breaks, Stop, workerVars, embedderVars

LEMMA InferenceIInvImplies == InferenceIInv => InferenceInvariant
<1> SUFFICES ASSUME InferenceIInv PROVE InferenceInvariant
  OBVIOUS
<1>1. InferenceTypeOK
  BY DEF InferenceIInv, InferenceTypes, TypeThreads, TypePipe, Slotted, TypeNumbers,
         InferenceTypeOK
<1>2. QED
  BY <1>1 DEF InferenceIInv, Speech, Slotted, InferenceInvariant

(* For any threads, slots, texts and faults: an answer that a call gets is  *)
(* the one to its own text, what the embedder believes of the pipe is so,   *)
(* and slots are neither lost nor exceeded (core/local_worker.py,           *)
(* interfaces/mcp.py dispatch).                                             *)
THEOREM InferenceIsSafe == InferenceSpec => []InferenceInvariant
<1>1. InferenceInit => InferenceIInv
  BY InferenceStarts
<1>2. InferenceIInv /\ [InferenceNext]_inferenceVars => InferenceIInv'
  BY InferenceTypeStep, SpeechStep, SlotsStep, ExpiredStep DEF InferenceIInv
<1>3. InferenceIInv => InferenceInvariant
  BY InferenceIInvImplies
<1>4. QED
  BY <1>1, <1>2, <1>3, PTL DEF InferenceSpec
=============================================================================
