----------------------------- MODULE Migrations -----------------------------
(***************************************************************************)
(* Migrate (internal/database/migrations.go, migration008.go): a process   *)
(* that starts brings the database of an earlier release to version 8, one *)
(* transaction for each version.  A transaction that is not committed      *)
(* leaves nothing; the process may die or be told to stop anywhere, and    *)
(* several processes may start on one database.                            *)
(*                                                                         *)
(* The schema is the set of objects whose presence or absence some         *)
(* statement depends on.  The data is what the migrations rewrite: the     *)
(* status columns and the clip embeddings.  The assets are those the       *)
(* earlier release had; no task runs before Migrate returns.               *)
(***************************************************************************)
EXTENDS Integers, FiniteSets

CONSTANTS
  Starters,    \* the processes that call Migrate
  OldAssets,      \* the assets in the database
  NoTx,        \* no database
  SampleSize   \* how many copied vectors migration008 compares

Latest == 8
Versions == 0..Latest

Objects == {"assets", "clip_status", "metadata_status", "ocr_status", "boxes", "boxes_idx",
            "embeddings", "vec", "mirror", "cascade"}

\* What an earlier release knew of an asset.
Knowledge == [thumbnail : {"ok", "failed"}, embedded : BOOLEAN]

VARIABLES
  db,          \* the committed database
  known,       \* what each process believes the version to be
  tx,          \* the database as its open transaction sees it, or None
  step,        \* where it is in Migrate
  original,    \* history: what the first release knew of each asset
  applied,     \* history: the migrations that were committed
  overlapped   \* history: two processes were in Migrate at one time

migrationVars == <<db, known, tx, step, original, applied, overlapped>>

Steps == {"out", "read", "next", "record", "commit", "done", "failed"}
Active(p) == step[p] \in {"read", "next", "record", "commit"}

----------------------------------------------------------------------------
\* The database that release v leaves

SchemaOf(v) ==
  (IF v >= 1 THEN {"assets"} ELSE {})
    \cup (IF v \in 2..4 THEN {"embeddings", "vec", "mirror"} ELSE {})
    \cup (IF v >= 3 THEN {"clip_status"} ELSE {})
    \cup (IF v >= 4 THEN {"metadata_status"} ELSE {})
    \cup (IF v \in 5..7 THEN {"vec", "cascade"} ELSE {})
    \cup (IF v >= 6 THEN {"ocr_status", "boxes"} ELSE {})
    \cup (IF v >= 7 THEN {"boxes_idx"} ELSE {})
    \cup (IF v = 8 THEN {"embeddings"} ELSE {})

\* thumbnail_status and clip_status of an asset with that knowledge.
ThumbnailOf(v, k) ==
  IF k.thumbnail = "ok" THEN (IF v >= 3 THEN 1 ELSE 0) ELSE (IF v >= 3 THEN 2 ELSE 1)
ClipOf(v, k) ==
  IF v < 3 THEN 0 ELSE IF k.thumbnail = "failed" THEN 2 ELSE IF k.embedded THEN 1 ELSE 0

Vectors == {"none", "right", "wrong"}
VectorIf(there) == IF there THEN "right" ELSE "none"

Databases ==
  [version : Versions, schema : SUBSET Objects,
   thumbnail : [OldAssets -> 0..2], clip : [OldAssets -> 0..2], metadata : [OldAssets -> 0..1],
   plain : [OldAssets -> Vectors], vec : [OldAssets -> Vectors]]

ASSUME MigrationsAssumption ==
  /\ IsFiniteSet(OldAssets)
  /\ SampleSize \in Nat
  /\ NoTx \notin Databases

Release(v, ks) ==
  [version   |-> v,
   schema    |-> SchemaOf(v),
   thumbnail |-> [a \in OldAssets |-> ThumbnailOf(v, ks[a])],
   clip      |-> [a \in OldAssets |-> ClipOf(v, ks[a])],
   metadata  |-> [a \in OldAssets |-> IF v >= 4 THEN 1 ELSE 0],
   plain     |-> [a \in OldAssets |-> VectorIf(v \in {2, 3, 4, 8} /\ ks[a].embedded)],
   vec       |-> [a \in OldAssets |-> VectorIf(v \in 2..7 /\ ks[a].embedded)]]

\* Before version 2 there are no embeddings, and before 8 no embedding of an
\* asset without a thumbnail.
Possible(v, ks) ==
  \A a \in OldAssets : ks[a].embedded => v >= 2 /\ ks[a].thumbnail = "ok"

MigrationsInit ==
  /\ \E v \in Versions, ks \in [OldAssets -> Knowledge] :
       /\ Possible(v, ks)
       /\ db = Release(v, ks) /\ original = ks
       /\ applied = 1..v
  /\ known = [p \in Starters |-> 0] /\ tx = [p \in Starters |-> NoTx]
  /\ step = [p \in Starters |-> "out"]
  /\ overlapped = FALSE

----------------------------------------------------------------------------
\* The migrations: whether every statement of number v succeeds on d ...

Applicable(v, d) ==
  CASE v = 1 -> TRUE
    [] v = 2 -> "assets" \in d.schema
    [] v = 3 -> {"assets", "embeddings"} \subseteq d.schema /\ "clip_status" \notin d.schema
    [] v = 4 -> "assets" \in d.schema /\ "metadata_status" \notin d.schema
    [] v = 5 -> "embeddings" \in d.schema
    [] v = 6 -> "assets" \in d.schema /\ "ocr_status" \notin d.schema
    [] v = 7 -> "boxes" \in d.schema
    [] v = 8 -> {"vec", "cascade"} \subseteq d.schema /\ "embeddings" \notin d.schema

\* ... and what they do to it.
Migration001(d) == [d EXCEPT !.schema = @ \cup {"assets"}]

Migration002(d) ==
  [d EXCEPT !.schema = @ \cup {"embeddings", "vec", "mirror"},
            !.vec = [a \in OldAssets |-> IF @[a] = "none" THEN d.plain[a] ELSE @[a]]]

\* The statements in their order: thumbnails are remapped before the clip
\* steps of the failed ones fail.
Migration003(d) ==
  LET thumbnail == [a \in OldAssets |-> IF d.thumbnail[a] = 0 THEN 1 ELSE 2]
  IN  [d EXCEPT !.schema = @ \cup {"clip_status"},
                !.thumbnail = thumbnail,
                !.clip = [a \in OldAssets |-> IF thumbnail[a] = 2 THEN 2
                                           ELSE IF d.plain[a] # "none" THEN 1 ELSE 0]]

Migration004(d) ==
  [d EXCEPT !.schema = @ \cup {"metadata_status"}, !.metadata = [a \in OldAssets |-> 1]]

Migration005(d) ==
  [d EXCEPT !.schema = (@ \ {"mirror", "embeddings"}) \cup {"cascade"},
            !.plain = [a \in OldAssets |-> "none"]]

Migration006(d) == [d EXCEPT !.schema = @ \cup {"ocr_status", "boxes"}]

Migration007(d) == [d EXCEPT !.schema = @ \cup {"boxes_idx"}]

\* copyFlatVectors: what decoding the rows of the flat index gives for each
\* vector of the virtual table; "none" is a row that does not fit the layout.
Decodings(d) ==
  {r \in [OldAssets -> Vectors] : \A a \in OldAssets : d.vec[a] = "none" => r[a] = "none"}

\* A sample of what was copied is compared with the virtual table; after a
\* mismatch nothing of it is kept.
Copied(r, sample) ==
  IF \E a \in sample : r[a] = "wrong" THEN [a \in OldAssets |-> "none"] ELSE r
Samples(r) ==
  LET copied == {a \in OldAssets : r[a] # "none"}
  IN  {s \in SUBSET copied : s = copied \/ Cardinality(s) = SampleSize}

\* Bug form: what was not decoded is not read through the virtual table.
Migration008DecodedOnly(d, r, sample) ==
  [d EXCEPT !.schema = (@ \cup {"embeddings"}) \ {"cascade", "vec"},
            !.plain = Copied(r, sample),
            !.vec = [a \in OldAssets |-> "none"]]
\* What could not be copied is read through the virtual table.
Migration008(d, r, sample) ==
  [d EXCEPT !.schema = (@ \cup {"embeddings"}) \ {"cascade", "vec"},
            !.plain = [a \in OldAssets |-> IF Copied(r, sample)[a] # "none"
                                          THEN Copied(r, sample)[a] ELSE d.vec[a]],
            !.vec = [a \in OldAssets |-> "none"]]

\* The databases that migration v may make of d.
Migrated(v, d) ==
  CASE v = 1 -> {Migration001(d)}
    [] v = 2 -> {Migration002(d)}
    [] v = 3 -> {Migration003(d)}
    [] v = 4 -> {Migration004(d)}
    [] v = 5 -> {Migration005(d)}
    [] v = 6 -> {Migration006(d)}
    [] v = 7 -> {Migration007(d)}
    [] v = 8 -> UNION {{Migration008(d, r, s) : s \in Samples(r)} : r \in Decodings(d)}

----------------------------------------------------------------------------
\* Migrate

Advance(p, here, there) == step[p] = here /\ step' = [step EXCEPT ![p] = there]
Locked == \E p \in Starters : tx[p] # NoTx

\* A process starts.
Start(p) ==
  /\ Advance(p, "out", "read")
  /\ overlapped' = (overlapped \/ \E q \in Starters : Active(q))
  /\ UNCHANGED <<db, known, tx, original, applied>>

\* The version is read once, outside of any transaction.
ReadVersion(p) ==
  /\ Advance(p, "read", "next")
  /\ known' = [known EXCEPT ![p] = db.version]
  /\ UNCHANGED <<db, tx, original, applied, overlapped>>

\* The next migration, in a transaction that locks the database at its first
\* write.  The statement that fails rolls it back.
Up(p) ==
  /\ step[p] = "next" /\ known[p] < Latest /\ ~Locked
  /\ IF Applicable(known[p] + 1, db)
       THEN /\ Advance(p, "next", "record")
            /\ \E d \in Migrated(known[p] + 1, db) : tx' = [tx EXCEPT ![p] = d]
       ELSE Advance(p, "next", "failed") /\ UNCHANGED tx
  /\ UNCHANGED <<db, known, original, applied, overlapped>>

\* Bug form: the version is recorded outside of the transaction.
RecordNow(p) ==
  /\ Advance(p, "record", "commit")
  /\ db' = [db EXCEPT !.version = known[p] + 1]
  /\ tx' = [tx EXCEPT ![p].version = known[p] + 1]
  /\ UNCHANGED <<known, original, applied, overlapped>>
\* The version is recorded in the same transaction.
Record(p) ==
  /\ Advance(p, "record", "commit")
  /\ tx' = [tx EXCEPT ![p].version = known[p] + 1]
  /\ UNCHANGED <<db, known, original, applied, overlapped>>

Commit(p) ==
  /\ Advance(p, "commit", "next")
  /\ db' = tx[p] /\ tx' = [tx EXCEPT ![p] = NoTx]
  /\ known' = [known EXCEPT ![p] = @ + 1]
  /\ applied' = applied \cup {known[p] + 1}
  /\ UNCHANGED <<original, overlapped>>

Finish(p) ==
  /\ known[p] = Latest
  /\ Advance(p, "next", "done")
  /\ UNCHANGED <<db, known, tx, original, applied, overlapped>>

\* A statement fails (the disk, the context, a lock that another process
\* holds for longer than the busy timeout), and the transaction is undone.
Fail(p) ==
  /\ Active(p)
  /\ step' = [step EXCEPT ![p] = "failed"]
  /\ tx' = [tx EXCEPT ![p] = NoTx]
  /\ UNCHANGED <<db, known, original, applied, overlapped>>

\* The process ends or dies: its open transaction is undone.
Stop(p) ==
  /\ step[p] # "out"
  /\ step' = [step EXCEPT ![p] = "out"]
  /\ tx' = [tx EXCEPT ![p] = NoTx] /\ known' = [known EXCEPT ![p] = 0]
  /\ UNCHANGED <<db, original, applied, overlapped>>

Migrate(p) == ReadVersion(p) \/ Up(p) \/ Record(p) \/ Commit(p) \/ Finish(p) \/ Fail(p)

MigrationsNext == \E p \in Starters : Start(p) \/ Migrate(p) \/ Stop(p)

MigrationsSpec == MigrationsInit /\ [][MigrationsNext]_migrationVars

----------------------------------------------------------------------------
MigrationsTypeOK ==
  /\ db \in Databases
  /\ known \in [Starters -> Versions]
  /\ tx \in [Starters -> Databases \cup {NoTx}]
  /\ step \in [Starters -> Steps]
  /\ original \in [OldAssets -> Knowledge]
  /\ applied \subseteq 1..Latest
  /\ overlapped \in BOOLEAN

\* The recorded version claims no migration that was not committed, although
\* processes die and race, and a late one writes its version over a later.
VersionHonest == 1..db.version \subseteq applied

\* Where an asset's embedding is.
Stored(d, a) == IF d.version \in 5..7 THEN d.vec[a] ELSE d.plain[a]

\* Through every upgrade the status columns mean what they meant: a
\* thumbnail is made or failed, a clip step is done, failed or open.
StatusesKept ==
  \A a \in OldAssets : /\ db.version >= 1 => db.thumbnail[a] = ThumbnailOf(db.version, original[a])
                    /\ db.version >= 3 => db.clip[a] = ClipOf(db.version, original[a])

\* No embedding is lost on the way into the virtual table and back, and none
\* is changed, unless there are more of them than migration008 compares.
Embedded == {a \in OldAssets : original[a].embedded}
EmbeddingsKept ==
  \A a \in Embedded :
    /\ Stored(db, a) # "none"
    /\ Cardinality(Embedded) <= SampleSize => Stored(db, a) = "right"

\* Every database can be brought to the latest version.
NeverStuck ==
  \A p \in Starters :
    step[p] = "next" /\ known[p] < Latest /\ ~Locked => Applicable(known[p] + 1, db)

\* As long as the processes come one after another, dying wherever they
\* may, an upgrade keeps the data and never gets stuck.
UpgradeSafe == ~overlapped => StatusesKept /\ EmbeddingsKept /\ NeverStuck
=============================================================================
