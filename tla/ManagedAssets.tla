--------------------------- MODULE ManagedAssets ---------------------------
(***************************************************************************)
(* The asset files millrace ships and later upgrades in a workspace        *)
(* (workspace/managed_assets.rs, the deployment at the end of              *)
(* initialize_workspace_paths in workspace.rs and `millrace upgrade`).     *)
(*                                                                         *)
(* A package carries a set of files.  `init`, and every store the daemon   *)
(* opens, copies the files that are missing and, when there is none,       *)
(* writes a manifest of what the package carries.  `upgrade --apply`       *)
(* compares three versions of each file, the one of the manifest, the one  *)
(* on disk and the one of the package that runs it, writes the files that  *)
(* are safe to replace and the manifest last.  Nothing locks: operators    *)
(* edit the files meanwhile, processes die, and a daemon of an older       *)
(* package may still be running when a newer one is installed.             *)
(*                                                                         *)
(* Assets are numbered in the order of their paths.  A path that an        *)
(* operator turned into a directory is left out.                           *)
(***************************************************************************)
EXTENDS Naturals

CONSTANTS
    AssetCount,     \* managed paths
    Versions,       \* the last package version, released as 1..Versions
    Shipped,        \* version -> asset -> contents, or "none"
    MaxEdits,       \* bound on the operator's edits and removals
    MaxCrashes      \* bound on the processes that die

VARIABLES
    package,    \* the version installed now
    file,       \* asset -> contents; "torn" is a file cut short
    manifest,   \* asset -> contents recorded, or NoManifest
    init,       \* the initialization under way
    upgrade,    \* the upgrade under way
    edits,      \* operator changes so far
    crashes,    \* processes that died so far
    touched,    \* history: assets somebody else than a deployment changed
    lateI,      \* history: assets changed since the initialization looked
    lateU,      \* history: assets changed since the upgrade looked
    half        \* history: versions whose upgrades wrote and have not finished

vars == <<package, file, manifest, init, upgrade, edits, crashes, touched,
          lateI, lateU, half>>

Assets == 1..AssetCount
Content == {"v1", "v2", "own", "torn", "none"}
NoManifest == << >>
Idle == [at |-> "idle", v |-> 0, next |-> 1, todo |-> {}]

TypeOK ==
    /\ package \in 1..Versions
    /\ file \in [Assets -> Content]
    /\ manifest = NoManifest \/ manifest \in [Assets -> Content]
    /\ \A p \in {init, upgrade} :
          /\ p.at \in {"idle", "looking", "missing", "open", "writing"}
          /\ p.v \in 0..Versions
          /\ p.next \in 1..AssetCount + 1
          /\ p.todo \subseteq Assets
    /\ edits \in 0..MaxEdits
    /\ crashes \in 0..MaxCrashes
    /\ touched \subseteq Assets
    /\ lateI \subseteq Assets /\ lateU \subseteq Assets
    /\ half \subseteq 1..Versions

Init ==
    /\ package = 1
    /\ file = [a \in Assets |-> "none"]
    /\ manifest = NoManifest
    /\ init = Idle
    /\ upgrade = Idle
    /\ edits = 0 /\ crashes = 0
    /\ touched = {} /\ lateI = {} /\ lateU = {}
    /\ half = {}

----------------------------------------------------------------------------
\* The package is replaced and operators work on the files.

NewPackage ==
    /\ package < Versions
    /\ package' = package + 1
    /\ UNCHANGED <<file, manifest, init, upgrade, edits, crashes, touched,
                   lateI, lateU, half>>

\* An operator rewrites an asset in place, or removes it.
Edit(a) ==
    /\ edits < MaxEdits
    /\ edits' = edits + 1
    /\ \E c \in {"own", "none"} \ {file[a]} : file' = [file EXCEPT ![a] = c]
    /\ touched' = touched \cup {a}
    /\ lateI' = lateI \cup {a}
    /\ lateU' = lateU \cup {a}
    /\ UNCHANGED <<package, manifest, init, upgrade, crashes, half>>

----------------------------------------------------------------------------
\* The manifest a package would write, and the paths it names.

BaselineManifest(v) == Shipped[v]

Entries(m) == {a \in Assets : m[a] # "none"}

----------------------------------------------------------------------------
\* Initialization: each file is looked at, created and filled in turn, and
\* the manifest is written if there is none.  The process may be of an older
\* package than the one installed.

InitStart ==
    /\ init.at = "idle"
    /\ \E v \in 1..package : init' = [Idle EXCEPT !.at = "looking", !.v = v]
    /\ UNCHANGED <<package, file, manifest, upgrade, edits, crashes, touched,
                   lateI, lateU, half>>

\* write_bytes_if_missing leaves what exists alone, whatever it holds.
InitLooks ==
    /\ init.at = "looking"
    /\ init.next <= AssetCount
    /\ LET a == init.next
       IN IF Shipped[init.v][a] # "none" /\ file[a] = "none"
          THEN /\ init' = [init EXCEPT !.at = "missing"]
               /\ lateI' = lateI \ {a}
          ELSE /\ init' = [init EXCEPT !.next = a + 1]
               /\ UNCHANGED lateI
    /\ UNCHANGED <<package, file, manifest, upgrade, edits, crashes, touched,
                   lateU, half>>

\* fs::write truncates first and fills in the bytes second, into a file that
\* nobody sees any more if another one was renamed over it.  To truncate what
\* was put there since the look is to touch it.
InitCreates ==
    /\ init.at = "missing"
    /\ file' = [file EXCEPT ![init.next] = "torn"]
    /\ touched' = IF file[init.next] = "none"
                  THEN touched ELSE touched \cup {init.next}
    /\ init' = [init EXCEPT !.at = "open"]
    /\ UNCHANGED <<package, manifest, upgrade, edits, crashes, lateI, lateU,
                   half>>

InitFills ==
    /\ init.at = "open"
    /\ file' = [file EXCEPT ![init.next] =
                   IF @ = "torn" THEN Shipped[init.v][init.next] ELSE @]
    /\ init' = [init EXCEPT !.at = "looking", !.next = @ + 1]
    /\ UNCHANGED <<package, manifest, upgrade, edits, crashes, touched, lateI,
                   lateU, half>>

InitEnds ==
    /\ init.at = "looking"
    /\ init.next > AssetCount
    /\ manifest' = IF manifest = NoManifest
                   THEN BaselineManifest(init.v) ELSE manifest
    /\ init' = Idle
    /\ UNCHANGED <<package, file, upgrade, edits, crashes, touched, lateI,
                   lateU, half>>

----------------------------------------------------------------------------
\* The upgrade compares manifest, disk and package for every path that the
\* manifest or the package names.

Named(m, v) == Entries(m) \cup Entries(BaselineManifest(v))

Removed(m, v) == Entries(m) \ Entries(BaselineManifest(v))

\* What --localize-removed may name: anything else ends the command.
Localizable(m, v) == SUBSET Removed(m, v)

\* Defect: a file is replaced whenever the package changed it.
DispositionOfPackage(a, m, v, localized) ==
    LET original == m[a]
        candidate == Shipped[v][a]
        current == file[a]
    IN CASE current = "none" -> "missing"
         [] current # "none" /\ candidate # original -> "safe_package_update"
         [] OTHER -> "unchanged"

Disposition(a, m, v, localized) ==
    LET original == m[a]
        candidate == Shipped[v][a]
        current == file[a]
    IN CASE original = "none" ->
                (CASE current = "none" -> "missing"
                   [] current = candidate -> "already_converged"
                   [] OTHER -> "conflict")
         [] original # "none" /\ candidate = "none" ->
                IF a \in localized THEN "localized_removed" ELSE "conflict"
         [] OTHER ->
                (CASE current = "none" -> "missing"
                   [] current = original /\ candidate = original ->
                          "unchanged"
                   [] current = original /\ candidate # original ->
                          "safe_package_update"
                   [] current \notin {"none", original} /\ candidate = original ->
                          "local_only_modification"
                   [] current = candidate /\ candidate # original ->
                          "already_converged"
                   [] OTHER -> "conflict")

\* A preview with a conflict, or that localizes what is no removed asset,
\* ends the command with nothing written.
UpgradePreview ==
    /\ upgrade.at = "idle"
    /\ manifest # NoManifest
    /\ \E localized \in Localizable(manifest, package) :
          LET D(a) == Disposition(a, manifest, package, localized)
          IN /\ \A a \in Named(manifest, package) : D(a) # "conflict"
             /\ upgrade' = [Idle EXCEPT !.at = "writing", !.v = package,
                  !.todo = {a \in Named(manifest, package) :
                              D(a) \in {"safe_package_update", "missing"}}]
    /\ lateU' = {}
    /\ half' = half \cup {package}
    /\ UNCHANGED <<package, file, manifest, init, edits, crashes, touched,
                   lateI>>

\* A temporary file is written, synced and renamed over the path.
WrittenAtomically(a, c) == [file EXCEPT ![a] = c]

UpgradeWrites ==
    /\ upgrade.at = "writing"
    /\ \E a \in upgrade.todo :
          /\ \A b \in upgrade.todo : a <= b
          /\ file' = WrittenAtomically(a, Shipped[upgrade.v][a])
          /\ upgrade' = [upgrade EXCEPT !.todo = @ \ {a}]
    /\ UNCHANGED <<package, manifest, init, edits, crashes, touched, lateI,
                   lateU, half>>

UpgradeRecords ==
    /\ upgrade.at = "writing"
    /\ upgrade.todo = {}
    /\ manifest' = BaselineManifest(upgrade.v)
    /\ upgrade' = Idle
    /\ half' = {}
    /\ UNCHANGED <<package, file, init, edits, crashes, touched, lateI,
                   lateU>>

----------------------------------------------------------------------------
\* A command dies.  What an initialization had created before its manifest
\* belongs to no recorded baseline, and so counts as touched.

InitDies ==
    /\ init.at # "idle"
    /\ crashes < MaxCrashes
    /\ crashes' = crashes + 1
    /\ touched' = touched
          \cup {a \in Assets : file[a] = "torn"}
          \cup (IF manifest = NoManifest
                THEN {a \in Assets : file[a] # "none"} ELSE {})
    /\ init' = Idle
    /\ UNCHANGED <<package, file, manifest, upgrade, edits, lateI, lateU,
                   half>>

UpgradeDies ==
    /\ upgrade.at # "idle"
    /\ crashes < MaxCrashes
    /\ crashes' = crashes + 1
    /\ upgrade' = Idle
    /\ UNCHANGED <<package, file, manifest, init, edits, touched, lateI,
                   lateU, half>>

Next ==
    \/ NewPackage
    \/ \E a \in Assets : Edit(a)
    \/ InitStart \/ InitLooks \/ InitCreates \/ InitFills \/ InitEnds
    \/ UpgradePreview \/ UpgradeWrites \/ UpgradeRecords
    \/ InitDies \/ UpgradeDies

Spec == Init /\ [][Next]_vars

----------------------------------------------------------------------------
\* What an operator wrote survives every deployment, unless it was written
\* after the command had looked at the path: an upgrade replaces only files
\* that still hold what the manifest recorded, and an initialization only
\* creates files (preview_baseline_upgrade_with_candidate and
\* write_bytes_if_missing).
EditsKept ==
    [][\A a \in Assets :
          file[a] = "own" /\ file'[a] # "own" =>
              \/ edits' = edits + 1
              \/ init' # init /\ a \in lateI
              \/ upgrade' # upgrade /\ a \in lateU]_vars

\* No package ships again what an earlier one shipped and one between replaced.
Steady(a) ==
    \A u, v, w \in 1..Versions :
        u < v /\ v < w /\ Shipped[u][a] = Shipped[w][a] => Shipped[v][a] = Shipped[u][a]

\* The manifest tells the truth about every asset nobody touched: the file is
\* there and holds what the manifest records or, while upgrades are unfinished,
\* what the package of one of them ships.  So the upgrade that is started again,
\* by the same package, finds no conflict (apply_baseline_upgrade writes files
\* first and the manifest last).  The exception is an asset that a package
\* changes back: what an unfinished upgrade wrote passes for the operator's
\* modification then (LocalOnlyModification).
ManifestTrue ==
    manifest # NoManifest =>
        \A a \in Entries(manifest) \ touched : Steady(a) =>
            /\ file[a] # "none"
            /\ \/ file[a] = manifest[a]
               \/ \E v \in half : file[a] = Shipped[v][a]
=============================================================================
