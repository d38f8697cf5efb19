---------------------------- MODULE ReleaseCycle ----------------------------
(***************************************************************************)
(* The scripts around the firmware: compile.sh, candidate_release.py, which *)
(* packs what was compiled into a release, and dev_cycle.py, which writes  *)
(* nothing but the application to a board that has a release.  Writing a   *)
(* whole release to the board is done by a tool that is not in the         *)
(* repository.  The developer edits the sources at any time.               *)
(*                                                                         *)
(* An image is what it was compiled from: the version of the application   *)
(* (0 in every other image) and of what lies beside it: partitions and     *)
(* core.                                                                   *)
(***************************************************************************)
EXTENDS Naturals

CONSTANTS
  Others,    \* roles beside "app"
  Releases,  \* directories for releases
  NoRelease,
  Moved,     \* versions whose partitions put the application elsewhere
  MaxEdits,  \* bound
  Alone      \* no two of these tools are run at the same time

ASSUME CycleAssumption ==
  /\ "app" \notin Others /\ NoRelease \notin Releases
  /\ MaxEdits \in Nat /\ Alone \in BOOLEAN

Roles == Others \cup {"app"}

VARIABLES
  source, build,       \* versions; the images in the build directory
  clean,               \* the last compilation succeeded
  compile, cycle, pack, install, \* the tools
  files, manifest,     \* of each release: images, and digests of images
  board,               \* its images
  installed            \* the release that the board was given as a whole
vars == <<source, build, clean, compile, cycle, pack, install, files, manifest,
          board, installed>>

None   == [app |-> 0, base |-> 0]                      \* no image
Torn   == [app |-> MaxEdits + 2, base |-> MaxEdits + 2] \* half of one
Empty  == [r \in Roles |-> None]
Idle   == [does |-> "nothing"]
ImageOf(role, version) == IF role = "app" THEN version ELSE [version EXCEPT !.app = 0]

\* Where the application goes, as flash_args says.
Address(image) == IF image.base \in Moved THEN "elsewhere" ELSE "0x10000"

Free == Alone => {compile, cycle, pack, install} = {Idle}

Init ==
  /\ source = [app |-> 1, base |-> 1] /\ build = Empty /\ clean = FALSE
  /\ compile = Idle /\ cycle = Idle /\ pack = Idle /\ install = Idle
  /\ files = [r \in Releases |-> Empty] /\ manifest = [r \in Releases |-> Empty]
  /\ board = Empty /\ installed = NoRelease

Edit ==
  /\ source.app + source.base < MaxEdits + 2
  /\ \E part \in {"app", "base"} : source' = [source EXCEPT ![part] = @ + 1]
  /\ UNCHANGED <<build, clean, compile, cycle, pack, install, files, manifest, board, installed>>

-----------------------------------------------------------------------------
(* compile.sh.  The compiler copies the sketch and then writes one image   *)
(* after the other.                                                        *)

CompileStarts ==
  /\ compile = Idle /\ compile' = [does |-> "compile", version |-> source, left |-> Roles]
  /\ clean' = FALSE

Compile == /\ Free /\ CompileStarts
           /\ UNCHANGED <<source, build, cycle, pack, install, files, manifest, board, installed>>

CompileWrites ==
  /\ compile # Idle
  /\ \E role \in compile.left :
       /\ build' = [build EXCEPT ![role] = ImageOf(role, compile.version)]
       /\ compile' = [compile EXCEPT !.left = @ \ {role}]
  /\ UNCHANGED <<source, clean, cycle, pack, install, files, manifest, board, installed>>

\* Mutant of CompileDone: the cycle goes on whatever the compiler returns.
CompileDoneIgnored(ok) == IF cycle.does = "compile" THEN [does |-> "plan"] ELSE cycle

\* _run_logged() raises when the compiler fails, which ends the cycle.
CompileDone(ok) == IF cycle.does # "compile" THEN cycle
                   ELSE IF ok THEN [does |-> "plan"] ELSE Idle

CompileEnds ==
  /\ compile # Idle /\ compile' = Idle
  /\ clean' = (compile.left = {}) /\ cycle' = CompileDone(clean')
  /\ UNCHANGED <<source, build, pack, install, files, manifest, board, installed>>

-----------------------------------------------------------------------------
(* dev_cycle.py, given the release that is installed as its baseline.      *)

Cycle ==
  /\ Free /\ cycle = Idle /\ installed # NoRelease /\ cycle' = [does |-> "test"]
  /\ UNCHANGED <<source, build, clean, compile, pack, install, files, manifest, board, installed>>

TestsFail ==
  /\ cycle.does = "test" /\ cycle' = Idle
  /\ UNCHANGED <<source, build, clean, compile, pack, install, files, manifest, board, installed>>

TestsPass ==
  /\ cycle.does = "test" /\ cycle' = [does |-> "compile"] /\ CompileStarts
  /\ UNCHANGED <<source, build, pack, install, files, manifest, board, installed>>

\* build_plan(): nothing but the application has changed, and not its address.
Planned(baseline) ==
  /\ \A role \in Others : build[role] = baseline[role]
  /\ Address(build["app"]) = Address(baseline["app"])

Plan ==
  /\ cycle.does = "plan"
  /\ cycle' = IF Planned(manifest[installed]) THEN [does |-> "flash"] ELSE Idle
  /\ UNCHANGED <<source, build, clean, compile, pack, install, files, manifest, board, installed>>

\* esptool opens the file anew; it may be stopped in the middle.
FlashApp ==
  /\ cycle.does = "flash" /\ cycle' = Idle
  /\ \E image \in {build["app"], Torn, board["app"]} : board' = [board EXCEPT !["app"] = image]
  /\ UNCHANGED <<source, build, clean, compile, pack, install, files, manifest, installed>>

-----------------------------------------------------------------------------
(* candidate_release.py, run after a compilation that succeeded.           *)

Vacant(release) == files[release] = Empty /\ manifest[release] = Empty

Package ==
  /\ Free /\ pack = Idle /\ clean
  /\ \E release \in Releases :
       /\ Vacant(release)
       /\ pack' = [does |-> "pack", release |-> release, read |-> [r \in {} |-> None],
                   left |-> Roles]
  /\ UNCHANGED <<source, build, clean, compile, cycle, install, files, manifest, board, installed>>

\* A file is read for its digest, and copied in the next step.
PackReads ==
  /\ pack # Idle /\ DOMAIN pack.read \cap pack.left = {}
  /\ \E role \in pack.left :
       /\ role = "app" => Address(build["app"]) = "0x10000"
       /\ pack' = [pack EXCEPT !.read = [r \in DOMAIN @ \cup {role} |->
                                           IF r = role THEN build[role] ELSE @[r]]]
  /\ UNCHANGED <<source, build, clean, compile, cycle, install, files, manifest, board, installed>>

PackCopies ==
  /\ pack # Idle
  /\ \E role \in pack.left \cap DOMAIN pack.read :
       /\ files' = [files EXCEPT ![pack.release][role] = build[role]]
       /\ pack' = [pack EXCEPT !.left = @ \ {role}]
  /\ UNCHANGED <<source, build, clean, compile, cycle, install, manifest, board, installed>>

\* Mutant of AllCopied: the manifest is written as soon as all files are read.
AllRead(tool) == DOMAIN tool.read = Roles

AllCopied(tool) == tool.left = {}

PackEnds ==
  /\ pack # Idle /\ AllCopied(pack)
  /\ manifest' = [manifest EXCEPT ![pack.release] = pack.read] /\ pack' = Idle
  /\ UNCHANGED <<source, build, clean, compile, cycle, install, files, board, installed>>

\* An error, such as another address of the application, or an interruption:
\* the directory keeps what was copied.
PackStops ==
  /\ pack # Idle /\ pack' = Idle
  /\ UNCHANGED <<source, build, clean, compile, cycle, install, files, manifest, board, installed>>

-----------------------------------------------------------------------------
(* A release is written to the board as a whole.                           *)

Install ==
  /\ Free /\ install = Idle
  /\ \E release \in Releases :
       /\ manifest[release] # Empty
       /\ install' = [does |-> "install", release |-> release, left |-> Roles]
  /\ installed' = NoRelease
  /\ UNCHANGED <<source, build, clean, compile, cycle, pack, files, manifest, board>>

InstallWrites ==
  /\ install # Idle
  /\ \E role \in install.left :
       /\ board' = [board EXCEPT ![role] = files[install.release][role]]
       /\ install' = [install EXCEPT !.left = @ \ {role}]
  /\ UNCHANGED <<source, build, clean, compile, cycle, pack, files, manifest, installed>>

InstallEnds ==
  /\ install # Idle /\ install' = Idle
  /\ installed' = IF install.left = {} THEN install.release ELSE NoRelease
  /\ UNCHANGED <<source, build, clean, compile, cycle, pack, files, manifest, board>>

Next ==
  \/ Edit
  \/ Compile \/ CompileWrites \/ CompileEnds
  \/ Cycle \/ TestsFail \/ TestsPass \/ Plan \/ FlashApp
  \/ Package \/ PackReads \/ PackCopies \/ PackEnds \/ PackStops
  \/ Install \/ InstallWrites \/ InstallEnds

Spec == Init /\ [][Next]_vars

-----------------------------------------------------------------------------
(* Whatever is edited in between, and whichever tool fails where.          *)

\* What a manifest says of a release is what lies beside it, for every image
\* (candidate_release.py:57-95): a release without a manifest is not one.
ReleaseDescribed ==
  \A release \in Releases :
    manifest[release] # Empty =>
      manifest[release] = files[release] /\ \A role \in Roles : files[release][role] # None

\* The manifest that dev_cycle.py compares with, in place of the board it does
\* not read (dev_cycle.py:128-140), says what lies beside the application on
\* that board; and after any number of cycles on top of it the application, if
\* it is whole, was compiled with the partitions and the core it runs with.
BoardCoherent ==
  installed # NoRelease =>
    \A role \in Others :
      /\ board[role] = manifest[installed][role]
      /\ board["app"] # Torn => board[role].base = board["app"].base
=============================================================================
