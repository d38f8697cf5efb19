------------------------ MODULE ReleaseCycle_proofs -------------------------
(***************************************************************************)
(* Proofs about ReleaseCycle, for every set of images and of releases and  *)
(* for every number of edits: as long as the tools are run one after the   *)
(* other, a release is described by its manifest, and a board that has one *)
(* stays coherent under any number of development cycles.                  *)
(***************************************************************************)
EXTENDS ReleaseCycle, TLAPS

Images == [app : Nat, base : Nat]
Sets   == [Roles -> Images]

\* All images of a set were compiled from one version of the sources.
OneVersion(images) ==
  \E v \in Images : /\ v.app # 0 /\ v.base # 0
                    /\ \A role \in Roles : images[role] = ImageOf(role, v)

Compiling == [does : {"compile"}, version : Images, left : SUBSET Roles]
Packing   == [does : {"pack"}, release : Releases,
              read : UNION {[R -> Images] : R \in SUBSET Roles},
              left : SUBSET Roles]
Installing == [does : {"install"}, release : Releases, left : SUBSET Roles]

Typed ==
  /\ source \in Images /\ source.app # 0 /\ source.base # 0
  /\ build \in Sets /\ clean \in BOOLEAN
  /\ compile \in {Idle} \cup Compiling
  /\ cycle \in {Idle} \cup [does : {"test", "compile", "plan", "flash"}]
  /\ pack \in {Idle} \cup Packing
  /\ install \in {Idle} \cup Installing
  /\ files \in [Releases -> Sets] /\ manifest \in [Releases -> Sets]
  /\ board \in Sets
  /\ installed \in Releases \cup {NoRelease}

\* One tool at a time; the compilation of a cycle is part of it.
OneTool ==
  /\ pack # Idle => compile = Idle /\ cycle = Idle /\ install = Idle
  /\ install # Idle => compile = Idle /\ cycle = Idle
  /\ cycle # Idle => (compile # Idle <=> cycle.does = "compile")

\* What the build directory holds.
Built ==
  /\ clean => compile = Idle /\ OneVersion(build)
  /\ compile # Idle =>
       /\ compile.version.app # 0 /\ compile.version.base # 0
       /\ \A role \in Roles \ compile.left :
            build[role] = ImageOf(role, compile.version)
  /\ pack # Idle \/ cycle.does \in {"plan", "flash"} => clean

\* Releases that are complete, and the one that is being packed.
Packed ==
  /\ \A release \in Releases :
       manifest[release] # Empty =>
         manifest[release] = files[release] /\ OneVersion(files[release])
  /\ pack # Idle =>
       /\ manifest[pack.release] = Empty
       /\ \A role \in DOMAIN pack.read : pack.read[role] = build[role]
       /\ \A role \in Roles \ pack.left :
            /\ role \in DOMAIN pack.read
            /\ files[pack.release][role] = build[role]

\* What is on the board.
OnBoard ==
  /\ install # Idle =>
       /\ installed = NoRelease /\ manifest[install.release] # Empty
       /\ \A role \in Roles \ install.left :
            board[role] = files[install.release][role]
  /\ cycle # Idle => installed # NoRelease
  /\ cycle.does = "flash" => Planned(manifest[installed])
  /\ installed # NoRelease => manifest[installed] # Empty
  /\ BoardCoherent

Inv == Typed /\ OneTool /\ Built /\ Packed /\ OnBoard

-----------------------------------------------------------------------------
(* Facts about the data.                                                   *)

LEMMA ImagesTyped ==
  /\ None \in Images /\ Torn \in Images /\ Empty \in Sets
  /\ \A v \in Images, role \in Roles : ImageOf(role, v) \in Images
BY CycleAssumption DEF Images, None, Torn, Empty, Sets, ImageOf

\* An image that was compiled is there.
LEMMA CompiledIsThere ==
  ASSUME NEW images \in Sets, OneVersion(images), NEW role \in Roles
  PROVE  images[role] # None /\ images[role].base = images["app"].base
<1>1. PICK v \in Images : /\ v.app # 0 /\ v.base # 0
                          /\ \A r \in Roles : images[r] = ImageOf(r, v)
  BY DEF OneVersion
<1>2. "app" \in Roles
  BY DEF Roles
<1>3. \A r \in Roles : images[r].base = v.base
  BY <1>1 DEF ImageOf, Images
<1> QED
  BY <1>1, <1>2, <1>3 DEF None

LEMMA IdleFacts ==
  /\ Idle.does = "nothing"
  /\ \A t \in Compiling : t # Idle /\ t.does = "compile"
  /\ \A t \in Packing : t # Idle
  /\ \A t \in Installing : t # Idle
BY DEF Idle, Compiling, Packing, Installing

-----------------------------------------------------------------------------
(* The steps.                                                              *)

LEMMA InitInv == Init => Inv
<1> SUFFICES ASSUME Init PROVE Inv
  OBVIOUS
<1> USE ImagesTyped
<1>1. Typed
  <2>1. source \in Images /\ source.app # 0 /\ source.base # 0
    BY DEF Init, Images
  <2>2. build \in Sets /\ board \in Sets
    BY DEF Init
  <2>3. files \in [Releases -> Sets] /\ manifest \in [Releases -> Sets]
    BY DEF Init
  <2> QED
    BY <2>1, <2>2, <2>3 DEF Init, Typed
<1>2. OneTool /\ Built
  BY DEF Init, OneTool, Built, Idle
<1>3. Packed /\ OnBoard
  BY DEF Init, Packed, OnBoard, BoardCoherent, Idle
<1> QED
  BY <1>1, <1>2, <1>3 DEF Inv

LEMMA EditStep ==
  ASSUME Inv, Edit
  PROVE  Inv'
<1>1. Typed'
  BY DEF Inv, Edit, Typed, Images
<1>2. OneTool' /\ Built' /\ Packed' /\ OnBoard'
  BY DEF Inv, Edit, OneTool, Built, OneVersion, Packed, OnBoard, Planned,
         BoardCoherent
<1> QED
  BY <1>1, <1>2 DEF Inv

\* compile.sh on its own, or by a cycle whose tests have passed.
LEMMA CompileStartsStep ==
  ASSUME Alone, Inv, Compile \/ TestsPass
  PROVE  Inv'
<1> DEFINE t == [does |-> "compile", version |-> source, left |-> Roles]
<1>1. /\ compile = Idle /\ compile' = t /\ clean' = FALSE
      /\ UNCHANGED <<source, build, pack, install, files, manifest, board, installed>>
  BY DEF Compile, TestsPass, CompileStarts
<1>2. t \in Compiling
  BY DEF Inv, Typed, Compiling
<1>3. /\ \/ cycle = Idle /\ cycle' = Idle
         \/ cycle # Idle /\ cycle' = [does |-> "compile"]
      /\ pack = Idle /\ install = Idle
  <2>1. CASE Compile
    BY <2>1 DEF Compile, Free
  <2>2. CASE TestsPass
    BY <2>2, IdleFacts DEF TestsPass, Inv, OneTool
  <2> QED
    BY <2>1, <2>2
<1>4. Typed'
  <2>1. compile' \in Compiling /\ clean' \in BOOLEAN
    BY <1>1, <1>2
  <2>2. cycle' \in {Idle} \cup [does : {"test", "compile", "plan", "flash"}]
    BY <1>3
  <2> QED
    BY <1>1, <2>1, <2>2 DEF Inv, Typed
<1>5. OneTool'
  BY <1>1, <1>2, <1>3, IdleFacts DEF Inv, OneTool
<1>6. Built'
  BY <1>1, <1>2, <1>3, IdleFacts DEF Inv, Typed, Built
<1>7. Packed'
  BY <1>1, <1>3 DEF Inv, Packed, OneVersion
<1>8. OnBoard'
  BY <1>1, <1>3, IdleFacts DEF Inv, OnBoard, BoardCoherent
<1> QED
  BY <1>4, <1>5, <1>6, <1>7, <1>8 DEF Inv

LEMMA CompileWritesStep ==
  ASSUME Inv, CompileWrites
  PROVE  Inv'
<1>1. PICK role \in compile.left :
        /\ build' = [build EXCEPT ![role] = ImageOf(role, compile.version)]
        /\ compile' = [compile EXCEPT !.left = @ \ {role}]
  BY DEF CompileWrites
<1>2. /\ compile \in Compiling /\ compile # Idle /\ pack = Idle /\ install = Idle
      /\ cycle.does \notin {"plan", "flash"} /\ ~clean
  BY IdleFacts DEF CompileWrites, Inv, Typed, OneTool, Built
<1>3. UNCHANGED <<source, clean, cycle, pack, install, files, manifest, board, installed>>
  BY DEF CompileWrites
<1>4. /\ compile' \in Compiling /\ compile'.version = compile.version
      /\ compile'.left = compile.left \ {role} /\ role \in Roles
  BY <1>1, <1>2 DEF Compiling
<1>5. Typed'
  BY <1>1, <1>2, <1>3, <1>4, ImagesTyped DEF Inv, Typed, Sets, Compiling
<1>6. OneTool'
  BY <1>2, <1>3, <1>4, IdleFacts DEF Inv, OneTool
<1>7. Built'
  <2>1. \A r \in Roles \ compile'.left : build'[r] = ImageOf(r, compile.version)
    BY <1>1, <1>2, <1>4 DEF Inv, Typed, Built, Sets
  <2> QED
    BY <1>2, <1>3, <1>4, <2>1, IdleFacts DEF Inv, Built
<1>8. Packed'
  BY <1>2, <1>3 DEF Inv, Packed, OneVersion
<1>9. OnBoard'
  BY <1>2, <1>3, IdleFacts DEF Inv, OnBoard, BoardCoherent
<1> QED
  BY <1>5, <1>6, <1>7, <1>8, <1>9 DEF Inv

\* Only a compilation that wrote everything leaves images to be used.
LEMMA CompileEndsStep ==
  ASSUME Inv, CompileEnds
  PROVE  Inv'
<1>1. /\ compile # Idle /\ compile' = Idle /\ clean' = (compile.left = {})
      /\ cycle' = CompileDone(clean')
      /\ UNCHANGED <<source, build, pack, install, files, manifest, board, installed>>
  BY DEF CompileEnds
<1>2. /\ compile \in Compiling /\ pack = Idle /\ install = Idle
      /\ cycle = Idle \/ cycle.does = "compile"
  BY <1>1, IdleFacts DEF Inv, Typed, OneTool
<1>3. /\ cycle' = Idle \/ (cycle' = [does |-> "plan"] /\ clean' /\ cycle # Idle)
      /\ clean' \in BOOLEAN
  BY <1>1, <1>2, IdleFacts DEF CompileDone
<1>4. clean' => OneVersion(build)'
  BY <1>1, <1>2 DEF Inv, Built, OneVersion, Compiling
<1>5. Typed'
  BY <1>1, <1>2, <1>3 DEF Inv, Typed
<1>6. OneTool'
  BY <1>1, <1>2, <1>3, IdleFacts DEF OneTool
<1>7. Built'
  BY <1>1, <1>2, <1>3, <1>4, IdleFacts DEF Built
<1>8. Packed'
  BY <1>1, <1>2 DEF Inv, Packed, OneVersion
<1>9. OnBoard'
  BY <1>1, <1>2, <1>3, IdleFacts DEF Inv, OnBoard, BoardCoherent
<1> QED
  BY <1>5, <1>6, <1>7, <1>8, <1>9 DEF Inv

\* The steps of a cycle between the tests and the board.
LEMMA CycleStep ==
  ASSUME Alone, Inv, Cycle \/ TestsFail \/ Plan
  PROVE  Inv'
<1>1. UNCHANGED <<source, build, clean, compile, pack, install, files, manifest,
                  board, installed>>
  BY DEF Cycle, TestsFail, Plan
<1>2. /\ pack = Idle /\ install = Idle /\ compile = Idle
      /\ cycle' # Idle => installed # NoRelease
      /\ cycle' \in {Idle} \cup [does : {"test", "plan", "flash"}]
      /\ cycle'.does \in {"plan", "flash"} => clean
      /\ cycle'.does = "flash" => Planned(manifest[installed])
  <2>1. CASE Cycle
    BY <2>1 DEF Cycle, Free
  <2>2. CASE TestsFail
    BY <2>2, IdleFacts DEF TestsFail, Inv, OneTool
  <2>3. CASE Plan
    <3>1. cycle.does = "plan" /\ cycle # Idle
      BY <2>3, IdleFacts DEF Plan
    <3>2. pack = Idle /\ install = Idle /\ compile = Idle /\ clean
          /\ installed # NoRelease
      BY <3>1 DEF Inv, OneTool, Built, OnBoard
    <3> QED
      BY <2>3, <3>2, IdleFacts DEF Plan
  <2> QED
    BY <2>1, <2>2, <2>3
<1>3. Typed'
  BY <1>1, <1>2 DEF Inv, Typed
<1>4. OneTool'
  BY <1>1, <1>2 DEF OneTool
<1>5. Built'
  BY <1>1, <1>2 DEF Inv, Built, OneVersion
<1>6. Packed'
  BY <1>1, <1>2 DEF Inv, Packed, OneVersion
<1>7. OnBoard'
  BY <1>1, <1>2 DEF Inv, OnBoard, BoardCoherent, Planned
<1> QED
  BY <1>3, <1>4, <1>5, <1>6, <1>7 DEF Inv

\* The plan that was made for this build still holds when it is written.
LEMMA FlashStep ==
  ASSUME Inv, FlashApp
  PROVE  Inv'
<1>1. /\ cycle.does = "flash" /\ cycle' = Idle /\ cycle # Idle
      /\ UNCHANGED <<source, build, clean, compile, pack, install, files, manifest, installed>>
  BY IdleFacts DEF FlashApp
<1>2. PICK image \in {build["app"], Torn, board["app"]} :
             board' = [board EXCEPT !["app"] = image]
  BY DEF FlashApp
<1>3. /\ pack = Idle /\ install = Idle /\ compile = Idle /\ clean
      /\ OneVersion(build) /\ Planned(manifest[installed])
      /\ installed # NoRelease /\ manifest[installed] # Empty
  BY <1>1 DEF Inv, OneTool, Built, OnBoard
<1>4. "app" \in Roles /\ Others \subseteq Roles /\ "app" \notin Others
  BY CycleAssumption DEF Roles
<1>5. image \in Images
  BY <1>4, ImagesTyped DEF Inv, Typed, Sets
<1>6. Typed'
  BY <1>1, <1>2, <1>5 DEF Inv, Typed, Sets
<1>7. OneTool' /\ Built' /\ Packed'
  BY <1>1, <1>3, IdleFacts DEF Inv, OneTool, Built, Packed, OneVersion
<1>8. BoardCoherent'
  <2> SUFFICES ASSUME NEW role \in Others
               PROVE  /\ board'[role] = manifest[installed][role]
                      /\ board'["app"] # Torn => board'[role].base = board'["app"].base
    BY <1>1 DEF BoardCoherent
  <2>1. board'["app"] = image /\ board'[role] = board[role]
    BY <1>2, <1>4 DEF Inv, Typed, Sets
  <2>2. /\ board[role] = manifest[installed][role]
        /\ board["app"] # Torn => board[role].base = board["app"].base
    BY <1>3 DEF Inv, OnBoard, BoardCoherent
  <2>3. build[role].base = build["app"].base /\ build[role] = board[role]
    BY <1>3, <1>4, <2>2, CompiledIsThere DEF Inv, Typed, Planned
  <2> QED
    BY <1>2, <2>1, <2>2, <2>3
<1>9. OnBoard'
  BY <1>1, <1>3, <1>8, IdleFacts DEF OnBoard
<1> QED
  BY <1>6, <1>7, <1>9 DEF Inv

LEMMA PackageStep ==
  ASSUME Alone, Inv, Package
  PROVE  Inv'
<1>1. PICK release \in Releases :
        /\ Vacant(release)
        /\ pack' = [does |-> "pack", release |-> release,
                    read |-> [r \in {} |-> None], left |-> Roles]
  BY DEF Package
<1>2. /\ compile = Idle /\ cycle = Idle /\ install = Idle /\ pack = Idle /\ clean
      /\ UNCHANGED <<source, build, clean, compile, cycle, install, files,
                     manifest, board, installed>>
  BY DEF Package, Free
<1>3. /\ pack' \in Packing /\ pack'.release = release
      /\ DOMAIN pack'.read = {} /\ pack'.left = Roles
  <2>1. [r \in {} |-> None] \in [{} -> Images] /\ {} \in SUBSET Roles
    OBVIOUS
  <2> QED
    BY <1>1, <2>1 DEF Packing
<1>4. Typed'
  BY <1>2, <1>3 DEF Inv, Typed
<1>5. OneTool' /\ Built'
  BY <1>2, <1>3 DEF Inv, OneTool, Built, OneVersion
<1>6. Packed'
  BY <1>1, <1>2, <1>3 DEF Inv, Packed, OneVersion, Vacant
<1>7. OnBoard'
  BY <1>2, IdleFacts DEF Inv, OnBoard, BoardCoherent
<1> QED
  BY <1>4, <1>5, <1>6, <1>7 DEF Inv

LEMMA PackReadsStep ==
  ASSUME Inv, PackReads
  PROVE  Inv'
<1>1. PICK role \in pack.left :
        pack' = [pack EXCEPT !.read = [r \in DOMAIN @ \cup {role} |->
                                         IF r = role THEN build[role] ELSE @[r]]]
  BY DEF PackReads
<1>2. /\ pack # Idle /\ pack \in Packing
      /\ compile = Idle /\ cycle = Idle /\ install = Idle /\ clean
      /\ UNCHANGED <<source, build, clean, compile, cycle, install, files,
                     manifest, board, installed>>
  BY DEF PackReads, Inv, Typed, OneTool, Built
<1> DEFINE R == DOMAIN pack.read \cup {role}
           read == [r \in R |-> IF r = role THEN build[role] ELSE pack.read[r]]
<1>3. R \in SUBSET Roles /\ read \in [R -> Images]
  BY <1>2 DEF Packing, Inv, Typed, Sets
<1>4. /\ pack' \in Packing /\ pack'.release = pack.release
      /\ pack'.read = read /\ pack'.left = pack.left
  <2>1. pack' = [pack EXCEPT !.read = read]
    BY <1>1
  <2>2. read \in UNION {[Q -> Images] : Q \in SUBSET Roles}
    BY <1>3
  <2> HIDE DEF read
  <2> QED
    BY <1>2, <2>1, <2>2 DEF Packing
<1>5. Typed'
  BY <1>2, <1>4 DEF Inv, Typed
<1>6. OneTool' /\ Built'
  BY <1>2, <1>4, IdleFacts DEF Inv, OneTool, Built, OneVersion
<1>7. Packed'
  BY <1>2, <1>4 DEF Inv, Packed, OneVersion
<1>8. OnBoard'
  BY <1>2, IdleFacts DEF Inv, OnBoard, BoardCoherent
<1> QED
  BY <1>5, <1>6, <1>7, <1>8 DEF Inv

\* What is copied is what was read: nothing compiles in between.
LEMMA PackCopiesStep ==
  ASSUME Inv, PackCopies
  PROVE  Inv'
<1>1. PICK role \in pack.left \cap DOMAIN pack.read :
        /\ files' = [files EXCEPT ![pack.release][role] = build[role]]
        /\ pack' = [pack EXCEPT !.left = @ \ {role}]
  BY DEF PackCopies
<1>2. /\ pack # Idle /\ pack \in Packing
      /\ compile = Idle /\ cycle = Idle /\ install = Idle /\ clean
      /\ UNCHANGED <<source, build, clean, compile, cycle, install,
                     manifest, board, installed>>
  BY DEF PackCopies, Inv, Typed, OneTool, Built
<1>3. /\ pack' \in Packing /\ pack'.release = pack.release
      /\ pack'.read = pack.read /\ pack'.left = pack.left \ {role}
      /\ role \in Roles /\ pack.release \in Releases
  BY <1>1, <1>2 DEF Packing
<1>4. /\ files' \in [Releases -> Sets]
      /\ \A r \in Releases : r # pack.release => files'[r] = files[r]
      /\ files'[pack.release] = [files[pack.release] EXCEPT ![role] = build[role]]
  BY <1>1, <1>3 DEF Inv, Typed, Sets
<1>5. Typed'
  BY <1>2, <1>3, <1>4 DEF Inv, Typed
<1>6. OneTool' /\ Built'
  BY <1>2, <1>3, IdleFacts DEF Inv, OneTool, Built, OneVersion
<1>7. Packed'
  <2>1. ASSUME NEW r \in Releases, manifest[r] # Empty
        PROVE  files'[r] = files[r]
    BY <1>2, <1>4, <2>1 DEF Inv, Packed
  <2>2. \A q \in Roles \ pack'.left : /\ q \in DOMAIN pack.read
                                      /\ files'[pack.release][q] = build[q]
    BY <1>1, <1>2, <1>3, <1>4 DEF Inv, Typed, Sets, Packed
  <2>3. \A r \in Releases : manifest'[r] # Empty' =>
          manifest'[r] = files'[r] /\ OneVersion(files'[r])
    BY <1>2, <2>1 DEF Inv, Packed, Empty
  <2> QED
    BY <1>2, <1>3, <2>2, <2>3 DEF Inv, Packed, OneVersion
<1>8. OnBoard'
  BY <1>2, IdleFacts DEF Inv, OnBoard, BoardCoherent
<1> QED
  BY <1>5, <1>6, <1>7, <1>8 DEF Inv

\* The manifest is written when everything has been copied, or not at all.
LEMMA PackEndsStep ==
  ASSUME Inv, PackEnds \/ PackStops
  PROVE  Inv'
<1>1. /\ pack # Idle /\ pack' = Idle /\ pack \in Packing
      /\ compile = Idle /\ cycle = Idle /\ install = Idle /\ clean
      /\ UNCHANGED <<source, build, clean, compile, cycle, install, files,
                     board, installed>>
  BY DEF PackEnds, PackStops, Inv, Typed, OneTool, Built
<1>2. pack.release \in Releases /\ manifest[pack.release] = Empty
  BY <1>1 DEF Packing, Inv, Packed
<1>3. /\ manifest' \in [Releases -> Sets]
      /\ \A r \in Releases : r # pack.release => manifest'[r] = manifest[r]
      /\ \/ manifest'[pack.release] = Empty
         \/ manifest'[pack.release] = build /\ files[pack.release] = build
  <2>1. CASE PackStops
    BY <1>2, <2>1 DEF PackStops, Inv, Typed
  <2>2. CASE PackEnds
    <3>1. /\ pack.left = {}
          /\ manifest' = [manifest EXCEPT ![pack.release] = pack.read]
      BY <2>2 DEF PackEnds, AllCopied
    <3>2. /\ DOMAIN pack.read = Roles
          /\ \A r \in Roles : /\ pack.read[r] = build[r]
                              /\ files[pack.release][r] = build[r]
      <4>1. DOMAIN pack.read \subseteq Roles
        BY <1>1 DEF Packing
      <4> QED
        BY <1>1, <3>1, <4>1 DEF Inv, Packed
    <3>3. pack.read = build /\ files[pack.release] = build
      <4>1. pack.read = [r \in DOMAIN pack.read |-> pack.read[r]]
        BY <1>1 DEF Packing
      <4>2. build \in Sets /\ files[pack.release] \in Sets
        BY <1>2 DEF Inv, Typed
      <4> QED
        BY <3>2, <4>1, <4>2 DEF Sets
    <3> QED
      BY <1>2, <3>1, <3>3 DEF Inv, Typed
  <2> QED
    BY <2>1, <2>2
<1>4. Typed'
  BY <1>1, <1>3 DEF Inv, Typed
<1>5. OneTool' /\ Built'
  BY <1>1, IdleFacts DEF Inv, OneTool, Built, OneVersion
<1>6. OneVersion(build)
  BY <1>1 DEF Inv, Built
<1>7. Packed'
  <2>1. ASSUME NEW r \in Releases, manifest'[r] # Empty
        PROVE  manifest'[r] = files'[r] /\ OneVersion(files'[r])
    BY <1>1, <1>3, <1>6, <2>1 DEF Inv, Packed
  <2> QED
    BY <1>1, <2>1 DEF Packed, OneVersion, Empty
<1>8. OnBoard'
  <2>1. installed # NoRelease =>
          installed \in Releases /\ installed # pack.release
    BY <1>2 DEF Inv, Typed, OnBoard
  <2>2. installed # NoRelease => manifest'[installed] = manifest[installed]
    BY <1>3, <2>1
  <2> QED
    BY <1>1, <2>2, IdleFacts DEF Inv, OnBoard, BoardCoherent, Empty
<1> QED
  BY <1>4, <1>5, <1>7, <1>8 DEF Inv

LEMMA InstallStep ==
  ASSUME Alone, Inv, Install \/ InstallWrites
  PROVE  Inv'
<1>1. /\ pack = Idle /\ compile = Idle /\ cycle = Idle
      /\ UNCHANGED <<source, build, clean, compile, cycle, pack, files, manifest>>
  BY DEF Install, InstallWrites, Free, Inv, OneTool
<1>2. /\ install' \in Installing /\ board' \in Sets /\ installed' = NoRelease
      /\ manifest[install'.release] # Empty
      /\ \A role \in Roles \ install'.left :
           board'[role] = files[install'.release][role]
  <2>1. CASE Install
    <3>1. PICK release \in Releases :
            /\ manifest[release] # Empty
            /\ install' = [does |-> "install", release |-> release, left |-> Roles]
      BY <2>1 DEF Install
    <3>2. installed' = NoRelease /\ board' = board
      BY <2>1 DEF Install
    <3> QED
      BY <3>1, <3>2 DEF Installing, Inv, Typed
  <2>2. CASE InstallWrites
    <3>1. PICK role \in install.left :
            /\ board' = [board EXCEPT ![role] = files[install.release][role]]
            /\ install' = [install EXCEPT !.left = @ \ {role}]
      BY <2>2 DEF InstallWrites
    <3>2. install \in Installing /\ install # Idle /\ installed' = installed
      BY <2>2 DEF InstallWrites, Inv, Typed
    <3>3. /\ install' \in Installing /\ install'.release = install.release
          /\ install'.left = install.left \ {role} /\ role \in Roles
          /\ install.release \in Releases
      BY <3>1, <3>2 DEF Installing
    <3>4. board' \in Sets
      BY <3>1, <3>3 DEF Inv, Typed, Sets
    <3>5. \A r \in Roles \ install'.left : board'[r] = files[install.release][r]
      BY <3>1, <3>2, <3>3 DEF Inv, Typed, Sets, OnBoard
    <3> QED
      BY <3>2, <3>3, <3>4, <3>5 DEF Inv, OnBoard
  <2> QED
    BY <2>1, <2>2
<1>3. Typed'
  BY <1>1, <1>2 DEF Inv, Typed
<1>4. OneTool' /\ Built'
  BY <1>1, IdleFacts DEF Inv, OneTool, Built, OneVersion
<1>5. Packed'
  BY <1>1 DEF Inv, Packed, OneVersion
<1>6. OnBoard'
  BY <1>1, <1>2, IdleFacts DEF OnBoard, BoardCoherent, Empty
<1> QED
  BY <1>3, <1>4, <1>5, <1>6 DEF Inv

\* A board that was given all of a release was given images of one version.
LEMMA InstallEndsStep ==
  ASSUME Inv, InstallEnds
  PROVE  Inv'
<1>1. /\ install # Idle /\ install \in Installing /\ install' = Idle
      /\ installed' = IF install.left = {} THEN install.release ELSE NoRelease
      /\ UNCHANGED <<source, build, clean, compile, cycle, pack, files, manifest, board>>
  BY DEF InstallEnds, Inv, Typed
<1>2. /\ pack = Idle /\ compile = Idle /\ cycle = Idle
      /\ install.release \in Releases /\ manifest[install.release] # Empty
  BY <1>1 DEF Inv, OneTool, OnBoard, Installing
<1>3. Typed'
  BY <1>1, <1>2 DEF Inv, Typed
<1>4. OneTool' /\ Built'
  BY <1>1, <1>2, IdleFacts DEF Inv, OneTool, Built, OneVersion
<1>5. Packed'
  BY <1>1, <1>2 DEF Inv, Packed, OneVersion
<1>6. BoardCoherent'
  <2> SUFFICES ASSUME installed' # NoRelease, NEW role \in Others
               PROVE  /\ board[role] = manifest[installed'][role]
                      /\ board[role].base = board["app"].base
    BY <1>1 DEF BoardCoherent
  <2>1. /\ installed' = install.release /\ install.left = {}
        /\ role \in Roles /\ "app" \in Roles
    BY <1>1 DEF Roles
  <2>2. /\ \A r \in Roles : board[r] = files[install.release][r]
        /\ manifest[install.release] = files[install.release]
        /\ OneVersion(files[install.release])
    BY <1>1, <1>2, <2>1 DEF Inv, OnBoard, Packed
  <2>3. files[install.release] \in Sets
    BY <1>2 DEF Inv, Typed
  <2> QED
    BY <2>1, <2>2, <2>3, CompiledIsThere
<1>7. OnBoard'
  BY <1>1, <1>2, <1>6, IdleFacts DEF OnBoard, Empty
<1> QED
  BY <1>3, <1>4, <1>5, <1>7 DEF Inv

LEMMA CycleInductive == Alone => (Spec => []Inv)
<1> SUFFICES ASSUME Alone PROVE Spec => []Inv
  OBVIOUS
<1>1. Inv /\ UNCHANGED vars => Inv'
  BY DEF Inv, vars, Typed, OneTool, Built, OneVersion, Packed, OnBoard,
         Planned, BoardCoherent, Empty
<1>2. Inv /\ [Next]_vars => Inv'
  BY <1>1, EditStep, CompileStartsStep, CompileWritesStep, CompileEndsStep,
     CycleStep, FlashStep, PackageStep, PackReadsStep, PackCopiesStep,
     PackEndsStep, InstallStep, InstallEndsStep
  DEF Next
<1> QED
  BY InitInv, <1>2, PTL DEF Spec

-----------------------------------------------------------------------------
(* The properties.                                                         *)

\* Whatever the developer edits and wherever a tool is stopped, a release that
\* has a manifest (candidate_release.py) has exactly the images the manifest
\* describes, all of them compiled.
THEOREM ReleasesAreDescribed == Alone => (Spec => []ReleaseDescribed)
<1> SUFFICES ASSUME Alone PROVE Spec => []ReleaseDescribed
  OBVIOUS
<1>1. Inv => ReleaseDescribed
  BY CompiledIsThere DEF Inv, Typed, Packed, ReleaseDescribed
<1> QED
  BY <1>1, CycleInductive, PTL

\* However many development cycles (dev_cycle.py) follow each other, what runs
\* on the board fits together, although no cycle reads the board.
THEOREM BoardsStayCoherent == Alone => (Spec => []BoardCoherent)
<1> SUFFICES ASSUME Alone PROVE Spec => []BoardCoherent
  OBVIOUS
<1>1. Inv => BoardCoherent
  BY DEF Inv, OnBoard
<1> QED
  BY <1>1, CycleInductive, PTL
=============================================================================
