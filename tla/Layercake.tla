------------------------------ MODULE Layercake ------------------------------
(***************************************************************************)
(* layercake (src/layercake): the tool that builds OS images in layers,    *)
(* each an image file made from its parent's by a script, and exports some *)
(* of them to sandfire.  One command runs at a time.  Each command decides *)
(* by .build-hash and file times which layers are up to date.  A command   *)
(* fails or is interrupted at any step, and the files stay as they are.     *)
(* The files of a layer (layer.sh, layer.conf, layer.secrets) are edited   *)
(* at any time, and an edit may be undone; PARENT stays as it is.          *)
(***************************************************************************)
EXTENDS Naturals, Sequences, FiniteSets, SequencesExt

CONSTANTS
    Layers,
    Scratch,      \* the parent of a base layer
    Parent,       \* PARENT of each layer's layer.conf
    Versions,     \* the versions that each layer's files may come in
    Wants,        \* ROOTFS_SIZE_MB of each version, 0 when it names none
    Exports,      \* the versions of each layer with EXPORT=true
    DefaultSize

VARIABLES
    files,   \* the version of each layer's files
    rootfs,  \* each layer's image: none, in the making ("partial"), or whole
    content, \* the layers, and the versions of them, whose scripts made the image
    size,    \* length of each image
    saved,   \* each .build-hash: none, or the version it is of
    newer,   \* layers whose parent's image is newer than their build time
    loose,   \* layers whose hash was not written after all the image is made of
    kernel,  \* whether the file of the base layer's kernel exists
    cmd,     \* the command that runs
    conf,    \* the size that each layer.conf named when it was loaded
    touched, \* layers that were edited since it began, if it builds
    todo,    \* the layers it has still to handle, the one at work first
    forced,  \* layers it builds whatever their status
    step,    \* what it does with the first of todo
    strap,   \* the version whose script ran in a base layer's working directory
    built,   \* layers it has built
    scope,   \* layers the command is about
    dirs,    \* sandfire's directory for each layer, and what it holds
    rows     \* layers with a row in sandfire's table os_images

imageVars == <<rootfs, content, size>>
hashVars == <<saved, newer, loose>>
commandVars == <<cmd, conf, touched, todo, forced, step, strap, built, scope>>
exportVars == <<dirs, rows>>
cakeVars == <<files, imageVars, hashVars, kernel, commandVars, exportVars>>

IsBase(l) == Parent[l] = Scratch

-----------------------------------------------------------------------------
(* graph.go *)

(* GetBuildOrder: the ancestors of a layer and itself, the base first. *)
Chain[l \in Layers] ==
    IF IsBase(l) THEN <<l>> ELSE Append(Chain[Parent[l]], l)

Ancestry(l) == ToSet(Chain[l])

(* What NewLayerGraph accepts: parents it knows, and no cycle. *)
WellFormed ==
    /\ Parent \in [Layers -> Layers \cup {Scratch}]
    /\ \A S \in SUBSET Layers : S # {} => \E l \in S : Parent[l] \notin S

ASSUME CakeAssumption ==
    /\ IsFiniteSet(Layers) /\ Scratch \notin Layers
    /\ WellFormed
    /\ Cardinality({l \in Layers : IsBase(l)}) = 1
    /\ \A l \in Layers :
          /\ "none" \notin Versions[l]
          /\ Wants[l] \in [Versions[l] -> Nat]
          /\ Exports[l] \subseteq Versions[l]
    /\ DefaultSize \in Nat

Base == CHOOSE l \in Layers : IsBase(l)

\* A slip: what has been visited is visited again.
TopologicalSortAgain(rank) == FlattenSeq([i \in DOMAIN rank |-> Chain[rank[i]]])

\* A slip: the layers in the order of the map.
TopologicalSortPlain(rank) == rank

(* visit: a layer that has not been visited follows its parent. *)
Visit(id, sorted) ==
    LET Visited[l \in Layers] ==
            IF l \in ToSet(sorted) THEN sorted
            ELSE Append(IF IsBase(l) THEN sorted ELSE Visited[Parent[l]], l)
    IN Visited[id]

(* TopologicalSort visits the layers in the map's order. *)
TopologicalSort(rank) ==
    LET Sorted[n \in 0 .. Len(rank)] ==
            IF n = 0 THEN <<>> ELSE Visit(rank[n], Sorted[n - 1])
    IN Sorted[Len(rank)]

(* GetDescendants: a depth-first walk over the children.  What it finds below *)
(* a layer when it has come to the n-th of the map's order.                   *)
Descendants(rank, id) ==
    LET Walk[p \in Layers \X (0 .. Len(rank))] ==
            LET l == p[1]
                n == p[2]
            IN IF n = 0 THEN <<>>
               ELSE Walk[<<l, n - 1>>] \o
                    IF Parent[rank[n]] = l
                    THEN <<rank[n]>> \o Walk[<<rank[n], Len(rank)>>] ELSE <<>>
    IN Walk[<<id, Len(rank)>>]

(* GetEffectiveRootfsSizeMB, of sizes named: a layer inherits from its parent, *)
(* a base layer from the default, and is never smaller.                       *)
Effective(named) ==
    LET Size[l \in Layers] ==
            LET inherited == IF IsBase(l) THEN DefaultSize ELSE Size[Parent[l]]
            IN IF named[l] < inherited THEN inherited ELSE named[l]
    IN Size

-----------------------------------------------------------------------------
(* status.go *)

\* A slip: the parent's status is not looked at.
StaleAlone ==
    LET Is[l \in Layers] ==
            \/ rootfs[l] = "none"
            \/ saved[l] # files[l]
            \/ l \in newer
    IN Is

(* getBuildStatusCached: whether each layer has to be built. *)
Stale ==
    LET Is[l \in Layers] ==
            \/ rootfs[l] = "none"
            \/ saved[l] # files[l]
            \/ ~IsBase(l) /\ (Is[Parent[l]] \/ l \in newer)
    IN Is

-----------------------------------------------------------------------------
AnyVersion == UNION {Versions[l] : l \in Layers}

\* A version of the files of every layer.
FileChoices == {v \in [Layers -> AnyVersion] : \A l \in Layers : v[l] \in Versions[l]}

\* The size that each layer.conf names.
Named == [l \in Layers |-> Wants[l][files[l]]]

NoSizes == [l \in Layers |-> 0]

Orders == SetToSeqs(Layers)

BuildSteps == {"kernel", "strap", "format", "copy", "grow",
               "fill", "unmount", "hash"}
ExportSteps == {"rows", "dirs", "put", "register"}

FilesTypeOK ==
    /\ files \in FileChoices
    /\ rootfs \in [Layers -> {"none", "partial", "whole"}]
    /\ content \in [Layers -> SUBSET (Layers \X AnyVersion)]
    /\ size \in [Layers -> Nat]
    /\ saved \in [Layers -> {"none"} \cup AnyVersion]
    /\ newer \subseteq {l \in Layers : ~IsBase(l)}
    /\ loose \subseteq Layers
    /\ kernel \in BOOLEAN
    /\ dirs \in [Layers -> {"none", "partial", "filled"}]
    /\ rows \subseteq Layers

CommandTypeOK ==
    /\ cmd \in {"none", "build", "export"}
    /\ conf \in [Layers -> Nat] /\ touched \subseteq Layers
    /\ todo \in Seq(Layers) /\ Cardinality(ToSet(todo)) = Len(todo)
    /\ forced \subseteq Layers /\ built \subseteq Layers /\ scope \subseteq Layers
    /\ step \in {"next"} \cup BuildSteps \cup ExportSteps
    /\ strap \in {"none"} \cup AnyVersion

TypeOK == FilesTypeOK /\ CommandTypeOK

Init ==
    /\ files \in FileChoices
    /\ rootfs = [l \in Layers |-> "none"]
    /\ content = [l \in Layers |-> {}]
    /\ size = [l \in Layers |-> 0]
    /\ saved = [l \in Layers |-> "none"]
    /\ newer = {} /\ loose = {}
    /\ kernel = FALSE
    /\ cmd = "none" /\ conf = NoSizes /\ touched = {}
    /\ todo = <<>> /\ forced = {} /\ step = "next" /\ strap = "none"
    /\ built = {} /\ scope = {}
    /\ dirs = [l \in Layers |-> "none"]
    /\ rows = {}

-----------------------------------------------------------------------------
(* The commands *)

(* The files of a layer are edited, or an edit is undone: also while a command *)
(* runs, which has read layer.conf and reads layer.sh when its turn comes.     *)
Edit(l, v) ==
    /\ v \in Versions[l] \ {files[l]}
    /\ files' = [files EXCEPT ![l] = v]
    /\ touched' = IF cmd = "build" THEN touched \cup {l} ELSE touched
    /\ UNCHANGED <<imageVars, hashVars, kernel, cmd, conf, todo, forced, step,
                   strap, built, scope, exportVars>>

(* A command loads every layer.conf first. *)
Run(what, layers, anyway) ==
    /\ cmd = "none"
    /\ cmd' = what
    /\ conf' = Named
    /\ touched' = {}
    /\ todo' = layers
    /\ forced' = anyway
    /\ scope' = ToSet(layers)
    /\ step' = IF what = "export" THEN "rows" ELSE "next"
    /\ built' = {}
    /\ UNCHANGED <<files, imageVars, hashVars, kernel, strap, exportVars>>

(* Build: a layer and what it is made from, with or without --force. *)
Build(l, force) == Run("build", Chain[l], IF force THEN {l} ELSE {})

(* BuildAll. *)
BuildAll(rank, force) ==
    Run("build", TopologicalSort(rank), IF force THEN Layers ELSE {})

(* BuildCascade: Build with --force, and then every descendant. *)
BuildCascade(rank, l) ==
    Run("build", Chain[l] \o Descendants(rank, l), {l} \cup ToSet(Descendants(rank, l)))

Exported == {l \in Layers : files[l] \in Exports[l]}

(* Export: refused when an image to export or the kernel does not exist. *)
Export(layers) ==
    /\ Exported # {}
    /\ \A l \in Exported : rootfs[l] # "none"
    /\ kernel
    /\ Run("export", layers, {})

Over ==
    /\ cmd' = "none" /\ conf' = NoSizes /\ touched' = {}
    /\ todo' = <<>> /\ forced' = {} /\ step' = "next" /\ strap' = "none"
    /\ built' = {} /\ scope' = {}

\* What stays while a command goes on.
Loaded == <<cmd, conf, touched, forced, scope>>

Goto(there) == step' = there /\ UNCHANGED <<Loaded, todo, strap, built>>

\* The layer at work is done.
Done(l) ==
    /\ todo' = Tail(todo)
    /\ built' = built \cup {l}
    /\ step' = IF cmd = "export" THEN "put" ELSE "next"
    /\ strap' = "none"
    /\ UNCHANGED Loaded

At(l, here) == cmd # "none" /\ todo # <<>> /\ l = Head(todo) /\ step = here

Finish ==
    /\ cmd # "none" /\ todo = <<>> /\ step \in {"next", "put"}
    /\ Over
    /\ UNCHANGED <<files, imageVars, hashVars, kernel, exportVars>>

(* The program is interrupted: no deferred function runs. *)
Interrupt ==
    /\ cmd # "none"
    /\ Over
    /\ UNCHANGED <<files, imageVars, hashVars, kernel, exportVars>>

-----------------------------------------------------------------------------
(* build.go *)

(* buildLayer unmounts what is mounted under the layer's working directory,  *)
(* and a base layer's image is not.  It is made from nothing, another layer's *)
(* from its parent's.                                                        *)
Start(l) == IF IsBase(l) THEN "kernel" ELSE "copy"

Consider(l) ==
    /\ At(l, "next")
    /\ IF Stale[l] \/ l \in forced
       THEN Goto(Start(l)) \/ Over
       ELSE todo' = Tail(todo) /\ UNCHANGED <<Loaded, step, strap, built>>
    /\ UNCHANGED <<files, imageVars, hashVars, kernel, exportVars>>

(* The kernel is downloaded unless its file is there, cut short or not. *)
DownloadKernel(l) ==
    /\ At(l, "kernel")
    /\ \/ kernel' = TRUE /\ Goto("strap")
       \/ kernel' \in {kernel, TRUE} /\ Over
    /\ UNCHANGED <<files, imageVars, hashVars, exportVars>>

(* debootstrap and layer.sh, in the working directory. *)
Bootstrap(l) ==
    /\ At(l, "strap")
    /\ \/ /\ strap' = files[l] /\ step' = "format"
          /\ UNCHANGED <<Loaded, todo, built>>
       \/ Over
    /\ UNCHANGED <<files, imageVars, hashVars, kernel, exportVars>>

\* The image is written: it is newer than what was made from it.
Begin(l, n) ==
    /\ rootfs' = [rootfs EXCEPT ![l] = "partial"]
    /\ content' = [content EXCEPT ![l] = {}]
    /\ size' = [size EXCEPT ![l] = n]
    /\ newer' = newer \cup {m \in Layers : Parent[m] = l /\ saved[m] # "none"}
    /\ loose' = loose \cup {l}
    /\ UNCHANGED saved

(* createExt4Image: dd to the size that layer.conf names, and then mkfs.ext4, *)
(* which refuses an empty file, and an image that an earlier build left       *)
(* mounted until somebody unmounts it.                                       *)
Format(l) ==
    /\ At(l, "format")
    /\ Begin(l, conf[l])
    /\ \/ conf[l] > 0 /\ Goto("fill")
       \/ Over
    /\ UNCHANGED <<files, kernel, exportVars>>

(* The parent's image, if it has one, is copied, over an image that nothing *)
(* has mounted.                                                             *)
Copy(l) ==
    /\ At(l, "copy")
    /\ \/ /\ rootfs[Parent[l]] # "none"
          /\ Begin(l, size[Parent[l]])
          /\ Goto("grow") \/ Over
       \/ Over /\ UNCHANGED <<imageVars, hashVars>>
    /\ UNCHANGED <<files, kernel, exportVars>>

\* A slip: every layer that names a size gets it.
GrowAlways(l) ==
    /\ At(l, "grow")
    /\ \/ /\ size' = IF conf[l] > 0 THEN [size EXCEPT ![l] = conf[l]] ELSE size
          /\ Goto("fill")
       \/ Over /\ UNCHANGED size
    /\ UNCHANGED <<files, rootfs, content, hashVars, kernel, exportVars>>

(* resizeExt4, of a layer that asks for more than its parent has. *)
Grow(l) ==
    /\ At(l, "grow")
    /\ \/ /\ size' = IF conf[l] > Effective(conf)[Parent[l]]
                     THEN [size EXCEPT ![l] = conf[l]] ELSE size
          /\ Goto("fill")
       \/ Over /\ UNCHANGED size
    /\ UNCHANGED <<files, rootfs, content, hashVars, kernel, exportVars>>

(* The image is mounted.  The working directory is copied into a base layer's, *)
(* or layer.sh run in a derived one.  When that fails the image is unmounted,  *)
(* if it can be.                                                               *)
Fill(l) ==
    /\ At(l, "fill")
    /\ \/ /\ content' = [content EXCEPT ![l] = IF IsBase(l) THEN {<<l, strap>>}
                                             ELSE {<<l, files[l]>>} \cup content[Parent[l]]]
          /\ rootfs' = [rootfs EXCEPT ![l] = IF IsBase(l) THEN "whole" ELSE rootfs[Parent[l]]]
          /\ Goto("unmount")
       \/ Over /\ UNCHANGED <<rootfs, content>>
    /\ UNCHANGED <<files, size, hashVars, kernel, exportVars>>

(* When the image cannot be unmounted, the deferred os.RemoveAll of the     *)
(* directory it is mounted in removes what is in the image.                 *)
Unmount(l) ==
    /\ At(l, "unmount")
    /\ \/ Goto("hash") /\ UNCHANGED <<rootfs, content>>
       \/ /\ Over
          /\ rootfs' = [rootfs EXCEPT ![l] = "partial"]
          /\ content' = [content EXCEPT ![l] = {}]
    /\ UNCHANGED <<files, size, hashVars, kernel, exportVars>>

(* WriteBuildHash: of the files as they are now.  The time is cut to seconds: *)
(* a parent built in the same second counts as newer.  A file that is cut     *)
(* short matches no files, as if there were none.                            *)
Hash(l) ==
    /\ At(l, "hash")
    /\ \/ /\ saved' = [saved EXCEPT ![l] = files[l]]
          /\ newer' \in {newer \ {l}} \cup
                (IF Parent[l] \in built THEN {newer \cup {l}} ELSE {})
          /\ loose' = IF Ancestry(l) \cap touched = {} THEN loose \ {l} ELSE loose
          /\ Done(l)
       \/ /\ \/ UNCHANGED <<saved, newer>>
             \/ saved' = [saved EXCEPT ![l] = "none"] /\ newer' = newer \ {l}
          /\ Over
          /\ UNCHANGED loose
    /\ UNCHANGED <<files, imageVars, kernel, exportVars>>

-----------------------------------------------------------------------------
(* export.go *)

(* cleanupOldExports: the rows of all old exports, and then their directories. *)
DropRows ==
    /\ cmd = "export" /\ step = "rows"
    /\ \/ rows' = {} /\ Goto("dirs")
       \/ Over /\ UNCHANGED rows
    /\ UNCHANGED <<files, imageVars, hashVars, kernel, dirs>>

DropDirs ==
    /\ cmd = "export" /\ step = "dirs"
    /\ \/ \E l \in Layers : /\ dirs[l] # "none"
                            /\ \/ dirs' = [dirs EXCEPT ![l] = "none"] /\ Goto("dirs")
                               \/ dirs' = [dirs EXCEPT ![l] = "partial"] /\ Over
       \/ /\ \A l \in Layers : dirs[l] = "none"
          /\ Goto("put")
          /\ UNCHANGED dirs
    /\ UNCHANGED <<files, imageVars, hashVars, kernel, rows>>

\* A slip: the row comes before the files.
PutLast(l) ==
    /\ At(l, "put")
    /\ rows' = rows \cup {l}
    /\ Goto("register")
    /\ UNCHANGED <<files, imageVars, hashVars, kernel, dirs>>

(* exportLayer: the image and the kernel are copied ... *)
Put(l) ==
    /\ At(l, "put")
    /\ \/ /\ dirs' = [dirs EXCEPT ![l] = "filled"]
          /\ Goto("register")
       \/ /\ dirs' = [dirs EXCEPT ![l] = "partial"]
          /\ Over
    /\ UNCHANGED <<files, imageVars, hashVars, kernel, rows>>

(* ... and then the row written. *)
Register(l) ==
    /\ At(l, "register")
    /\ \/ rows' = rows \cup {l} /\ Done(l)
       \/ Over /\ UNCHANGED rows
    /\ UNCHANGED <<files, imageVars, hashVars, kernel, dirs>>

-----------------------------------------------------------------------------
Work(l) ==
    \/ Consider(l) \/ DownloadKernel(l) \/ Bootstrap(l) \/ Format(l)
    \/ Copy(l) \/ Grow(l) \/ Fill(l) \/ Unmount(l) \/ Hash(l)
    \/ Put(l) \/ Register(l)

Next ==
    \/ \E l \in Layers : Work(l)
    \/ DropRows \/ DropDirs \/ Finish \/ Interrupt
    \/ \E l \in Layers, v \in AnyVersion : Edit(l, v)
    \/ \E l \in Layers, force \in BOOLEAN : Build(l, force)
    \/ \E rank \in Orders :
          \/ \E force \in BOOLEAN : BuildAll(rank, force)
          \/ \E l \in Layers : BuildCascade(rank, l)
    \/ \E layers \in SetToSeqs(Exported) : Export(layers)

Spec == Init /\ [][Next]_cakeVars

-----------------------------------------------------------------------------
(* Properties *)

\* What an image of a layer is made of when it is made of the files as they are.
Current(l) == {<<m, files[m]>> : m \in Ancestry(l)}

\* The build of a layer and of its ancestors came last to its end, with no edit
\* in between.
Settled(l) == Ancestry(l) \cap loose = {}

(* A layer shown as up to date (status.go:28-143) is whole and made by the   *)
(* scripts of its ancestors and its own as they now are, through edits that  *)
(* come and go at any time and builds of parents and children, as far as     *)
(* their last builds were not cut short or edited under: those the hash, of  *)
(* the build before or of other files, takes for current once it matches.    *)
UpToDateMeansCurrent ==
    \A l \in Layers : ~Stale[l] /\ Settled(l) =>
        rootfs[l] = "whole" /\ content[l] = Current(l)

(* A build that succeeds leaves every layer it is about current: those it    *)
(* built, whatever was left of them before, those up to date that it skipped *)
(* and those of --cascade (build.go:32-141), unless it was edited under.     *)
BuildDelivers ==
    [][cmd = "build" /\ todo = <<>> /\ cmd' = "none" =>
          \A l \in scope :
              (\A m \in Ancestry(l) : m \notin touched /\ (m \in built \/ m \notin loose))
              => rootfs[l] = "whole" /\ content[l] = Current(l)]_cakeVars

(* An image that is up to date has the size its layer has by inheritance,    *)
(* which Export registers (graph.go:186-213, build.go:240-246), as layer.conf *)
(* names it now.  But a base layer that names less than the default gets what *)
(* it names (build.go:547), and so does a layer that asks for no more.       *)
SizeEffective ==
    \A l \in Layers : ~Stale[l] /\ Settled(l) =>
        LET effective == Effective(Named)[l] IN
        size[l] = IF effective > DefaultSize THEN effective ELSE Named[Base]

(* sandfire never finds a row without its directory's image and kernel,      *)
(* wherever an export fails or is interrupted (export.go:29-176).            *)
RowHasImage == \A l \in rows : dirs[l] = "filled"
=============================================================================
