---------------------------- MODULE MigrateImports ----------------------------
(***************************************************************************)
(* The script that moves import paths to where OpenZeppelin 4 has them.  A *)
(* source file is the sequence of its imports, everything else about it    *)
(* being left alone.  An import is a package and a path in it; a path is a *)
(* directory, a name and whether the name ends in Upgradeable.             *)
(***************************************************************************)
EXTENDS Integers, FiniteSets, SequencesExt

(* The package is called contracts or contracts-upgradeable. *)
At(dir, name) == [dir |-> dir, name |-> name, upgradeable |-> FALSE]

Import(package, file) == [package |-> package, file |-> file]

Moved(from, to, names) ==
  [i \in DOMAIN names |-> <<At(from, names[i]), At(to, names[i])>>]

(* Object.entries(pathUpdates), in the table's order. *)
pathUpdates ==
     Moved("access", "governance", <<"TimelockController">>)
  \o Moved("cryptography", "utils/cryptography", <<"ECDSA", "MerkleProof">>)
  \o Moved("drafts", "utils/cryptography", <<"EIP712">>)
  \o << <<At("drafts", "ERC20Permit"), At("token/ERC20/extensions", "draft-ERC20Permit")>>,
        <<At("drafts", "IERC20Permit"), At("token/ERC20/extensions", "draft-IERC20Permit")>> >>
  \o Moved("GSN", "utils", <<"Context">>)
  \o Moved("introspection", "utils/introspection",
           <<"ERC165Checker", "ERC165", "ERC1820Implementer", "IERC165", "IERC1820Implementer", "IERC1820Registry">>)
  \o Moved("math", "utils/math", <<"Math", "SafeMath", "SignedSafeMath">>)
  \o Moved("payment/escrow", "utils/escrow", <<"ConditionalEscrow", "Escrow", "RefundEscrow">>)
  \o Moved("payment", "finance", <<"PaymentSplitter">>)
  \o Moved("utils", "finance", <<"PaymentSplitter">>)
  \o Moved("payment", "security", <<"PullPayment">>)
  \o Moved("presets", "token/ERC1155/presets", <<"ERC1155PresetMinterPauser">>)
  \o Moved("presets", "token/ERC20/presets", <<"ERC20PresetFixedSupply", "ERC20PresetMinterPauser">>)
  \o Moved("presets", "token/ERC721/presets", <<"ERC721PresetMinterPauserAutoId">>)
  \o Moved("presets", "token/ERC777/presets", <<"ERC777PresetFixedSupply">>)
  \o Moved("proxy", "proxy/beacon", <<"BeaconProxy", "IBeacon">>)
  \o Moved("proxy", "proxy/utils", <<"Initializable">>)
  \o Moved("utils", "proxy/utils", <<"Initializable">>)
  \o Moved("proxy", "proxy/transparent", <<"ProxyAdmin", "TransparentUpgradeableProxy">>)
  \o Moved("proxy", "proxy/beacon", <<"UpgradeableBeacon">>)
  \o << <<At("proxy", "UpgradeableProxy"), At("proxy/ERC1967", "ERC1967Proxy")>> >>
  \o Moved("token/ERC1155", "token/ERC1155/extensions", <<"ERC1155Burnable">>)
  \o Moved("token/ERC1155", "token/ERC1155/utils", <<"ERC1155Holder">>)
  \o Moved("token/ERC1155", "token/ERC1155/extensions", <<"ERC1155Pausable">>)
  \o Moved("token/ERC1155", "token/ERC1155/utils", <<"ERC1155Receiver">>)
  \o Moved("token/ERC1155", "token/ERC1155/extensions", <<"IERC1155MetadataURI">>)
  \o Moved("token/ERC20", "token/ERC20/extensions",
           <<"ERC20Burnable", "ERC20Capped", "ERC20Pausable", "ERC20Snapshot">>)
  \o Moved("token/ERC20", "token/ERC20/utils", <<"SafeERC20", "TokenTimelock">>)
  \o Moved("token/ERC721", "token/ERC721/extensions", <<"ERC721Burnable">>)
  \o Moved("token/ERC721", "token/ERC721/utils", <<"ERC721Holder">>)
  \o Moved("token/ERC721", "token/ERC721/extensions",
           <<"ERC721Pausable", "IERC721Enumerable", "IERC721Metadata">>)
  \o Moved("utils", "utils/structs", <<"EnumerableMap", "EnumerableSet">>)
  \o Moved("utils", "security", <<"Pausable", "ReentrancyGuard">>)
  \o Moved("utils", "utils/math", <<"SafeCast">>)

-----------------------------------------------------------------------------
(* A slip to compare with: the name is left as it is. *)
getUpgradeablePath_plain(file) == file

getUpgradeablePath(file) == [file EXCEPT !.upgradeable = TRUE]

(* String.replace changes the first occurrence only. *)
replace(source, old, new) ==
  LET found == {i \in DOMAIN source : source[i] = old}
  IN  IF found = {} THEN source ELSE [source EXCEPT ![Min(found)] = new]

(* Both packages' imports of one entry. *)
migrate(source, entry) ==
  replace(replace(source, Import("contracts", entry[1]), Import("contracts", entry[2])),
          Import("contracts-upgradeable", getUpgradeablePath(entry[1])),
          Import("contracts-upgradeable", getUpgradeablePath(entry[2])))

(* The entries one after the other. *)
updateImportPaths(source) ==
  LET updated[i \in 0 .. Len(pathUpdates)] ==
        IF i = 0 THEN source
        ELSE LET before == updated[i - 1]
             IN  IF before = <<>> THEN <<>> ELSE migrate(before, pathUpdates[i])
  IN  updated[Len(pathUpdates)]

(* A slip to compare with: files of every kind are collected. *)
Shift_all(tree, walk) ==
  LET top == Head(walk.queue)
  IN  IF walk.queue = <<>> THEN walk
      ELSE IF tree[top].isFile
             THEN [queue |-> Tail(walk.queue), files |-> Append(walk.files, top)]
             ELSE [walk EXCEPT !.queue = Tail(@) \o tree[top].names]

(* The first of the queue is listed, or what it contains is queued. *)
Shift(tree, walk) ==
  LET top == Head(walk.queue)
  IN  IF walk.queue = <<>> THEN walk
      ELSE IF tree[top].isFile
             THEN [queue |-> Tail(walk.queue),
                   files |-> IF tree[top].isSol THEN Append(walk.files, top) ELSE walk.files]
             ELSE [walk EXCEPT !.queue = Tail(@) \o tree[top].names]

(* The .sol files under these paths, breadth first.  A path lies in one    *)
(* directory, so that nothing comes twice below any of them and the queue  *)
(* is empty after at most so many turns.                                   *)
Turns(tree, paths) == Len(paths) * Cardinality(DOMAIN tree)

listFilesRecursively(tree, paths) ==
  LET walk[i \in 0 .. Turns(tree, paths)] ==
        IF i = 0 THEN [queue |-> paths, files |-> <<>>] ELSE Shift(tree, walk[i - 1])
  IN  walk[Turns(tree, paths)].files

(* The files as updateFile leaves them, and whether it wrote. *)
updateFile(files, file) == [files EXCEPT ![file] = updateImportPaths(@)]

Writes(files, file) == updateImportPaths(files[file]) # files[file]

(* One file of main: what it has written and what it lists as updated. *)
Visit(done, file) ==
  [files   |-> updateFile(done.files, file),
   updated |-> IF Writes(done.files, file) THEN Append(done.updated, file) ELSE done.updated]

(* main up to the n-th file of a list.  It can be killed there. *)
Visited(list, n, files) ==
  LET done[i \in 0 .. n] ==
        IF i = 0 THEN [files |-> files, updated |-> <<>>] ELSE Visit(done[i - 1], list[i])
  IN  done[n]

MainUntil(n, tree, paths, files) == Visited(listFilesRecursively(tree, paths), n, files)

main(tree, paths, files) ==
  MainUntil(Len(listFilesRecursively(tree, paths)), tree, paths, files)

-----------------------------------------------------------------------------
(* The imports the script is meant for, and what becomes of each. *)
Outdated ==
  [p \in {"contracts", "contracts-upgradeable"} |->
     {[pathUpdates[i][1] EXCEPT !.upgradeable = (p = "contracts-upgradeable")] : i \in DOMAIN pathUpdates}]

IsOutdated(import) == import.file \in Outdated[import.package]

Successor(import) ==
  LET suffix(file) == [file EXCEPT !.upgradeable = (import.package = "contracts-upgradeable")]
      i == CHOOSE j \in DOMAIN pathUpdates : suffix(pathUpdates[j][1]) = import.file
  IN  [import EXCEPT !.file = suffix(pathUpdates[i][2])]

(* No path the table leads to is one it leads away from, so the order of   *)
(* its entries is of no consequence; and an import is never replaced by    *)
(* anything but its successor, nor any other import touched.  A source     *)
(* that imports nothing twice is through after one run.                    *)
SourceMigrates(source) ==
  LET once == updateImportPaths(source)
  IN  /\ DOMAIN once = DOMAIN source
      /\ \A i \in DOMAIN source :
           \/ once[i] = source[i]
           \/ IsOutdated(source[i]) /\ once[i] = Successor(source[i])
      /\ \A i \in DOMAIN once : ~IsOutdated(once[i]) \/ \E j \in 1..(i - 1) : source[j] = source[i]

(* A run killed between two files and started again ends where one run     *)
(* would have, provided no file imports a path twice; and what it lists as *)
(* updated is what it has changed.                                         *)
MigrationResumes(tree, paths, files) ==
  LET ran == main(tree, paths, files)
  IN  /\ \A n \in 0..Len(listFilesRecursively(tree, paths)) :
           (\A f \in DOMAIN files : IsInjective(files[f])) =>
             main(tree, paths, MainUntil(n, tree, paths, files).files).files = ran.files
      /\ \A f \in DOMAIN files :
           (\E i \in DOMAIN ran.updated : ran.updated[i] = f) <=> ran.files[f] # files[f]
      /\ \A f \in DOMAIN files : ~tree[f].isSol => ran.files[f] = files[f]
=============================================================================
