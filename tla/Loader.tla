------------------------------- MODULE Loader -------------------------------
(***************************************************************************)
(* The recursive loader: a file and everything it imports become one list  *)
(* of blocks, and the modules of that list one list of named protocols and *)
(* case suites.  Files is what is on disk: a function from paths to the    *)
(* blocks the parser makes of them, a path that is not in its domain       *)
(* cannot be read.  The loader over an uploaded bundle is the same walk    *)
(* over normalised paths.                                                  *)
(*                                                                         *)
(* A path is a sequence of its parts.  The walk carries the set of file    *)
(* and instance pairs it has loaded, in and out, and the stack of files it *)
(* is inside of.                                                           *)
(***************************************************************************)
EXTENDS Document, SequencesExt

(***************************************************************************)
(* normalize_virtual_path: "" and "." are dropped, ".." removes the part   *)
(* before it and may not leave the bundle.                                 *)
(***************************************************************************)
NormalizeVirtualPath(base, path) ==
  LET step(acc, part) ==
        IF acc = None THEN None
        ELSE IF part \in {"", "."} THEN acc
        ELSE IF part = ".." THEN IF acc[1] = <<>> THEN None ELSE Some(Front(acc[1]))
        ELSE IF part = "c:" THEN None
        ELSE Some(Append(acc[1], part))
      r == FoldLeft(step, Some(<<>>), base \o path)
  IN IF r = Some(<<>>) THEN None ELSE r

(* import_only, the alias and import_instance: how an import is configured. *)
ImportIsValid(b) ==
  /\ b.labels # <<>>
  /\ DOMAIN b.attrs \subseteq {"as", "only"}
  /\ "only" \in DOMAIN b.attrs => IsStringArray(b.attrs["only"])
Alias(b) ==
  IF "as" \in DOMAIN b.attrs /\ IsString(b.attrs["as"]) THEN Some(b.attrs["as"].v)
  ELSE IF Len(b.labels) > 1 THEN Some(b.labels[2]) ELSE None
Only(b) ==
  IF "only" \in DOMAIN b.attrs THEN Some(ToSet(StringsOf(b.attrs["only"]))) ELSE None
Instance(b) == [alias |-> OrElse(Alias(b), ""), only |-> OrElse(Only(b), {})]
RootInstance == [alias |-> "root", only |-> {"root"}]

(* retain: of the protocols and case suites, the ones `only` names. *)
Retained(blocks, only) ==
  IF only = None THEN blocks
  ELSE SelectSeq(blocks, LAMBDA b : \/ b.name \notin {"protocol", "cases"}
                                    \/ b.labels # <<>> /\ b.labels[1] \in only[1])
(* The alias wraps what was imported in a module block. *)
Aliased(blocks, alias) ==
  IF alias = None THEN blocks
  ELSE <<[name |-> "module", labels |-> alias, attrs |-> <<>>, blocks |-> blocks]>>

(***************************************************************************)
(* load_recursive / load_virtual_recursive and expand_imports.  The result *)
(* is [error, blocks, loaded]; error is "" when there is none.             *)
(***************************************************************************)
Failed(error, loaded) == [error |-> error, blocks |-> <<>>, loaded |-> loaded]

RECURSIVE ExpandImports(_, _, _, _, _)
(* A faulty order: what is loaded already is not looked for on the stack. *)
LoadStackLast(files, path, loaded, stack, instance) ==
  IF <<path, instance>> \in loaded THEN [error |-> "", blocks |-> <<>>, loaded |-> loaded]
  ELSE IF Contains(stack, path) THEN Failed("cycle", loaded)
  ELSE IF path \notin DOMAIN files THEN Failed("missing", loaded)
  ELSE ExpandImports(files, files[path], loaded \cup {<<path, instance>>},
                     Append(stack, path), Front(path))
Load(files, path, loaded, stack, instance) ==
  IF Contains(stack, path) THEN Failed("cycle", loaded)
  ELSE IF <<path, instance>> \in loaded THEN [error |-> "", blocks |-> <<>>, loaded |-> loaded]
  ELSE IF path \notin DOMAIN files THEN Failed("missing", loaded)
  ELSE ExpandImports(files, files[path], loaded \cup {<<path, instance>>},
                     Append(stack, path), Front(path))

ExpandImports(files, blocks, loaded, stack, base) ==
  LET import(acc, b) ==
        LET target == NormalizeVirtualPath(base, b.labels[1])
            r == Load(files, target[1], acc.loaded, stack, Instance(b))
        IN IF ~ImportIsValid(b) THEN Failed("import", acc.loaded)
           ELSE IF target = None THEN Failed("path", acc.loaded)
           ELSE IF r.error # "" THEN r
           ELSE IF Alias(b) = Some("") THEN Failed("alias", r.loaded)
           ELSE [r EXCEPT !.blocks = acc.blocks \o Aliased(Retained(@, Only(b)), Alias(b))]
      other(acc, b) ==
        LET r == ExpandImports(files, b.blocks, acc.loaded, stack, base)
        IN IF r.error # "" THEN r
           ELSE [r EXCEPT !.blocks = Append(acc.blocks, [b EXCEPT !.blocks = r.blocks])]
      step(acc, b) ==
        IF acc.error # "" THEN acc
        ELSE IF b.name = "import" THEN import(acc, b) ELSE other(acc, b)
  IN FoldLeft(step, [error |-> "", blocks |-> <<>>, loaded |-> loaded], blocks)

(* load_blocks and load_blocks_from_sources *)
LoadBlocks(files, root) == Load(files, root, {}, <<>>, RootInstance)

(***************************************************************************)
(* expand_modules and interpret: what is inside a module block is lifted   *)
(* out, the names of its protocols and case suites prefixed by the names   *)
(* of the modules around them; two protocols of one name are an error.     *)
(* A name is a sequence of its parts.                                      *)
(***************************************************************************)
RECURSIVE ExpandModules(_, _)
ExpandModules(blocks, prefix) ==
  LET valid(b) == b.name = "module" => b.attrs = <<>> /\ Len(b.labels) = 1
      lifted(b) == IF b.name = "module" THEN ExpandModules(b.blocks, prefix \o b.labels)
                   ELSE Some(<<[b EXCEPT !.labels =
                                  IF b.name \in {"protocol", "cases"} /\ @ # <<>>
                                  THEN <<Append(prefix, @[1])>> ELSE @]>>)
  IN IF \E i \in DOMAIN blocks : ~valid(blocks[i]) \/ lifted(blocks[i]) = None THEN None
     ELSE Some(FlattenSeq([i \in DOMAIN blocks |-> lifted(blocks[i])[1]]))

TopLevel == {"protocol", "cases", "module", "import", "tcpform"}
(* validate_top_level, expand_modules, and the duplicate check of interpret *)
ProtocolNames(blocks) ==
  LET all == ExpandModules(blocks, <<>>)
      ps == SelectSeq(all[1], LAMBDA b : b.name = "protocol")
      names == [i \in DOMAIN ps |-> ps[i].labels[1]]
  IN IF \E i \in DOMAIN blocks : blocks[i].name \notin TopLevel THEN None
     ELSE IF all = None THEN None
     ELSE IF ~IsInjective(names) THEN None ELSE Some(names)
=============================================================================
