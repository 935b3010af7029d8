------------------------------ MODULE Catalog ------------------------------
(***************************************************************************)
(* Names and relations of a database catalog: discovery/duckdb.py finds a   *)
(* relation by name, discovery/fetcher.py describes it.                     *)
(*                                                                         *)
(* A name is the sequence of its parts between dots, in lower case.  A      *)
(* path is a triple of components (catalog, schema, table), and a component *)
(* is itself a sequence of parts, because a quoted identifier may hold a    *)
(* dot: identities join the components with dots, and names are split at    *)
(* them.                                                                    *)
(***************************************************************************)
EXTENDS Naturals, Sequences

CONSTANTS
    Paths,       \* the places of the catalog a relation may occupy
    SessionPath  \* the <<catalog, schema>> pairs the session searches, in order

Component == Seq(STRING) \ {<<>>}

ASSUME PathsAssumption ==
    \A path \in Paths : path \in Component \X Component \X Component
ASSUME SessionPathAssumption == SessionPath \in Seq(Component \X Component)

\* The scope of names the program itself writes; a view's scope is its path.
Session == <<>>
Main == <<"main">>

\* The canonical identity: catalog.schema.name.
Identity(path) == path[1] \o path[2] \o path[3]

\* A view's own schema comes before the session's path.
SearchPath(scope) ==
    IF scope = Session THEN SessionPath
    ELSE << <<scope[1], scope[2]>> >> \o SessionPath

\* Every path a name may denote, in the order they are tried.
Candidates(name, path) ==
    CASE Len(name) = 1 -> [i \in DOMAIN path |-> <<path[i][1], path[i][2], name>>]
      [] Len(name) = 2 ->
           Append([i \in DOMAIN path |-> <<path[i][1], <<name[1]>>, <<name[2]>>>>],
                  << <<name[1]>>, Main, <<name[2]>> >>)
      [] Len(name) = 3 -> << << <<name[1]>>, <<name[2]>>, <<name[3]>> >> >>
      [] OTHER -> <<>>

(***************************************************************************)
(* A catalog maps every path to an entry.  keys holds the primary key and   *)
(* the unique sets; a foreign key pairs columns by position with columns of *)
(* the relation of an identity; body is what a view's definition reads, as  *)
(* it is written there, and analyzable says that the definition parses to   *)
(* one CREATE VIEW whose scopes resolve.                                    *)
(***************************************************************************)
Table(columns, keys, foreignKeys) ==
    [kind |-> "TABLE", columns |-> columns, keys |-> keys,
     foreignKeys |-> foreignKeys, body |-> {}, analyzable |-> TRUE]
ForeignKey(columns, referenced, referencedColumns) ==
    [columns |-> columns, referenced |-> referenced,
     referencedColumns |-> referencedColumns]
View(body, analyzable) ==
    [kind |-> "VIEW", columns |-> {}, keys |-> {}, foreignKeys |-> {},
     body |-> body, analyzable |-> analyzable]
Absent ==
    [kind |-> "NONE", columns |-> {}, keys |-> {}, foreignKeys |-> {},
     body |-> {}, analyzable |-> FALSE]

Exists(entry) == entry.kind # "NONE"

\* DatabaseRelationMetadata: an entry and where it was found.
Metadata(path, entry) == [path |-> path, entry |-> entry]
NotFound == Metadata(Session, Absent)

Occupied(catalog, path) == path \in Paths /\ Exists(catalog[path])

\* What the catalog says of a name: the first candidate that exists.
Lookup(catalog, name, scope) ==
    LET tried == Candidates(name, SearchPath(scope))
        first(i) == /\ Occupied(catalog, tried[i])
                    /\ \A j \in 1..(i - 1) : ~ Occupied(catalog, tried[j])
    IN  IF \A i \in DOMAIN tried : ~ Occupied(catalog, tried[i]) THEN NotFound
        ELSE LET path == tried[CHOOSE i \in DOMAIN tried : first(i)]
             IN  Metadata(path, catalog[path])

Columns(pairing) == {pairing[i] : i \in DOMAIN pairing}

\* A table's facts only speak of columns it lists.
Incomplete(entry) ==
    /\ entry.kind = "TABLE"
    /\ \/ entry.columns = {}
       \/ \E key \in entry.keys : key = {} \/ ~ key \subseteq entry.columns
       \/ \E fk \in entry.foreignKeys :
             \/ ~ Columns(fk.columns) \subseteq entry.columns
             \/ Len(fk.columns) # Len(fk.referencedColumns)

IncompleteReference(fk, target) ==
    ~ Columns(fk.referencedColumns) \subseteq target.columns

\* The name a declaration gets: a CREATE statement has room for three parts.
Target(name) ==
    IF Len(name) <= 3 THEN name ELSE SubSeq(name, Len(name) - 2, Len(name))
=============================================================================
