---------------------------- MODULE IcebergSchema ----------------------------
(***************************************************************************)
(* The columns of an Iceberg table while its schema changes, and how the   *)
(* reader makes one table of files written under different schemas         *)
(* (src/src/iceberg.rs).                                                   *)
(*                                                                         *)
(* A column has an id that is never used again, a name that may be, and a  *)
(* type.  A value is the file and the column it was written to.            *)
(***************************************************************************)
EXTENDS Naturals, SequencesExt, FiniteSets

CONSTANTS
  Names,     \* column names
  Dialects,  \* how metadata is written: 1 with a schema, 2 with all there were
  Reuses,    \* whether a name may be used again
  MaxId,     \* bound: the columns there ever were
  MaxSchemas,\* bound: the schemas that metadata keeps
  MaxFiles   \* bound: the data files

VARIABLES
  metadata,  \* [schema, schemas, current]: one schema, or all and which is current
  lastId,    \* the last column id that was given
  files,     \* the data files: their columns, and whether they carry the ids
  read       \* what a reader made of them

schemaVars == <<metadata, lastId, files, read>>

Types == {"int", "long", "struct"}
Column(id, name, type) == [id |-> id, name |-> name, type |-> type]
None == <<>>
Unread == [at |-> "idle"]

\* current_schema_object: the schema with the current id, else the only one.
CurrentSchema(m) == IF m.current \in DOMAIN m.schemas THEN m.schemas[m.current] ELSE m.schema

\* iceberg_type_to_arrow: a nested type has no Arrow type of its own.
HasArrowType(type) == type # "struct"

\* field_id_index, and the place of a name.
ById(f, id) == {i \in DOMAIN f.columns : f.ids /\ f.columns[i].id = id}
ByName(f, name) == {i \in DOMAIN f.columns : f.columns[i].name = name}

\* Mutant: ids are not looked for.
NameOnly(f, c) == ByName(f, c.name)

\* Which column of a file has a column of the table: by id, else by name.
SourceOf(f, c) == IF ById(f, c.id) # {} THEN ById(f, c.id) ELSE ByName(f, c.name)

\* target_schema: a nested column has the type the sample file has for it.
Resolved(schema, sample) == \A i \in DOMAIN schema :
  HasArrowType(schema[i].type) \/ SourceOf(sample, schema[i]) # {}

\* project_batch, for file number n: what is in each column of the table.
Leftmost(found) == CHOOSE i \in found : \A j \in found : i <= j
Value(n, i) == [null |-> FALSE, file |-> n, column |-> i]
NullFill == [null |-> TRUE, file |-> 0, column |-> 0]
ProjectBatch(schema, f, n) ==
  [k \in DOMAIN schema |->
     LET found == SourceOf(f, schema[k])
     IN IF found = {} THEN NullFill ELSE Value(n, Leftmost(found))]

-----------------------------------------------------------------------------
(***************************************************************************)
(* External: the table's writers.                                          *)
(***************************************************************************)
TableSchema == CurrentSchema(metadata)
Named(name) == \E i \in DOMAIN TableSchema : TableSchema[i].name = name
Retired == {c.name : c \in UNION {{f.columns[i] : i \in DOMAIN f.columns} : f \in {files[n] : n \in DOMAIN files}}}

Becomes(schema) ==
  metadata' = IF metadata.schemas = <<>> THEN [metadata EXCEPT !.schema = schema]
              ELSE [metadata EXCEPT !.schemas = Append(@, schema), !.current = Len(metadata.schemas) + 1]

Quiet == read = Unread
CanChange == Quiet /\ Len(metadata.schemas) < MaxSchemas

SchemaInit ==
  /\ \E d \in Dialects, name \in Names, type \in Types :
       metadata = IF d = 1 THEN [schema |-> <<Column(1, name, type)>>, schemas |-> <<>>, current |-> 0]
                  ELSE [schema |-> None, schemas |-> <<<<Column(1, name, type)>>>>, current |-> 1]
  /\ lastId = 1 /\ files = <<>> /\ read = Unread

AddColumn ==
  /\ CanChange /\ lastId < MaxId
  /\ \E name \in Names, type \in Types :
       /\ ~Named(name) /\ (Reuses \/ name \notin Retired)
       /\ Becomes(Append(TableSchema, Column(lastId + 1, name, type)))
  /\ lastId' = lastId + 1
  /\ UNCHANGED <<files, read>>

DropColumn ==
  /\ CanChange /\ Len(TableSchema) > 1
  /\ \E i \in DOMAIN TableSchema : Becomes(RemoveAt(TableSchema, i))
  /\ UNCHANGED <<lastId, files, read>>

RenameColumn ==
  /\ CanChange
  /\ \E i \in DOMAIN TableSchema, name \in Names :
       /\ ~Named(name) /\ (Reuses \/ name \notin Retired)
       /\ Becomes([TableSchema EXCEPT ![i].name = name])
  /\ UNCHANGED <<lastId, files, read>>

PromoteColumn ==
  /\ CanChange
  /\ \E i \in DOMAIN TableSchema : TableSchema[i].type = "int" /\ Becomes([TableSchema EXCEPT ![i].type = "long"])
  /\ UNCHANGED <<lastId, files, read>>

\* A file written by an engine that knows ids, or one added by name.
WriteFile ==
  /\ Quiet /\ Len(files) < MaxFiles
  /\ \E ids \in BOOLEAN : files' = Append(files, [columns |-> TableSchema, ids |-> ids])
  /\ UNCHANGED <<metadata, lastId, read>>

\* read_iceberg: every file is made to fit the current schema, which takes the
\* types it does not say from the first.
ReadTable ==
  /\ Quiet /\ files # <<>>
  /\ read' = IF ~Resolved(TableSchema, files[1]) THEN [at |-> "refused"]
             ELSE [at |-> "answered",
                   rows |-> [n \in DOMAIN files |-> ProjectBatch(TableSchema, files[n], n)]]
  /\ UNCHANGED <<metadata, lastId, files>>

ForgetTable == read # Unread /\ read' = Unread /\ UNCHANGED <<metadata, lastId, files>>

SchemaNext == \/ AddColumn \/ DropColumn \/ RenameColumn \/ PromoteColumn
              \/ WriteFile \/ ReadTable \/ ForgetTable

SchemaSpec == SchemaInit /\ [][SchemaNext]_schemaVars

-----------------------------------------------------------------------------
\* What file number n has for a column of the table, by the ids it was written with.
Own(f, c) == {i \in DOMAIN f.columns : f.columns[i].id = c.id}
OwnValue(f, n, c) == IF Own(f, c) = {} THEN NullFill ELSE Value(n, CHOOSE i \in Own(f, c) : TRUE)

\* A column shows what was written to it, under whatever name and type, and null in
\* the rows of a file that is older than it (target_schema, project_batch); of a
\* file without ids its name decides.
ColumnsKeepTheirValues ==
  read.at = "answered" =>
    \A n \in DOMAIN files : files[n].ids =>
      \A k \in DOMAIN TableSchema : read.rows[n][k] = OwnValue(files[n], n, TableSchema[k])
=============================================================================
