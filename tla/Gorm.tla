-------------------------------- MODULE Gorm --------------------------------
(***************************************************************************)
(* GORM on Postgres as the REST services of practical 5 use it: DB.Create  *)
(* and DB.First on a table whose ids come from a sequence.  A table is a   *)
(* set of rows with an id; an operator below gives the set of outcomes     *)
(* that one statement, in its own transaction, may have.                   *)
(*                                                                         *)
(* The bodies of POST requests are decoded into the models themselves, so  *)
(* a client may send the "ID" of gorm.Model: it is then stored as it is,   *)
(* and the sequence is left alone.  Id 0 stands for a body without one.  A *)
(* client may send its "DeletedAt", too: such a row is there for the       *)
(* indexes, and no query returns it.                                       *)
(***************************************************************************)
EXTENDS Integers

CONSTANTS Faults,    \* what may fail: "db", or one of the processes
          Text       \* an id in a URL that is not a number

ASSUME GormAssumption == Text \notin Nat

Key(seq, id) == IF id = 0 THEN seq ELSE id

(* Even an INSERT that is rejected has drawn its default from the sequence. *)
Drawn(seq, id) == IF id = 0 THEN seq + 1 ELSE seq

Outcome(table, seq, row, err) == [table |-> table, seq |-> seq, row |-> row, err |-> err]

(***************************************************************************)
(* DB.Create(&new): a primary key or a unique column (`taken') rejects it. *)
(* With "db" among the faults a statement fails, before or after it drew   *)
(* an id, or the connection breaks once the row is committed.              *)
(***************************************************************************)
Create(table, seq, new, taken) ==
  LET row    == [new EXCEPT !.id = Key(seq, new.id)]
      next   == Drawn(seq, new.id)
      clash  == taken \/ \E t \in table : t.id = row.id
      stored == table \cup {row}
  IN  {Outcome(IF clash THEN table ELSE stored, next, row, clash)}
        \cup IF "db" \notin Faults THEN {}
             ELSE {Outcome(table, s, row, TRUE) : s \in {seq, next}}
                    \cup IF clash THEN {} ELSE {Outcome(stored, next, row, TRUE)}

(* WHERE deleted_at IS NULL, which GORM adds to every query. *)
Live(table) == {t \in table : ~t.deleted}

(* DB.First(&row, id): the row, or an error, which may be any error. *)
First(table, id) == {{t \in Live(table) : t.id = id}}
                      \cup IF "db" \in Faults THEN {{}} ELSE {}

(***************************************************************************)
(* DB.First(&row, s) with a string from the URL: a number is a primary key *)
(* and any other text a condition in SQL, which a row meets or none does,  *)
(* or which is an error.                                                   *)
(***************************************************************************)
FirstByParam(table, s) == IF s = Text THEN {{t} : t \in Live(table)} \cup {{}}
                          ELSE First(table, s)

(* DB.Find(&rows) fails only when the database does. *)
FindFails == IF "db" \in Faults THEN BOOLEAN ELSE {FALSE}
=============================================================================
