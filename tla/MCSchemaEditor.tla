--------------------------- MODULE MCSchemaEditor ----------------------------
(* Fields that differ in what an alteration goes by: type, NULL, default in *)
(* the program or in the database, comment, check, primary key, choices.    *)
EXTENDS SchemaEditor

Plain == [type |-> "Int32", null |-> FALSE, default |-> "none", db_default |-> "none",
          comment |-> "none", check |-> FALSE, primary_key |-> FALSE, choices |-> "none",
          help_text |-> "none"]

MCShape == {
    Plain,
    [Plain EXCEPT !.null = TRUE],
    [Plain EXCEPT !.default = "x"],
    [Plain EXCEPT !.null = TRUE, !.default = "x"],
    [Plain EXCEPT !.db_default = "x"],
    [Plain EXCEPT !.null = TRUE, !.db_default = "x"],
    [Plain EXCEPT !.type = "Int64", !.default = "y"],
    [Plain EXCEPT !.type = "Int64", !.db_default = "y", !.comment = "c"],
    [Plain EXCEPT !.check = TRUE],
    [Plain EXCEPT !.type = "Int64", !.default = "x", !.check = TRUE],
    [Plain EXCEPT !.primary_key = TRUE],
    [Plain EXCEPT !.type = "Int64", !.primary_key = TRUE],
    [Plain EXCEPT !.choices = "p", !.help_text = "h"],
    [Plain EXCEPT !.type = "Enum8", !.choices = "p"],
    [Plain EXCEPT !.type = "Enum8", !.choices = "q"] }

Names == Permutations(Column) \cup Permutations(Table)
=============================================================================
