--------------------------- MODULE DataSourceName ---------------------------
(***************************************************************************)
(* What is to hold of the options of a data source name: the input at hand *)
(* is a query, any set of entries with any numbers in them.  Formats takes *)
(* small queries for it, the proofs all of them.                           *)
(***************************************************************************)
EXTENDS Integers

VARIABLE it   \* the input: its kind, and the query of an input of kind "options"

O == INSTANCE Options

OptionValues == [form : {"number", "name", "text", "blank"}, n : Int]
OptionEntries == [key : O!Keys, exact : BOOLEAN, value : OptionValues]
OptionInputs == [kind : {"options"}, query : SUBSET OptionEntries]

(* The three places that know the options agree: parser, Validate and what *)
(* the connection sends; and so do the spellings of an option (dsn.go:271, *)
(* config.go:147, dbconn.go:393).                                          *)
OptionsAgree ==
  it.kind = "options" =>
    /\ O!RangesAgree(it.query)
    /\ O!AcceptedIsSendable(it.query)
    /\ \A e \in it.query : O!SpellingsAgree(e)
=============================================================================
