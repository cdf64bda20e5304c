------------------------------ MODULE Formats ------------------------------
(***************************************************************************)
(* The two readers of ffs/, CSV and JSON, side by side.  They share no     *)
(* state: each reads a file of its own.                                    *)
(***************************************************************************)
EXTENDS CsvReader

CONSTANT JsonDocuments      \* the JSON files

VARIABLES document, bucket, stack, jtokens, jstate

J == INSTANCE Json WITH Files <- JsonDocuments, file <- document, tokens <- jtokens, state <- jstate

\* The tokens of a JSON document that is not refused nest (Json).
TokensNest == J!TokensNest

\* A document's tokens are those it was written from (Json).
JsonReadsBack == J!ReadsBack

=============================================================================
