-------------------------------- MODULE Wire ---------------------------------
(***************************************************************************)
(* Three parts of the wire format beside each other, with variables of     *)
(* their own: the reader of a stream, the encoding of records, the labels. *)
(***************************************************************************)
EXTENDS WireReader, KeyRenamer

CONSTANT MaxArgs    (* bound: arguments                                    *)

VARIABLES kvs, done, stage, mods, b, w, r, keyed, made

L == INSTANCE Labels WITH i <- done

LabelsMade == L!LabelsMade
=============================================================================
