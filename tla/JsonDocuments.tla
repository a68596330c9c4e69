--------------------------- MODULE JsonDocuments ---------------------------
(***************************************************************************)
(* What the parser of src/json.js owes a user for the text of documents:   *)
(* JsonParse on inputs made by InputOf of JsonText.                        *)
(***************************************************************************)
EXTENDS JsonParse, JsonText

\* The parser reports exactly the structure of the documents, in order, with
\* the keys, indices and texts of their members, wherever the reads cut the
\* text (json.js: every handler of _parse()).
ReportsDocuments ==
    /\ IsPrefix(events, input.events)
    /\ pc = "done" => events = input.events
    /\ pc # "failed"

\* What is written before, between and after the documents goes to stdout in
\* its order, save white space (json.js:83-117, jrq.js:267).
PassesOnTheRest ==
    LET visible(s) == SelectSeq(s, LAMBDA c : c # "ws")
        outside    == visible(input.outside)
    IN /\ IsPrefix(visible(passed), outside)
       /\ pc = "done" => visible(passed) = outside

\* A document that the input ends in the middle of is an error (the message of
\* json.js:148).
ReportsUnfinished == pc = "done" => Open = <<>>
===========================================================================
