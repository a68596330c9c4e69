----------------------------- MODULE JsonText -----------------------------
(***************************************************************************)
(* JSON documents as trees, the texts that write them, and the events a    *)
(* parser of src/json.js owes its handlers for them.  It is the reference  *)
(* the parser is compared with, and uses nothing of the parser.            *)
(*                                                                         *)
(* A document is a scalar (the characters of its token), an object (a      *)
(* sequence of members [name, doc]) or an array (a sequence of documents). *)
(***************************************************************************)
EXTENDS JsString, SequencesExt

Scalar(token)   == [type |-> "scalar", token |-> token]
Object(members) == [type |-> "object", members |-> members]
Array(elements) == [type |-> "array", elements |-> elements]
Member(name, doc) == [name |-> name, doc |-> doc]

Quoted(s) == <<"quote">> \o s \o <<"quote">>

---------------------------------------------------------------------------
(* Texts.  pad is the white space written after every token. *)

RECURSIVE TextOf(_, _)
TextOf(doc, pad) ==
    LET Punct(c)    == <<c>> \o pad
        Commas(seq) == FlattenSeq([i \in 1..Len(seq) |->
                          IF i < Len(seq) THEN seq[i] \o Punct(",") ELSE seq[i]])
    IN CASE doc.type = "scalar" -> doc.token \o pad
         [] doc.type = "array"  ->
              Punct("[") \o Commas([i \in 1..Len(doc.elements) |->
                                      TextOf(doc.elements[i], pad)]) \o Punct("]")
         [] doc.type = "object" ->
              Punct("{") \o Commas([i \in 1..Len(doc.members) |->
                                      Quoted(doc.members[i].name) \o pad \o Punct(":")
                                      \o TextOf(doc.members[i].doc, pad)]) \o Punct("}")

---------------------------------------------------------------------------
(* The places where the text may be cut without touching a token: a number *)
(* or a literal and the character after it stay in one read, and so do an  *)
(* escape sequence and white space within a string.                        *)

InToken(c) == c \in {"num", "exp", "t", "f", "n"}

\* The offsets that lie between the quotes of a string of text.
InString(text) ==
    LET opened[i \in 0..Len(text)] ==
            IF i = 0 THEN [open |-> FALSE, escaped |-> FALSE]
            ELSE LET was == opened[i - 1] IN
                 IF text[i] = "quote" /\ ~was.escaped
                 THEN [open |-> ~was.open, escaped |-> FALSE]
                 ELSE [was EXCEPT !.escaped = text[i] = "bslash" /\ ~was.escaped]
    IN {i \in 1..Len(text) : opened[i].open}

SafeCuts(text) ==
    LET inside == InString(text)
    IN {i \in 1..Len(text) :
          IF i \in inside
          THEN text[i] # "bslash" /\ text[i + 1] \notin {"ws", "cr"}
          ELSE ~InToken(text[i])}

---------------------------------------------------------------------------
(* Events. *)

Ev(event, key, value) == [event |-> event, key |-> key, value |-> value]

StartOf(doc) == IF doc.type = "array" THEN "startArray" ELSE "startObject"
EndOf(doc)   == IF doc.type = "array" THEN "endArray" ELSE "endObject"

\* What the parser of a container emits.
RECURSIVE Inside(_)

\* A value at key: a scalar is found at once; a container is announced at key,
\* then by its own parser, which has no key, and found once it has ended.
Found(key, doc) ==
    IF doc.type = "scalar"
    THEN <<Ev("foundValue", key, doc.token)>>
    ELSE <<Ev(StartOf(doc), key, Undefined)>> \o Inside(doc)
         \o <<Ev(EndOf(doc), key, Undefined), Ev("foundValue", key, Undefined)>>

Inside(doc) ==
    <<Ev(StartOf(doc), Undefined, Undefined)>>
    \o (IF doc.type = "array"
        THEN FlattenSeq([i \in 1..Len(doc.elements) |->
                           Found([index |-> i - 1], doc.elements[i])])
        ELSE FlattenSeq([i \in 1..Len(doc.members) |->
                LET key == [name |-> doc.members[i].name] IN
                <<Ev("foundKey", key, Undefined)>> \o Found(key, doc.members[i].doc)]))
    \o <<Ev(EndOf(doc), Undefined, Undefined)>>

---------------------------------------------------------------------------
(* Inputs for the parser: the text of some documents with gap before each    *)
(* and after the last, where reads may cut it, the events owed for it, and   *)
(* what is outside of the documents.                                         *)

InputOf(docs, pad, gap) ==
    LET text == gap \o FlattenSeq([i \in 1..Len(docs) |-> TextOf(docs[i], pad) \o gap])
    IN [text    |-> text,
        cuts    |-> SafeCuts(text),
        events  |-> FlattenSeq([i \in 1..Len(docs) |-> Inside(docs[i])]),
        outside |-> FlattenSeq([i \in 1..(Len(docs) + 1) |-> gap])]

\* The same, with reads that may end anywhere.
AnyCuts(in) == [in EXCEPT !.cuts = 1..Len(in.text)]
===========================================================================
