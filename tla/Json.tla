-------------------------------- MODULE Json --------------------------------
(***************************************************************************)
(* The values that the state, the configuration and the messages are made   *)
(* of: what a Val does, how JsonWriter writes it and how JsonParser and      *)
(* ValBuilder read it again.                                                *)
(*                                                                          *)
(* A text is a sequence of tokens, without the commas and colons.  yajl is  *)
(* external: the stack of its states is modelled, and that it refuses names *)
(* and strings that are not UTF-8.  A file is written in place and may be   *)
(* cut between two tokens; an answer may be any sequence of tokens.         *)
(***************************************************************************)
EXTENDS Integers, Sequences, SequencesExt, FiniteSets

CONSTANTS
    NamesInOrder,  \* the names of an object, in the order of a std::map
    Strings,       \* what a string may be
    NotUtf8,       \* those of the names and strings that are not UTF-8
    Nothing,       \* what a null has, and a level without a key
    MaxOps,        \* how often the program changes the value
    MaxTokens      \* how long an answer may be

VARIABLES
    pc,        \* "hold", "written", "reading", "accepted", "refused", "failed"
    held,      \* the value in memory
    ops,       \* how often it was changed
    file,      \* the tokens that are in the file
    source,    \* what is being read: "file" or "answer"
    text,      \* the tokens that the parser has got
    syntax,    \* yajl's stack of states
    levels     \* m_ctx: what is not closed yet, as [key, val]

vars == <<pc, held, ops, file, source, text, syntax, levels>>

Names == ToSet(NamesInOrder)

-----------------------------------------------------------------------------
(* Val.                                                                     *)

ObjectOf(f)  == [type |-> "object", val |-> f]
ArrayOf(s)   == [type |-> "array", val |-> s]
StringOf(s)  == [type |-> "string", val |-> s]

Null    == [type |-> "null", val |-> Nothing]
Default == ObjectOf(<<>>)   \* Val(): an object without names

Simple == {StringOf(s) : s \in Strings} \cup {Null, Default, ArrayOf(<<>>)}

With(f, k, v) == [n \in DOMAIN f \cup {k} |-> IF n = k THEN v ELSE f[n]]
Without(f, k) == [n \in DOMAIN f \ {k} |-> f[n]]

\* Val::Add: a name that is there keeps its value.
Insert(f, k, v) == IF k \in DOMAIN f THEN f ELSE With(f, k, v)

\* What one call makes of an object or an array.
Changed(v) ==
    IF v.type = "array" THEN {ArrayOf(Append(v.val, x)) : x \in Simple}
    ELSE LET f == v.val IN
         {ObjectOf(With(f, k, x))   : k \in Names, x \in Simple} \cup   \* Set
         {ObjectOf(Insert(f, k, x)) : k \in Names, x \in Simple} \cup   \* Add
         {ObjectOf(Insert(f, k, Default)) : k \in Names} \cup           \* Item
         {ObjectOf(Without(f, k))   : k \in Names}                      \* Del

\* As<T>() throws unless the value is a T.
Is(v, type) == v.type = type

Holds(v) == Is(v, "object") \/ Is(v, "array")

\* What a string is; Str throws for all but a string (numbers are not modelled).
Str(v) == v.val

\* The member of that name; operator[] throws if there is none.
Got(v, k) == v.val[k]

\* As<T>() lets through nothing but an object or an array; Item gives access to
\* the value under a name.
Change ==
    /\ pc = "hold" /\ ops < MaxOps
    /\ ops' = ops + 1
    /\ \/ held' \in Changed(held)
       \/ \E k \in DOMAIN held.val :
            /\ Holds(held.val[k])
            /\ \E x \in Changed(held.val[k]) : held' = ObjectOf(With(held.val, k, x))
    /\ UNCHANGED <<pc, file, source, text, syntax, levels>>

-----------------------------------------------------------------------------
(* Val::Visit and JsonWriter.                                               *)

Token(t, v) == [t |-> t, v |-> v]
Mark(t)     == Token(t, Nothing)

RECURSIVE Visit(_)
Visit(v) ==
    CASE v.type = "object" ->
            <<Mark("{")>>
            \o FlattenSeq([i \in DOMAIN NamesInOrder |->
                   LET k == NamesInOrder[i] IN
                   IF k \in DOMAIN v.val THEN <<Token("key", k)>> \o Visit(v.val[k]) ELSE <<>>])
            \o <<Mark("}")>>
      [] v.type = "array" ->
            <<Mark("[")>> \o FlattenSeq([i \in DOMAIN v.val |-> Visit(v.val[i])])
            \o <<Mark("]")>>
      [] OTHER -> <<Token(v.type, v.val)>>

\* Written in place: the program may be killed after any of the tokens.
Write ==
    /\ pc = "hold"
    /\ pc' = "written"
    /\ \E n \in 0..Len(Visit(held)) : file' = SubSeq(Visit(held), 1, n)
    /\ UNCHANGED <<held, ops, source, text, syntax, levels>>

-----------------------------------------------------------------------------
(* yajl.                                                                    *)

Tokens ==
    {Mark(t) : t \in {"{", "}", "[", "]", "null"}} \cup
    {Token("string", s) : s \in Strings} \cup {Token("key", k) : k \in Names}

Admits(token) ==
    /\ token.v \notin NotUtf8
    /\ CASE token.t = "key" -> Last(syntax) = "map"
         [] token.t = "}"   -> Last(syntax) = "map"
         [] token.t = "]"   -> Last(syntax) = "array"
         [] OTHER -> Last(syntax) \in {"start", "array", "map_need_val"}

\* The state below a value that has begun.
Begun ==
    LET s == Last(syntax) IN
    Append(Front(syntax), CASE s = "start"        -> "complete"
                            [] s = "map_need_val" -> "map"
                            [] s = "array"        -> "array")

SyntaxAfter(token) ==
    CASE token.t = "key"        -> Append(Front(syntax), "map_need_val")
      [] token.t \in {"}", "]"} -> Front(syntax)
      [] token.t = "{"          -> Append(Begun, "map")
      [] token.t = "["          -> Append(Begun, "array")
      [] OTHER                  -> Begun

-----------------------------------------------------------------------------
(* ValBuilder.                                                              *)

Level(k, v) == [key |-> k, val |-> v]

\* Otherwise Build throws.
Fits(ctx) ==
    ctx = <<>> \/ Last(ctx).val.type = "array"
               \/ (Last(ctx).val.type = "object" /\ Last(ctx).key # Nothing)

\* Mutant: the last of two values for a name wins.
BuildLastWins(ctx, v) ==
    IF ctx = <<>> THEN <<Level(Nothing, v)>>
    ELSE LET top == Last(ctx) IN Append(Front(ctx),
         IF top.val.type = "array" THEN Level(top.key, ArrayOf(Append(top.val.val, v)))
         ELSE Level(Nothing, ObjectOf(With(top.val.val, top.key, v))))

Build(ctx, v) ==
    IF ctx = <<>> THEN <<Level(Nothing, v)>>
    ELSE LET top == Last(ctx) IN Append(Front(ctx),
         IF top.val.type = "array" THEN Level(top.key, ArrayOf(Append(top.val.val, v)))
         ELSE Level(Nothing, ObjectOf(Insert(top.val.val, top.key, v))))

\* End: only a level of that type, and without a key, is taken off the stack.
Closes(type) == levels # <<>> /\ Last(levels).val.type = type

Copes(token) ==
    CASE token.t \in {"null", "string"} -> Fits(levels)
      [] token.t = "key" -> levels # <<>>
      [] token.t \in {"{", "["} -> TRUE
      [] OTHER ->
            LET type == IF token.t = "}" THEN "object" ELSE "array" IN
            Closes(type) => Last(levels).key = Nothing /\ Fits(Front(levels))

\* VisitNull builds Val(), which is an object.
LevelsAfter(token) ==
    CASE token.t = "null"   -> Build(levels, Default)
      [] token.t = "string" -> Build(levels, StringOf(token.v))
      [] token.t = "key"    -> Append(Front(levels), Level(token.v, Last(levels).val))
      [] token.t = "{"      -> Append(levels, Level(Nothing, Default))
      [] token.t = "["      -> Append(levels, Level(Nothing, ArrayOf(<<>>)))
      [] OTHER ->
            IF Closes(IF token.t = "}" THEN "object" ELSE "array")
            THEN Build(Front(levels), Last(levels).val) ELSE levels

-----------------------------------------------------------------------------
(* JsonParser.                                                              *)

Begin(s) ==
    /\ pc = (IF s = "file" THEN "written" ELSE "hold")
    /\ pc' = "reading" /\ source' = s
    /\ text' = <<>> /\ syntax' = <<"start">> /\ levels' = <<>>
    /\ UNCHANGED <<held, ops, file>>

\* One callback of Parse, wherever the chunks end.
Take(token) ==
    /\ pc = "reading"
    /\ text' = Append(text, token)
    /\ IF Admits(token) /\ Copes(token)
       THEN /\ syntax' = SyntaxAfter(token) /\ levels' = LevelsAfter(token)
            /\ pc' = pc
       ELSE /\ pc' = IF Admits(token) THEN "failed" ELSE "refused"
            /\ UNCHANGED <<syntax, levels>>
    /\ UNCHANGED <<held, ops, file, source>>

TakeFromFile == source = "file" /\ Len(text) < Len(file) /\ Take(file[Len(text) + 1])

TakeFromAnswer ==
    source = "answer" /\ Len(text) < MaxTokens /\ \E token \in Tokens : Take(token)

\* ValBuilder::Result.
Result == pc' = IF Len(levels) = 1 THEN "accepted" ELSE "failed"

\* JsonParser::Finish.
Finish == syntax = <<"complete">>

\* ParseJson.
FileEnds ==
    /\ pc = "reading" /\ source = "file" /\ Len(text) = Len(file)
    /\ IF Finish THEN Result ELSE pc' = "refused"
    /\ UNCHANGED <<held, ops, file, source, text, syntax, levels>>

\* ValResponse::Response: nobody calls Finish.
AnswerEnds ==
    /\ pc = "reading" /\ source = "answer"
    /\ Result
    /\ UNCHANGED <<held, ops, file, source, text, syntax, levels>>

Leaves ==
    /\ pc \in {"accepted", "refused", "failed"}
    /\ pc' = "hold"
    /\ file' = <<>> /\ text' = <<>> /\ syntax' = <<"start">> /\ levels' = <<>>
    /\ UNCHANGED source

\* State::Read: what cannot be read leaves an empty value.
Load ==
    /\ Leaves /\ source = "file"
    /\ held' = IF pc = "accepted" THEN levels[1].val ELSE Default
    /\ UNCHANGED ops

\* The answer has a string of that name.
Gives(k) ==
    /\ pc = "accepted"
    /\ Is(levels[1].val, "object") /\ k \in DOMAIN levels[1].val.val
    /\ Is(Got(levels[1].val, k), "string")

\* A string from the answer is kept, like the refresh token in the configuration;
\* or the program asks for none, or for one that is not there, which throws.
UseAnswer ==
    /\ Leaves /\ source = "answer"
    /\ \/ UNCHANGED <<held, ops>>
       \/ /\ ops < MaxOps /\ ops' = ops + 1
          /\ \E k \in Names : Gives(k) /\ held' = ObjectOf(
                With(held.val, k, StringOf(Str(Got(levels[1].val, k)))))

-----------------------------------------------------------------------------
Init ==
    /\ pc = "hold" /\ held = Default /\ ops = 0
    /\ file = <<>> /\ source = "file"
    /\ text = <<>> /\ syntax = <<"start">> /\ levels = <<>>

Next ==
    \/ Change \/ Write \/ Begin("file") \/ Begin("answer")
    \/ TakeFromFile \/ TakeFromAnswer \/ FileEnds \/ AnswerEnds \/ Load \/ UseAnswer

Spec == Init /\ [][Next]_vars

-----------------------------------------------------------------------------
(* Properties.                                                              *)

\* The builder keeps a level for each bracket that is open, and a key where
\* yajl waits for a value.
TypeOK ==
    /\ pc \in {"hold", "written", "reading", "accepted", "refused", "failed"}
    /\ held.type = "object" /\ ops \in 0..MaxOps
    /\ file \in Seq(Tokens) /\ text \in Seq(Tokens) /\ source \in {"file", "answer"}
    /\ Len(levels) = IF Last(syntax) = "complete" THEN 1 ELSE Len(syntax) - 1
    /\ \A i \in DOMAIN levels :
        (levels[i].key # Nothing) <=>
            (i < Len(syntax) /\ syntax[i + 1] = "map_need_val")
            \/ (i + 1 < Len(syntax) /\ levels[i].val.type = "object")

\* The reference: where the value that begins at i ends, and what it is.  Of two
\* values for one name the first counts, and null is an object without names.
RECURSIVE Value(_, _), Members(_, _, _), Elements(_, _, _)
Value(t, i) ==
    CASE t[i].t = "string" -> <<i + 1, StringOf(t[i].v)>>
      [] t[i].t = "null"   -> <<i + 1, Default>>
      [] t[i].t = "{"      -> Members(t, i + 1, <<>>)
      [] t[i].t = "["      -> Elements(t, i + 1, <<>>)
Members(t, i, f) ==
    IF t[i].t = "}" THEN <<i + 1, ObjectOf(f)>>
    ELSE LET v == Value(t, i + 1) IN Members(t, v[1], Insert(f, t[i].v, v[2]))
Elements(t, i, s) ==
    IF t[i].t = "]" THEN <<i + 1, ArrayOf(s)>>
    ELSE LET v == Value(t, i) IN Elements(t, v[1], Append(s, v[2]))

\* A whole text gives the value that it stands for, whatever the nesting; the
\* builder is never at a loss over what yajl lets through (ValBuilder.cc).
ReadsWhatIsMeant ==
    /\ pc = "accepted" /\ syntax = <<"complete">> => levels[1].val = Value(text, 1)[2]
    /\ pc = "failed" => source = "answer" /\ syntax # <<"complete">>

\* What a value is after it was written and read.
RECURSIVE Reread(_)
Reread(v) ==
    CASE v.type = "null"   -> Default
      [] v.type = "object" -> ObjectOf([k \in DOMAIN v.val |-> Reread(v.val[k])])
      [] v.type = "array"  -> ArrayOf([i \in DOMAIN v.val |-> Reread(v.val[i])])
      [] OTHER             -> v

Cut      == file # Visit(held)
Spoilt   == \E i \in DOMAIN file : file[i].v \in NotUtf8

\* The state and the configuration are read as they were written, but for null,
\* unless they were cut or have a name that is not UTF-8.
RoundTrip ==
    pc \in {"accepted", "refused", "failed"} /\ source = "file" =>
        IF Cut \/ Spoilt THEN pc = "refused"
        ELSE pc = "accepted" /\ levels[1].val = Reread(held)

Count(t) == Cardinality({i \in DOMAIN text : text[i].t \in t})

\* Nothing that was cut is taken for the whole: a file never, an answer only if it was
\* cut within its outermost bracket, that is with only this one open.  What is lost
\* then is the rest of its members, and a name whose value is missing with them
\* (JsonParser.cc:188).
CutIsNoticed ==
    pc = "accepted" /\ syntax # <<"complete">> =>
        source = "answer" /\ Count({"{", "["}) - Count({"}", "]"}) = 1
=============================================================================
