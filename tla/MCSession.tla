----------------------------- MODULE MCSession -----------------------------
(***************************************************************************)
(* Two runs of grive in one directory for Session: the one of the timer and *)
(* the one of the user, that are alike; and, in behaviours of their own,    *)
(* the values that the files and the answers are made of: Json, and the     *)
(* other form an answer may have (XmlTree).                                 *)
(***************************************************************************)
EXTENDS Session, TLC

CONSTANTS
    timer, user, own,
    a, spoilt, Strings, MaxOps, MaxText,  \* values
    XmlNames, Nodes, Cells, MaxAdds       \* XML

TwoRuns  == {timer, user}
TwoApps  == {BuiltIn, own}
Alike    == Permutations(TwoRuns)

VARIABLES
    part,   \* "session", "json" or "xml"
    jsonPc, held, ops, file, source, text, syntax, levels,
    heap, node, found, stack, adds, leaked

json   == <<jsonPc, held, ops, file, source, text, syntax, levels>>
xml    == <<heap, node, found, stack, adds, leaked>>
mcvars == <<part, vars, json, xml>>

Json == INSTANCE Json WITH pc <- jsonPc, MaxTokens <- MaxText,
            NamesInOrder <- <<a, spoilt>>, NotUtf8 <- {spoilt}
Xml  == INSTANCE XmlTree WITH Names <- XmlNames, Places <- Cells,
            lost <- leaked

\* What does not run stands still in one of its initial states.
MCInit ==
    /\ part \in {"session", "json", "xml"}
    /\ Init /\ Json!Init /\ Xml!Init

SessionStep == part = "session" /\ Next /\ UNCHANGED <<part, json, xml>>
JsonStep    == part = "json" /\ Json!Next /\ UNCHANGED <<part, vars, xml>>
XmlStep     == part = "xml" /\ Xml!Next /\ UNCHANGED <<part, vars, json>>

MCNext == SessionStep \/ JsonStep \/ XmlStep

MCSpec == MCInit /\ [][MCNext]_mcvars

-----------------------------------------------------------------------------
(* The properties of the values.                                            *)

\* ValBuilder has a level for each bracket that is open, and what it makes of a whole
\* text is what the text means; what was written is read again or, if it was cut,
\* noticed (ValBuilder.cc:58-138, JsonParser.cc:117-133).
ReadsWhatIsMeant ==
    part = "json" =>
        Json!TypeOK /\ Json!ReadsWhatIsMeant /\ Json!RoundTrip /\ Json!CutIsNoticed

\* A node lives exactly as long as something refers to it, and what is searched by
\* name is what the node has (Node.cc).
NodesCounted == part = "xml" => Xml!NodesCounted /\ Xml!ListsAgree
=============================================================================
