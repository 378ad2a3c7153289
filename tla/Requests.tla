------------------------------ MODULE Requests ------------------------------
(***************************************************************************)
(* The messages of a search, between Queries and Parser: what ufafind      *)
(* prints for a command line and what handle_search takes from it, what    *)
(* the daemon prints for the paths found and what ufafind reads of it.     *)
(***************************************************************************)
EXTENDS Queries, Parser, SequencesExt

\* ufafind fills the message from its command line; %s prints NULL.
Sprintf(filter) == [filter EXCEPT !.value = IF @ = Null THEN NullText ELSE @]

Dirs(c) == SetToSeq(FoldersOf(c))
Given(c) == [i \in DOMAIN c.filters |-> Sprintf(c.filters[i])]
FromConfig(c) == IF c.repo = Null THEN "true" ELSE "false"

Message(c) == SearchMessage(Dirs(c), Given(c), c.tags, FromConfig(c))
Meaning(c) == SearchMeaning(Dirs(c), Given(c), c.tags, FromConfig(c))

\* handle_search takes its arguments from the parsed message.
Arguments(p) ==
  [dirs |-> Range(p["repo_dirs"]),
   filters |-> [i \in DOMAIN p["filter_attrs"] |->
                  [attribute |-> p["filter_attrs"][i]["attribute"],
                   value |-> p["filter_attrs"][i]["value"],
                   matchmode |-> p["filter_attrs"][i]["matchmode"].primitive]],
   tags |-> p["tags"],
   config |-> p["include_repo_from_config"].primitive = "true"]

ReceivedCall(c) ==
  LET r == Parse(Message(c))
  IN [ok |-> r.ok, call |-> IF r.ok THEN Arguments(r.value["params"]) ELSE NoCall]

\* The answer, as the tool reads it.
PrintedPaths(paths) ==
  Range(Parse(ListResponse(SetToSeq(paths))).value["result"]["value"])

-----------------------------------------------------------------------------
\* Instances of every form of message, with their meaning: the searches, the
\* other calls, and the answers.
Form(toks, meaning) == [toks |-> toks, meaning |-> meaning]

Messages ==
  LET lists == {<<>>, <<"x">>, <<"x", "y">>}
      Pairs(n) == [i \in DOMAIN n |-> <<n[i], "text">>]
  IN {Form(Message(c), Meaning(c)) : c \in Commands}
       \cup {Form(ParamsFirst("call", Pairs(n)), CallMeaning("call", Pairs(n))) : n \in lists}
       \cup {Form(ParamsLast("call", Pairs(n)), CallMeaning("call", Pairs(n))) : n \in lists}
       \cup {Form(ListResponse(n), ResultMeaning(n)) : n \in lists}
       \cup {Form(AttrsResponse(Pairs(n)), ResultMeaning(Table(Pairs(n)))) : n \in lists}
       \cup {Form(Response(<<Prim(x)>>), ResultMeaning(Primitive(x))) : x \in {"true", "0"}}
       \cup {Form(ErrorResponse("-32603", "text"), ErrorMeaning("-32603", "text"))}

(* Every form of message that tools and daemon exchange is read back as it  *)
(* was written - the parser's cursor stands behind each value it has read - *)
(* and what a search says arrives.  (The forms do not depend on the state:  *)
(* it is enough to look at them in the initial ones.)                       *)
MessagesUnderstood ==
  /\ reader = "find" /\ at = "idle" /\ writes = 0 =>
       MessagesKept /\ \A m \in Messages : Understood(m.toks, m.meaning)
  /\ at = "search" /\ todo = {} =>
       Understood(ListResponse(SetToSeq(found)), ResultMeaning(SetToSeq(found)))
=============================================================================
