------------------------------- MODULE Parser -------------------------------
(***************************************************************************)
(* The JSON messages of tools and daemon as json/jsonrpc_api.c and         *)
(* json/jsonrpc_server.c print them, and what json/jsonrpc_parser.c makes  *)
(* of the tokens jsmn finds in them.                                       *)
(*                                                                         *)
(* A message is given by its tokens: jsmn lists what it finds in the order *)
(* of the text, each with its number of children (a key has one).  The     *)
(* parser walks the list with a cursor that every function it calls must   *)
(* leave right behind what it read.                                        *)
(***************************************************************************)
EXTENDS Naturals, Sequences

CONSTANT MaxTokens \* MAX_TOKENS

ASSUME ParserAssumption == MaxTokens \in Nat

Token(type, size, text) == [type |-> type, size |-> size, text |-> text]

Str(text) == Token("string", 0, text)
Key(text) == Token("string", 1, text)
Prim(text) == Token("primitive", 0, text)
Array(n) == Token("array", n, "")
Object(n) == Token("object", n, "")

Strings(texts) == <<Array(Len(texts))>> \o [i \in 1 .. Len(texts) |-> Str(texts[i])]

\* Pairs of a name and a text.
Fields(pairs) ==
  <<Object(Len(pairs))>> \o
    [j \in 1 .. 2 * Len(pairs) |->
       IF j % 2 = 1 THEN Key(pairs[(j + 1) \div 2][1]) ELSE Str(pairs[j \div 2][2])]

-----------------------------------------------------------------------------
(***************************************************************************)
(* The messages, and what each of them means.                              *)
(***************************************************************************)
\* What the parser makes of a number or a truth value ("null" is left NULL).
Primitive(text) == [primitive |-> text]

Table(pairs) ==
  [k \in {pairs[i][1] : i \in DOMAIN pairs} |->
     pairs[CHOOSE i \in DOMAIN pairs : pairs[i][1] = k][2]]

\* A search: sequences of folders and tags, and of filters, which are records.
FilterTokens(f) ==
  <<Object(3), Key("attribute"), Str(f.attribute), Key("value"), Str(f.value),
    Key("matchmode"), Prim(f.matchmode)>>

Filters(filters) ==
  <<Array(Len(filters))>> \o
    [j \in 1 .. 7 * Len(filters) |->
       FilterTokens(filters[(j - 1) \div 7 + 1])[((j - 1) % 7) + 1]]

\* What a call ends or begins with.
Header(method) ==
  <<Key("jsonrpc"), Str("2.0"), Key("id"), Str("id-xpto-123"), Key("method"), Str(method)>>

SearchMessage(dirs, filters, tags, config) ==
  <<Object(4), Key("params"), Object(4), Key("repo_dirs")>> \o Strings(dirs)
    \o <<Key("filter_attrs")>> \o Filters(filters)
    \o <<Key("tags")>> \o Strings(tags)
    \o <<Key("include_repo_from_config"), Prim(config)>> \o Header("search")

SearchMeaning(dirs, filters, tags, config) ==
  [jsonrpc |-> "2.0", id |-> "id-xpto-123", method |-> "search",
   params |-> [repo_dirs |-> dirs,
               filter_attrs |-> [i \in DOMAIN filters |->
                 [attribute |-> filters[i].attribute, value |-> filters[i].value,
                  matchmode |-> Primitive(filters[i].matchmode)]],
               tags |-> tags,
               include_repo_from_config |-> Primitive(config)]]

\* The other calls have texts as their parameters, which some of them print
\* first and some last.
ParamsFirst(method, params) == <<Object(4), Key("params")>> \o Fields(params) \o Header(method)
ParamsLast(method, params) == <<Object(4)>> \o Header(method) \o <<Key("params")>> \o Fields(params)

CallMeaning(method, params) ==
  [jsonrpc |-> "2.0", id |-> "id-xpto-123", method |-> method, params |-> Table(params)]

\* The answers.
Response(value) ==
  <<Object(3), Key("jsonrpc"), Str("2.0"), Key("id"), Str("id-xpto-123"), Key("result"),
    Object(1), Key("value")>> \o value

ResultMeaning(value) ==
  [jsonrpc |-> "2.0", id |-> "id-xpto-123", result |-> [value |-> value]]

ListResponse(texts) == Response(Strings(texts))
AttrsResponse(attrs) == Response(Fields(attrs))

ErrorResponse(code, message) ==
  <<Object(3), Key("jsonrpc"), Str("2.0"), Key("id"), Str("id-xpto-123"), Key("error"),
    Object(2), Key("code"), Prim(code), Key("message"), Str(message)>>

ErrorMeaning(code, message) ==
  [jsonrpc |-> "2.0", id |-> "id-xpto-123",
   error |-> [code |-> Primitive(code), message |-> message]]

-----------------------------------------------------------------------------
(***************************************************************************)
(* The parser.  A function, called with a cursor and a number of values to *)
(* read, moves the cursor behind what it reads (or fails; the cursor never *)
(* comes back to 0).  Behind the last token lie stale ones, which no       *)
(* message may depend on.                                                  *)
(***************************************************************************)
Done(at, value) == [at |-> at, value |-> value]
Failed == Done(0, <<>>)
Succeeded(r) == r.at > 0

Stale == Token("undefined", 0, "")
At(toks, i) == IF i \in DOMAIN toks THEN toks[i] ELSE Stale

\* A value is put into a hash table before those that follow it, which replace
\* it if they have the same key; an item is appended before those that follow.
Put(key, value, rest) ==
  [rest EXCEPT !.value = [k \in DOMAIN @ \cup {key} |-> IF k \in DOMAIN @ THEN @[k] ELSE value]]
Append1(value, rest) == [rest EXCEPT !.value = <<value>> \o @]

\* What parse_param does after a string: the key's size is 1.
AfterString(i, key) == i + 1 + key.size

\* (The mutant does the same after a number or a truth value, whose reader has
\* moved the cursor already.)
AfterPrimitiveTwice(i, key) == i + 2 + key.size
AfterPrimitive(i, key) == i + 2

\* parse_param_obj; the functions called are call[<<function, cursor, values>>].
ReadObject(toks, i, call) ==
  IF At(toks, i).type = "object" THEN call[<<"params", i + 1, At(toks, i).size>>] ELSE Failed

\* Its loop over parse_param: n more keys.  After an object the cursor moves by
\* the key's size once more.
ReadParams(toks, i, n, call) ==
  LET key == At(toks, i)
      val == At(toks, i + 1)
      items == call[<<"items", i + 2, val.size>>]
      table == ReadObject(toks, i + 1, call)
      More(value, at) == Put(key.text, value, call[<<"params", at, n - 1>>])
  IN CASE n = 0 -> Done(i, <<>>)
       [] n > 0 /\ key.type # "string" -> Failed
       [] n > 0 /\ key.type = "string" ->
            CASE val.type = "string" -> More(val.text, AfterString(i, key))
              [] val.type = "primitive" -> More(Primitive(val.text), AfterPrimitive(i, key))
              [] val.type = "array" -> IF Succeeded(items) THEN More(items.value, items.at) ELSE Failed
              [] val.type = "object" ->
                   IF Succeeded(table) THEN More(table.value, table.at + key.size) ELSE Failed
              [] OTHER -> Failed

\* read_array: n more items.  No message has an array in an array, or an object
\* that read_object could refuse.
ReadItems(toks, i, n, call) ==
  LET tok == At(toks, i)
      table == ReadObject(toks, i, call)
      More(value, at) == Append1(value, call[<<"items", at, n - 1>>])
  IN CASE n = 0 -> Done(i, <<>>)
       [] n > 0 /\ tok.type = "string" -> More(tok.text, i + 1)
       [] n > 0 /\ tok.type = "primitive" -> More(Primitive(tok.text), i + 1)
       [] n > 0 /\ tok.type = "object" -> More(table.value, table.at)
       [] OTHER -> Failed

\* parse_message: the keys of the outermost object.  An unknown one is skipped
\* with its size, 1, which is right behind its value only for plain values.
ReadMessage(toks, i, call) ==
  LET key == At(toks, i)
      table == ReadObject(toks, i + 1, call)
      More(value, at) == Put(key.text, value, call[<<"message", at, 0>>])
  IN CASE i > Len(toks) -> Done(i, <<>>)
       [] i <= Len(toks) /\ key.text \in {"jsonrpc", "method", "id"} ->
            IF key.size = 1 THEN More(At(toks, i + 1).text, i + 2) ELSE Failed
       [] i <= Len(toks) /\ key.text \in {"params", "result", "error"} ->
            IF key.size = 1 /\ Succeeded(table) THEN More(table.value, table.at) ELSE Failed
       [] OTHER -> call[<<"message", i + 1 + key.size, 0>>]

\* What each call returns, given what the calls it makes return, and so what
\* calls return that are nested less than d deep.
Calls == {"params", "items", "message"} \X Nat \X Nat

Returned(toks, call) ==
  [c \in Calls |->
     CASE c[1] = "params" -> ReadParams(toks, c[2], c[3], call)
       [] c[1] = "items" -> ReadItems(toks, c[2], c[3], call)
       [] c[1] = "message" -> ReadMessage(toks, c[2], call)]

Reader(toks) ==
  LET read[d \in Nat] ==
        IF d = 0 THEN [c \in Calls |-> Failed] ELSE Returned(toks, read[d - 1])
  IN read

\* A parsed message: what it does not have is empty.
RpcKeys == {"jsonrpc", "method", "id", "params", "result", "error"}
Rpc(fields) == [k \in RpcKeys |-> IF k \in DOMAIN fields THEN fields[k] ELSE <<>>]

\* ufa_jsonrpc_parse.  (Every call moves the cursor.)
Parse(toks) ==
  IF Len(toks) <= MaxTokens /\ At(toks, 1).type = "object"
  THEN LET r == Reader(toks)[Len(toks) + 2][<<"message", 2, 0>>]
       IN [ok |-> Succeeded(r), value |-> Rpc(r.value)]
  ELSE [ok |-> FALSE, value |-> Rpc(<<>>)]

Understood(toks, meaning) ==
  LET r == Parse(toks) IN r.ok /\ r.value = Rpc(meaning)
=============================================================================
