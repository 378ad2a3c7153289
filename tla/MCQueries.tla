------------------------------ MODULE MCQueries ------------------------------
(***************************************************************************)
(* Instance of Requests for TLC: a folder d that is mounted and a folder e.*)
(***************************************************************************)
EXTENDS Requests

CONSTANTS d, e, f, g, t, u, a, b, v, w, p

\* The pattern p stands for one that both values match, w itself for a text
\* without a *.
MCLike == {<<v, v>>, <<w, w>>, <<v, p>>, <<w, p>>}

Equal(name, value) == [attribute |-> name, value |-> value, matchmode |-> "0"]
LikeIt(name, value) == [attribute |-> name, value |-> value, matchmode |-> "1"]

TagLists ==
  {<<>>, <<t>>, <<t, u>>} \cup (IF "twice" \in Env THEN {<<t, t>>} ELSE {})

FilterLists ==
  {<<>>, <<Equal(a, v)>>, <<Equal(a, v), LikeIt(b, p)>>}
    \cup (IF "same" \in Env THEN {<<LikeIt(a, p), Equal(a, v)>>} ELSE {})
    \cup (IF "presence" \in Env THEN {<<Equal(a, Null)>>} ELSE {})

\* -r d, or d and its list as the current folder, or a folder of no repository.
MCCommands ==
  {[repo |-> Home, cwd |-> Home, tags |-> <<t>>, filters |-> <<>>]}
    \cup {c \in [repo: {d, Null}, cwd: {d, Home}, tags: TagLists, filters: FilterLists] :
            /\ c.tags # <<>> \/ c.filters # <<>>
            /\ c.repo # Null => c.cwd = Home}

\* The tags of f and g in d, attributes of f in d, and one file in e that a
\* search may find.  To begin with f has all tags that g has (the other way
\* round is the same); when f has attributes, it has both tags and g none.
MCContents ==
  {[has |-> {<<d, f, x>> : x \in fs} \cup {<<d, g, x>> : x \in gs} \cup {<<e, f, t>>, <<e, f, u>>},
    attr |-> rows \cup {<<e, f, a, v>>},
    disk |-> {d, e} \X {f, g}] :
      <<fs, gs, rows>> \in
        {c \in {{}, {t}, {t, u}} \X (SUBSET {t, u}) \X {{}, {<<d, f, a, v>>, <<d, f, b, w>>}} :
           c[2] \subseteq c[1] /\ (c[3] # {} => c[1] = {t, u} /\ c[2] = {})}}
=============================================================================
