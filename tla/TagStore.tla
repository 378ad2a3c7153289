------------------------------ MODULE TagStore ------------------------------
(***************************************************************************)
(* What a repository promises its clients: a set of known tag names, a set *)
(* of known file names, and the tags and attributes of each file.  An      *)
(* operation takes effect at most once, at one instant, on the file its    *)
(* caller named and on no other.                                           *)
(*                                                                         *)
(* Three things the program does not promise are left open here: a failed  *)
(* operation may have made a new tag or file name known; an operation that *)
(* found its file before somebody removed it (the caller is "gone") has    *)
(* no effect and may still report success; what a read returns is not      *)
(* constrained, see GetTagsComplete of module Repo, which the code breaks. *)
(***************************************************************************)
CONSTANTS
  Client,     \* threads and processes that call the repository
  Requests    \* the calls they make: records [op, file, tag, attr, value]

VARIABLES
  tags,       \* known tag names
  files,      \* known file names
  tagged,     \* pairs <<file name, tag name>>
  attrs,      \* triples <<file name, attribute, value>>
  phase,      \* progress of each client's call
  want,       \* the call itself
  ok,         \* whether the finished call reported success
  gone        \* clients whose file was removed after they had found it

vars == <<tags, files, tagged, attrs, phase, want, ok, gone>>

data == <<tags, files, tagged, attrs>>

NoCall == [op |-> "none"]

Init ==
  /\ phase = [c \in Client |-> "idle"]
  /\ want = [c \in Client |-> NoCall]
  /\ ok = [c \in Client |-> FALSE]
  /\ gone = {}
  /\ \A p \in tagged : p[1] \in files /\ p[2] \in tags
  /\ \A t \in attrs : t[1] \in files

Finish(c, result) ==
  /\ phase' = [phase EXCEPT ![c] = "done"]
  /\ ok' = [ok EXCEPT ![c] = result]
  /\ gone' = gone \ {c}
  /\ UNCHANGED want

Call(c, r) ==
  /\ phase[c] = "idle"
  /\ phase' = [phase EXCEPT ![c] = "busy"]
  /\ want' = [want EXCEPT ![c] = r]
  /\ UNCHANGED <<data, ok, gone>>

\* A tag or file name becomes known on the way.
LearnTag(c) ==
  /\ phase[c] = "busy"
  /\ want[c].op \in {"inserttag", "settag"}
  /\ tags' = tags \cup {want[c].tag}
  /\ UNCHANGED <<files, tagged, attrs, phase, want, ok, gone>>

LearnFile(c) ==
  /\ phase[c] = "busy"
  /\ want[c].op # "inserttag"
  /\ files' = files \cup {want[c].file}
  /\ UNCHANGED <<tags, tagged, attrs, phase, want, ok, gone>>

InsertTag(c) ==
  /\ phase[c] = "busy"
  /\ want[c].op = "inserttag"
  /\ want[c].tag \in tags
  /\ Finish(c, TRUE)
  /\ UNCHANGED data

SetTag(c) ==
  /\ phase[c] = "busy"
  /\ c \notin gone
  /\ want[c].op = "settag"
  /\ want[c].file \in files
  /\ want[c].tag \in tags
  /\ tagged' = tagged \cup {<<want[c].file, want[c].tag>>}
  /\ Finish(c, TRUE)
  /\ UNCHANGED <<tags, files, attrs>>

UnsetTag(c) ==
  /\ phase[c] = "busy"
  /\ c \notin gone
  /\ want[c].op = "unsettag"
  /\ tagged' = tagged \ {<<want[c].file, want[c].tag>>}
  /\ Finish(c, TRUE)
  /\ UNCHANGED <<tags, files, attrs>>

ClearTags(c) ==
  /\ phase[c] = "busy"
  /\ c \notin gone
  /\ want[c].op = "cleartags"
  /\ tagged' = {p \in tagged : p[1] # want[c].file}
  /\ Finish(c, TRUE)
  /\ UNCHANGED <<tags, files, attrs>>

\* The other attributes of the file, and those of other files, stay.
OtherAttrs(f, a) == {t \in attrs : ~(t[1] = f /\ t[2] = a)}

SetAttr(c) ==
  /\ phase[c] = "busy"
  /\ c \notin gone
  /\ want[c].op = "setattr"
  /\ want[c].file \in files
  /\ attrs' = OtherAttrs(want[c].file, want[c].attr)
                \cup {<<want[c].file, want[c].attr, want[c].value>>}
  /\ Finish(c, TRUE)
  /\ UNCHANGED <<tags, files, tagged>>

UnsetAttr(c) ==
  /\ phase[c] = "busy"
  /\ c \notin gone
  /\ want[c].op = "unsetattr"
  /\ attrs' = OtherAttrs(want[c].file, want[c].attr)
  /\ Finish(c, TRUE)
  /\ UNCHANGED <<tags, files, tagged>>

\* The file and all that is known of it disappears; the callers in G had
\* found the file already.
RemoveFile(c, G) ==
  /\ phase[c] = "busy"
  /\ c \notin gone
  /\ want[c].op = "removefile"
  /\ want[c].file \in files
  /\ \A d \in G : phase[d] = "busy" /\ want[d].file = want[c].file
  /\ files' = files \ {want[c].file}
  /\ tagged' = {p \in tagged : p[1] # want[c].file}
  /\ attrs' = {t \in attrs : t[1] # want[c].file}
  /\ phase' = [phase EXCEPT ![c] = "removed"]
  /\ gone' = (gone \cup G) \ {c}
  /\ UNCHANGED <<tags, want, ok>>

\* Its file was removed by somebody else first.
RemoveMissed(c) ==
  /\ phase[c] = "busy"
  /\ c \in gone
  /\ want[c].op = "removefile"
  /\ phase' = [phase EXCEPT ![c] = "missed"]
  /\ gone' = gone \ {c}
  /\ UNCHANGED <<data, want, ok>>

\* A removal reports whether it removed something.
RemoveReport(c) ==
  /\ phase[c] \in {"removed", "missed"}
  /\ Finish(c, phase[c] = "removed")
  /\ UNCHANGED data

Read(c) ==
  /\ phase[c] = "busy"
  /\ want[c].op \in {"gettags", "getattr"}
  /\ Finish(c, TRUE)
  /\ UNCHANGED data

\* A caller whose file is gone changes nothing, whatever it reports.
Gone(c) ==
  /\ phase[c] = "busy"
  /\ c \in gone
  /\ want[c].op \in {"unsettag", "cleartags", "unsetattr"}
  /\ Finish(c, TRUE)
  /\ UNCHANGED data

Fail(c) ==
  /\ phase[c] = "busy"
  /\ Finish(c, FALSE)
  /\ UNCHANGED data

Return(c) ==
  /\ phase[c] = "done"
  /\ phase' = [phase EXCEPT ![c] = "idle"]
  /\ want' = [want EXCEPT ![c] = NoCall]
  /\ ok' = [ok EXCEPT ![c] = FALSE]
  /\ UNCHANGED <<data, gone>>

Next ==
  \E c \in Client :
    \/ \E r \in Requests : Call(c, r)
    \/ LearnTag(c) \/ LearnFile(c)
    \/ InsertTag(c)
    \/ SetTag(c) \/ UnsetTag(c) \/ ClearTags(c)
    \/ SetAttr(c) \/ UnsetAttr(c)
    \/ \E G \in SUBSET Client : RemoveFile(c, G)
    \/ RemoveMissed(c) \/ RemoveReport(c)
    \/ Read(c) \/ Gone(c) \/ Fail(c)
    \/ Return(c)

Spec == Init /\ [][Next]_vars
=============================================================================
