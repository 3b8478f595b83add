------------------------------- MODULE FileServer -------------------------------
(***************************************************************************)
(* The HTTP file server of homework 03.  It serves one connection at a     *)
(* time, so that a request is one action, unless the server waits in the   *)
(* middle of it for more to arrive.                                        *)
(*                                                                         *)
(* A path is the sequence of its names; the tree maps the paths that exist *)
(* to Directory or to a content.  A body is a content too: that of a       *)
(* client which closes the connection early is cut short.                  *)
(***************************************************************************)
EXTENDS Naturals, SequencesExt

CONSTANTS Paths,     \* closed under Front
          Directory,
          Empty,     \* the content of an empty file
          Bodies     \* the others

Methods == {"GET", "POST", "PUT", "DELETE", "HEAD"}  \* HEAD stands for any other

\* What a request brings: the body, or Directory for a Create-Directory or
\* Remove-Directory header, with which the body is skipped, as GET, HEAD and DELETE
\* always do.  A start line or header line that cannot be parsed leaves what was read
\* before it, and an empty body.
Requests ==
    {r \in [method : Methods, path : Paths, otherHost : BOOLEAN,
            what : Bodies \cup {Empty, Directory}] :
        /\ r.what = Directory => r.method \in {"POST", "DELETE"}
        /\ r.what \in Bodies => r.method \in {"POST", "PUT"}}

VARIABLES tree,
          request,  \* history: the request handled last
          replies,  \* the statuses sent to it
          waiting   \* the file whose PUT is reading a second body, if there is one

vars == <<tree, request, replies, waiting>>

Init ==
    /\ tree = [q \in {<< >>} |-> Directory]
    /\ request = [method |-> "none", path |-> << >>, otherHost |-> FALSE, what |-> Empty]
    /\ replies = << >> /\ waiting = {}

Entries == DOMAIN tree
IsDir(p) == p \in Entries /\ tree[p] = Directory
IsFile(p) == p \in Entries /\ tree[p] # Directory
Below(p) == {q \in Entries : IsPrefix(p, q)}
Without(S) == [q \in Entries \ S |-> tree[q]]

Reply(status) == replies' = <<status>> /\ UNCHANGED waiting
Refuse(status) == Reply(status) /\ UNCHANGED tree

\* An exception closes the connection: the client gets what was sent before it.
Raise(sent) == replies' = sent /\ UNCHANGED <<tree, waiting>>

\* The tree with what is written at p, and a folder at every other path of S that
\* was missing.
Written(S, p, what) ==
    [q \in Entries \cup S |-> IF q = p THEN what ELSE IF q \in Entries THEN tree[q] ELSE Directory]

\* mkdir with its parents, all there in the end, and what is then written at p.
WithParents(p, what) == Written(Prefixes(p), p, what)

Get(p) ==
    IF p \notin Entries THEN Refuse("404") ELSE Refuse("200")

PostTaken_Directory(p) == IsDir(p)
PostTaken(p) == p \in Entries

Post(p, what) ==
    IF PostTaken(p) THEN Refuse("409")
    ELSE IF \E q \in Prefixes(p) \ {p} : IsFile(q) THEN Raise(<< >>)
    ELSE tree' = WithParents(p, what) /\ Reply("200")

\* The branch for a missing file does not end the request.  It has read the body;
\* unless the folder is missing too the file is made, and what it gets is read from
\* the connection next, as many bytes as the body had.
PutMissing(p, body) ==
    IF p # << >> /\ ~IsDir(Front(p)) THEN Raise(<<"404">>)
    ELSE /\ tree' = Written({p}, p, Empty)
         /\ \/ body = Empty /\ replies' = <<"404", "200">> /\ UNCHANGED waiting
            \/ body # Empty /\ replies' = <<"404">> /\ waiting' = {p}

Put(p, body) ==
    IF IsDir(p) THEN Refuse("409")
    ELSE IF p \in Entries THEN tree' = [tree EXCEPT ![p] = body] /\ Reply("200")
    ELSE PutMissing(p, body)

\* The client of such a PUT has sent as much again, perhaps its next request, or has
\* closed the connection before.
PutRest(content) ==
    \E p \in waiting :
        /\ tree' = [tree EXCEPT ![p] = content]
        /\ replies' = <<"404", "200">> /\ waiting' = {}
        /\ UNCHANGED request

Delete(p, what) ==
    CASE p \notin Entries -> Refuse("404")
      [] IsDir(p) /\ what # Directory -> Refuse("406")
      [] OTHER -> tree' = Without(Below(p)) /\ Reply("200")

\* handle and _process_http_request; one that waits keeps everyone else out.
Handle(r) ==
    /\ waiting = {}
    /\ request' = r
    /\ IF r.otherHost THEN Refuse("400")
       ELSE CASE r.method = "GET"    -> Get(r.path)
              [] r.method = "POST"   -> Post(r.path, r.what)
              [] r.method = "PUT"    -> Put(r.path, r.what)
              [] r.method = "DELETE" -> Delete(r.path, r.what)
              [] OTHER               -> Refuse("400")

Next ==
    \/ \E r \in Requests : Handle(r)
    \/ \E content \in Bodies \cup {Empty} : PutRest(content)

Spec == Init /\ [][Next]_vars

-----------------------------------------------------------------------------
Keeps(S) == \A q \in Entries \ S : q \in DOMAIN tree' /\ tree'[q] = tree[q]

\* What was asked for is there now, and the rest is as it was.
Success(r) ==
    /\ ~r.otherHost /\ r.method # "HEAD"
    /\ r.method = "GET" => r.path \in Entries /\ tree' = tree
    /\ r.method = "POST" =>
           /\ r.path \notin Entries /\ DOMAIN tree' = Entries \cup Prefixes(r.path)
           /\ tree'[r.path] = r.what /\ Keeps({})
           /\ \A q \in Prefixes(r.path) : q # r.path => tree'[q] = Directory
    /\ r.method = "PUT" =>
           /\ IsFile(r.path) /\ DOMAIN tree' = Entries
           /\ tree'[r.path] = r.what /\ Keeps({r.path})
    /\ r.method = "DELETE" =>
           /\ r.path \in Entries /\ (IsDir(r.path) => r.what = Directory)
           /\ DOMAIN tree' = Entries \ Below(r.path) /\ Keeps(Below(r.path))

\* Nothing has been done, for the reason given.
Refusal(r) ==
    /\ tree' = tree
    /\ replies' = <<"400">> => r.otherHost \/ r.method = "HEAD"
    /\ replies' = <<"404">> => r.path \notin Entries
    /\ replies' = <<"406">> => IsDir(r.path) /\ r.what # Directory
    /\ replies' = <<"409">> => r.path \in Entries

\* A PUT that is refused and performed all the same has made one file, and leaves
\* in it what it reads after its body.
Late(r) ==
    /\ r.method = "PUT" /\ DOMAIN tree' = Entries \cup {r.path} /\ Keeps({r.path})
    /\ r.path \notin Entries \/ waiting = {r.path}
    /\ tree'[r.path] \in Bodies \cup {Empty} /\ (waiting' # {} => tree'[r.path] = Empty)

\* The statuses tell the truth about the files: one success has done what it asks
\* for and no more, one refusal or an exception has done nothing, and the reason
\* given is true.  Only a PUT to a missing path gets both, or waits after the first.
Truthful ==
    LET late == waiting' # {} \/ replies' = <<"404", "200">>
    IN  /\ replies' = <<"200">> => Success(request')
        /\ late => Late(request')
        /\ ~late /\ replies' # <<"200">> => Refusal(request')

RepliesAreTrue == [][Truthful]_vars
=============================================================================
