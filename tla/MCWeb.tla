------------------------------- MODULE MCWeb --------------------------------
\* Web on a small instance: the requests are records, which a cfg cannot write.
EXTENDS Web
Get(op) == [op |-> op, head |-> 1, body |-> 0, expect |-> FALSE, binary |-> FALSE]
Post(op, head, body) == [Get(op) EXCEPT !.head = head, !.body = body]
Expecting(r) == [r EXCEPT !.expect = TRUE]
Upload == [Post("other", 1, 1) EXCEPT !.binary = TRUE]
\* In a buffer of two units: requests that fit, a body and a head that do not,
\* an upload of a file, and requests that wait for leave to send their bodies.
MCRequests == {Get(op) : op \in Ops \ {"infinity"}} \union
              {Post("other", 3, 0), Upload,
               Expecting(Post("infinity", 1, 1)), Expecting(Post("other", 1, 2))}
UploadRequests == {Upload, Expecting(Upload)}
=============================================================================
