----------------------------- MODULE MCHttpInput -----------------------------
EXTENDS HttpInput

MCCodes ==
  (" " :> <<"2", "0">>) @@ ("/" :> <<"2", "F">>) @@ ("&" :> <<"2", "6">>)
    @@ ("=" :> <<"3", "D">>) @@ ("+" :> <<"2", "B">>) @@ ("%" :> <<"2", "5">>)
    @@ ("?" :> <<"3", "F">>) @@ ("\"" :> <<"2", "2">>) @@ ("<" :> <<"3", "C">>)

MCLowercase == "Content-Disposition" :> "content-disposition"

MCEntities == ("&" :> "&amp;") @@ ("<" :> "&lt;") @@ ("\"" :> "&quot;")

MCIntOf == [v \in {<<ToString(n)>> : n \in 0..160} |->
              CHOOSE n \in 0..160 : v = <<ToString(n)>>]

\* The symbols of the streams: what the modules name and the names below.
MCBytes ==
  {"NUL", " ", "\r", "\n", ":", "/", "?", "&", "=", "+", "%", "\"", "<", "-", "XYZ",
   "GET", "POST", "HTTP/1.1", "Host", "x", "Connection", "close", "files", "login",
   "download", "delete", "upload", "Content-Type", "Content-Length", "many",
   "application/x-www-form-urlencoded", "text/plain", "multipart/form-data; ", "boundary=",
   "Content-Disposition", " form-data; ", "name=\"", "; ", "filename=\"",
   "username", "directory", "path", "dir", "file", "ann", "a", "b", "D", "F", "B", "C"}
  \cup {ToString(n) : n \in 0..160}

Wish(kind, path, close) ==
  [kind |-> kind, user |-> <<"ann">>, path |-> path, close |-> close,
   file |-> NoFile]

Upload(dir, name, content) ==
  [Wish("upload", dir, FALSE) EXCEPT !.file = [name |-> name, content |-> content]]

Lines == <<"a", "\r", "\n", "-", "-", "b">>

MCConversations ==
  {<<Wish("open", <<"a", " ", "&", "b">>, TRUE)>>,
   <<Wish("list", <<"a", "/", "b", "&">>, FALSE), Wish("open", <<"a", "/", "<">>, FALSE)>>,
   <<Wish("download", <<"a", "+", " ", "%", "2", "0">>, FALSE), Wish("list", <<"b", "=">>, TRUE)>>,
   <<Wish("delete", <<"a", "\"", "&">>, FALSE), Wish("download", <<"b">>, FALSE)>>,
   <<Upload(<<"a">>, <<"b", "&">>, Lines), Wish("list", <<"a">>, FALSE)>>,
   <<Upload(<<>>, <<"b">>, <<"-", "-", "XYZ", "\r", "\n">> \o [i \in 1..40 |-> "a"])>>,
   <<Wish("list", <<"b">>, FALSE), Wish("malformed", <<>>, FALSE)>>,
   <<Wish("unlimited", <<>>, FALSE), Wish("list", <<"b">>, FALSE)>>,
   <<Wish("list", <<"b">>, FALSE), Wish("no number", <<>>, FALSE)>>}

MCSplitConversations == {<<Wish("list", <<"b">>, FALSE)>>}
==============================================================================
