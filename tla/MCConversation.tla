--------------------------- MODULE MCConversation ---------------------------
(***************************************************************************)
(* What a client may say at place n of a conversation: text, images, one   *)
(* of them too large, calls answered in another order, twice, late or not  *)
(* at all, replayed searches and reasoning, and a developer's message.     *)
(* A visible web search stands for an assistant's plain text, too.         *)
(***************************************************************************)
EXTENDS Conversation

MCWindows == {Unlimited, 0, 1}

ID(n, k)       == <<"id", n, k>>
Words(n)       == Text(<<"said", n>>)
Picture(n, k)  == [id |-> <<"image", n, k>>, large |-> k = 9]
Image(n, k)    == Block("image", <<>>, <<Picture(n, k)>>)
Call(n, k)     == Block("tool_use", ID(n, k), <<>>)
Result(n, k)   == Block("tool_result", ID(n, k), <<>>)
Blob(n)        == Block("redacted_thinking", <<"blob", n>>, <<>>)

Read(n, k) == Block("tool_result", ID(n - 1, k), <<Picture(n, k), Picture(n, 9)>>)

MCSaid(n) ==
  {Message("developer", <<Words(n)>>),
   Message("user", <<Words(n)>>),
   Message("user", <<Words(n), Image(n, 1), Image(n, 9)>>),
   Message("user", <<Result(n - 1, 2), Read(n, 1), Result(n - 2, 1)>>),
   Message("user", <<Result(n - 1, 1), Read(n, 1), Image(n, 2)>>),
   Message("user", <<Result(n - 1, 2), Read(n, 1)>>),
   Message("assistant", <<Words(n), Call(n, 1), Call(n, 2), Blob(n)>>),
   Message("assistant", <<Block("server_tool_use", ID(n, 2), <<>>), Blob(n),
                          Block("tool_search_tool_result", ID(n, 2), <<>>), Call(n, 1)>>),
   Message("assistant", <<Block("web_search", <<"said", n>>, <<>>)>>)}
=============================================================================
