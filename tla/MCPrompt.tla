------------------------------ MODULE MCPrompt ------------------------------
(* Small conversations for Prompt. *)
EXTENDS Prompt

Parts == <<[type |-> "text", text |-> <<"x">>], [type |-> "image", text |-> <<>>],
           [type |-> "text", text |-> <<"y">>]>>
Parted == [kind |-> "parts", parts |-> Parts]
Null == [kind |-> "null"]
Call == [name |-> "f", args |-> ""]

MCWireMessages ==
    [role : {"system", "user", "assistant", "tool", "developer"}, content : {Parted},
     calls : {<<>>}]
    \cup [role : {"assistant"}, content : {Null}, calls : {<<Call, [Call EXCEPT !.args = "a"]>>}]
    \cup [role : {"tool"}, content : {[kind |-> "string", text |-> <<"z">>]}, calls : {<<>>}]
    \cup [role : {"user"}, content : {[kind |-> "number"]}, calls : {<<Call>>}]

MCToolLists == {<<>>, <<[name |-> "f", params |-> ""], [name |-> "g", params |-> "p"]>>}
MCRawPrompts ==
    {[kind |-> "string", text |-> <<"x">>], [kind |-> "string", text |-> <<>>],
     [kind |-> "null"], [kind |-> "ids", ids |-> <<"x">>], [kind |-> "ids", ids |-> <<>>]}
MCAnswers == {<<>>, <<"a">>}
=============================================================================
