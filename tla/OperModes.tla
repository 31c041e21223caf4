----------------------------- MODULE OperModes -----------------------------
(***************************************************************************)
(* m_opermodes (src/src/modules/m_opermodes.cpp): when a user opers up,   *)
(* the mode string of their <type> tag is split into words and applied    *)
(* to them with SendMode, and the same change is handed to the network in  *)
(* a "send_mode" event.  A string is a sequence of one-character strings. *)
(***************************************************************************)
EXTENDS Naturals, Sequences, SequencesExt

CONSTANTS
    Nicks,    \* users who can oper up
    Types,    \* oper type names
    Configs   \* the <type> tag lists the configuration can hold: sequences
              \* of [name |-> type, modes |-> string]

Space == " "
Signs == {"+", "-"}

VARIABLES
    conf,     \* the tags the module's ConfigReader read
    oper,     \* user->oper of each user ("" before they oper)
    sent,     \* the modes[] array of the last SendMode call: nick, words
    event     \* the deque n of the last send_mode event

vars == <<conf, oper, sent, event>>

(* The words "while (ss >> buf) tokens.push_back(buf)" extracts:         *)
(* maximal runs of non-space characters.                                  *)
RECURSIVE Words(_)
Words(s) ==
    LET k == SelectInSeq(s, LAMBDA ch : ch # Space)
        rest == SubSeq(s, k, Len(s))
        e == SelectInSeq(rest, LAMBDA ch : ch = Space)
    IN  IF k = 0 THEN <<>>
        ELSE IF e = 0 THEN <<rest>>
        ELSE <<SubSeq(rest, 1, e - 1)>> \o Words(SubSeq(rest, e, Len(rest)))

(* "if ((first != '+') && (first != '-')) ThisOpersModes = "+" + ...":   *)
(* the first character of an empty string is the terminating NUL.         *)
Signed(s) == IF s # <<>> /\ s[1] \in Signs THEN s ELSE <<"+">> \o s

(* The modes[] array: the nick, then every word. *)
ModeArgs(u, tokens) == <<u>> \o tokens

Init ==
    /\ conf \in Configs
    /\ oper = [u \in Nicks |-> ""]
    /\ sent = <<>>
    /\ event = <<>>

(* The core sets user->oper and calls OnPostOper: the first <type> whose *)
(* name is the user's oper type is used; with none, nothing is sent.      *)
PostOper(u, t) ==
    LET k == SelectInSeq(conf, LAMBDA tag : tag.name = t)
        tokens == Words(Signed(conf[k].modes))
    IN
    /\ oper' = [oper EXCEPT ![u] = t]
    /\ IF k = 0 \/ Signed(conf[k].modes) = <<>>
       THEN UNCHANGED <<sent, event>>
       ELSE /\ sent' = ModeArgs(u, tokens)
            (* n.push_back(modes[j]) for j < tokens.size() *)
            /\ event' = SubSeq(ModeArgs(u, tokens), 1, Len(tokens))
    /\ UNCHANGED conf

(* OnRehash: a new ConfigReader. *)
Rehash ==
    /\ conf' \in Configs
    /\ UNCHANGED <<oper, sent, event>>

Next ==
    \/ \E u \in Nicks, t \in Types : PostOper(u, t)
    \/ Rehash

Spec == Init /\ [][Next]_vars

(* The network is told of the same mode change the user got: the        *)
(* send_mode event carries every element of the modes[] array SendMode    *)
(* applies (the event exists so that linked servers apply the change).    *)
EventMatchesMode == event = sent

====
