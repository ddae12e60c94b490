---------------------------- MODULE MCCliSession ----------------------------
(***************************************************************************)
(* Small instances of CliSession for TLC.                                  *)
(***************************************************************************)
EXTENDS CliSession

Words == _known_commands \cup UNION {DOMAIN Groups[g] : g \in DOMAIN Groups}
            \cup SHELL_BUILTINS \cup HelpFlags \cup {"quit"}

\* Every line of one or two words over the words of the command tree and some
\* others, and those of three that ask for help: "help" before or after two
\* words, the first of which is a group, a command or a help word.
MCLines ==
    LET First == _known_commands \cup {"help", "--help"}
    IN  {<<>>} \cup {<<w>> : w \in Words} \cup {<<v, w>> : v, w \in Words}
            \cup {<<"help", v, w>> : v \in First, w \in Words}
            \cup {<<v, w, "help">> : v \in First, w \in Words}
=============================================================================
