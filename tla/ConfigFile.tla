----------------------------- MODULE ConfigFile -----------------------------
(***************************************************************************)
(* internal/config/config.go: what Load makes of a file, where the file is *)
(* looked for, and what the password is at a sync.  A text is Unset, a     *)
(* member of a set of well-formed ones, or malformed; durations are in     *)
(* seconds, and as in the code zero means unset.                           *)
(***************************************************************************)
EXTENDS Integers, Sequences

CONSTANT Texts      \* what the file and its defaults may say in a text

Unset == ""

ASSUME ConfigAssumption == {Unset, "info", "text", "off"} \subseteq Texts

NoFile == "no file"

\* What a file may say, once it is parsed.
Settings ==
    [url : Texts, username : Texts, password : Texts,
     passwordFile : Texts, localDir : Texts,
     timeout : Int, debounce : Int, cooldown : Int,
     interval : Int, reconnect : Int, reconnectMax : Int,
     watch : BOOLEAN, webhook : BOOLEAN, poll : BOOLEAN, notifyPush : BOOLEAN,
     secret : Texts, pushURL : Texts,
     peers : SUBSET [url : Texts, secret : Texts],
     level : Texts, format : Texts, subprocess : Texts,
     subprocessFile : Texts]

OrText(value, default) == IF value = Unset THEN default ELSE value
OrTime(value, default) == IF value = 0 THEN default ELSE value

Defaults(c) ==
    [c EXCEPT !.timeout = OrTime(@, 300),
              !.debounce = OrTime(@, 10),
              !.cooldown = OrTime(@, 30),
              !.interval = OrTime(@, 60),
              !.reconnect = OrTime(@, 5),
              !.reconnectMax = OrTime(@, 300),
              !.level = OrText(@, "info"),
              !.format = OrText(@, "text"),
              !.subprocess = OrText(@, "off")]

\* url.Parse and a scheme and host, where "no url" stands for the others.
IsURL(text) == text \in {"https", "ws"}
IsSocketURL(text) == text = "ws"

ServerValid(c) ==
    /\ IsURL(c.url)
    /\ c.username # Unset
    /\ (c.password = Unset) # (c.passwordFile = Unset)

\* Mutant: the two ends of the backoff are not compared.
TimesValidApart(c) ==
    /\ c.timeout > 0
    /\ c.debounce > 0 /\ c.cooldown >= c.debounce
    /\ c.interval > 0
    /\ c.reconnect > 0 /\ c.reconnectMax > 0

TimesValid(c) ==
    /\ c.timeout > 0
    /\ c.debounce > 0 /\ c.cooldown >= c.debounce
    /\ c.interval > 0
    /\ c.reconnect > 0 /\ c.reconnectMax >= c.reconnect

SourcesValid(c) ==
    /\ c.webhook => c.secret # Unset
    /\ c.pushURL = Unset \/ IsSocketURL(c.pushURL)
    /\ \A peer \in c.peers : IsURL(peer.url) /\ peer.secret # Unset

LoggingValid(c) ==
    /\ c.level \in {"debug", "info", "warn", "error"}
    /\ c.format \in {"text", "json"}
    /\ c.subprocess \in {"off", "log", "file"}
    /\ c.subprocess = "file" => c.subprocessFile # Unset

Validate(c) ==
    /\ ServerValid(c)
    /\ c.localDir # Unset
    /\ TimesValid(c)
    /\ SourcesValid(c)
    /\ LoggingValid(c)

\* Nothing but what has no default and every daemon needs.
OnlyRequired(c) ==
    /\ ServerValid(c) /\ c.localDir # Unset
    /\ \A time \in {c.timeout, c.debounce, c.cooldown, c.interval,
                   c.reconnect, c.reconnectMax} : time = 0
    /\ ~c.watch /\ ~c.webhook /\ ~c.poll /\ ~c.notifyPush
    /\ \A text \in {c.secret, c.pushURL, c.level, c.format, c.subprocess,
                   c.subprocessFile} : text = Unset
    /\ c.peers = {}

\* The configuration counts only if it is accepted.
Load(file) ==
    LET c == Defaults(file) IN [accepted |-> Validate(c), config |-> c]

ValidateEventSources(c) == c.watch \/ c.webhook \/ c.poll \/ c.notifyPush

\* The flag and the environment win even over files that are there.
FindConfigPath(flag, env, files) ==
    CASE flag # Unset -> flag
      [] flag = Unset /\ env # Unset -> env
      [] OTHER -> CASE "/etc" \in files -> "/etc"
                    [] "/etc" \notin files /\ "~/.config" \in files -> "~/.config"
                    [] OTHER -> NoFile

\* Read at each sync; a file that is being rewritten may be empty.
ResolvePassword(c, content) ==
    IF c.password # Unset THEN c.password ELSE content
=============================================================================
