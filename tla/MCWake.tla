------------------------------- MODULE MCWake -------------------------------
(* Machines whose probes succeed and fail in every way the code tells apart. *)
EXTENDS Wake

Linux(w, t, b) == [os |-> "linux", rtc |-> w # "none", wakeup |-> w, timerfd |-> t, writable |-> b]
Windows(l, r, a) == [os |-> "windows", rtcWake |-> TRUE, line |-> l, ac |-> r, dc |-> "off", arm |-> a]
Mac(h, d) == [os |-> "macos", helper |-> h, daemon |-> d]

All == {Linux("enabled", "ok", FALSE), Linux("absent", "denied", TRUE), Linux("enabled", "denied", FALSE),
        Linux("enabled", "failed", TRUE), Linux("disabled", "ok", TRUE), Linux("none", "ok", TRUE),
        Windows("mains", "on", "ok"), Windows("unknown", "important", "ok"), Windows("battery", "on", "ok"),
        Windows("mains", "on", "failed"), Windows("mains", "on", "unsupported"),
        Mac("Enabled", "serves"), Mac("Enabled", "refuses"), Mac("Enabled", "down"), Mac("RequiresApproval", "down"),
        Mac("NotFound", "down")}
=============================================================================
