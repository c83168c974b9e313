SPECIFICATION FairSpec
CONSTANTS
    Conn = {c1, c2}
    Main = Main
    Pty = Pty
    None = None
    MaxSignals = 1
    Habits = {"ignores_input", "leaves_tty", "background"}
INVARIANTS TypeOK ListenerLast NoOrphan
PROPERTIES NoStaleSignal StopCompletesIf EndsWithProgram SignalServed
