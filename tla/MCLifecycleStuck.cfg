SPECIFICATION FairSpec
CONSTANTS
    Conn = {c1, c2}
    Main = Main
    Pty = Pty
    None = None
    MaxSignals = 1
    Habits = {"ignores_input"}
PROPERTY StopCompletes
