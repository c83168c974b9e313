SPECIFICATION Spec
CONSTANTS
    Pid = {p, q}
    Argv <- MCArgv
    Cwd <- MCCwd
    Input <- MCInput
    MaxLen = 4
    MaxStarts = 2
    MaxArgc = 2
    None = None
SYMMETRY Symmetry
INVARIANTS TypeOK RecordWhole NoLeftover
